# Models of Graphviz

A verification development for the C sources of Graphviz: TLA+ modules that
model parts of the program, TLC configurations that check them on small
instances, and theorems about them with proofs for TLAPS.  Paths are relative
to the root of the repository.

It covers libcgraph (`lib/cgraph`), the library in which all other parts of
Graphviz keep their graphs: the graph store, callbacks that are held and
released, the stack of callback disciplines, the records that clients attach to
objects, names, ids and shared strings, and attributes.  Below libcgraph it
covers the ordered dictionaries of libcdt (`lib/cdt`), and above it the
ranking of the dot layout (`lib/dotgen`) with the network simplex solver that ranks
(`lib/common/ns.c`).  Section 6 is the plan for what is left.

## 1. Inventory

Graphviz reads a graph (a DOT file), computes a layout for it and draws it.
libcgraph stores the graph and its attributes; a layout engine (`lib/dotgen`,
`lib/neatogen` and others) attaches records with its own fields to nodes, edges and graphs and
writes positions into them; libgvc (`lib/gvc`) selects engine and renderer
and runs them; `lib/common` holds what engines and renderers share.
There are no threads.  What is hard is the order of calls: operations of the
graph library are called in any order by clients that hold pointers to
structs shared between subgraphs, callbacks run client code in the
middle of library operations, and addresses and ids are used again.

### Parts with state of their own

| Component | State | Operations | Correct when |
|---|---|---|---|
| Graph store: `graph.c node.c edge.c subg.c apply.c` | the tree of subgraphs; two node sets and four kinds of edge sets per graph; ids and sequence numbers; reference counts on names | agopen, agclose, agsubg, agdelsubg, agnode, agsubnode, agdelnode, agedge, agsubedge, agdeledge, relabelling, numeric ids | the sets of a graph agree, subgraphs are contained in their parents, no set holds a freed struct, nothing is lost, ids and names are unique, strict graphs stay strict |
| Held callbacks: `pend.c`, `obj.c` | a flag per root; per graph nine dictionaries of events that are held | agcallbacks, agrecord_callback, the release | every event is delivered once, in order, for an object that exists; the release ends |
| Discipline stack: `obj.c` | a linked list of entries per root | agpushdisc, agpopdisc, the calls of methods | the list is what was installed; entries are freed when unlinked; each method is called once per event |
| Records: `rec.c` | a circular list of records and a pointer with a lock bit per object, twice for an edge | agbindrec, aggetrec, agdelrec, agrecclose | the rings are closed and disjoint, the halves of an edge agree, a lock holds |
| Names: `id.c imap.c refstr.c` | shared strings with counts and a flag bit; the counter of invented ids; the internal map of local names | agmapnametoid, agfreeid, agnameof, agstrdup, agstrfree, closing and clearing the map | objects keep their names, names are unique, counts are exact |
| Attributes: `attr.c` | dictionaries of attributes per graph, each looking into its parent's; a value array per object | agattr, agget, agxset, agcopyattr, the initialisation of new objects | every object has a value for every attribute inside its array, a graph's own default is its value, strings are counted |
| libcdt: `lib/cdt` | splay trees, hash tables, lists; a cached count; views | insert, delete, search, walk, flatten, extract, restore, size, view | a dictionary is an ordered set or a bag, whatever order of calls; the count is right when it is used |
| Network simplex: `lib/common/ns.c` | a spanning tree with cut values, ranks | init, exchange of tree edges, balancing | the tree spans and its cut values are exact; ranks are feasible and, without an iteration limit, of least cost; the loop ends |
| dot: `lib/dotgen` | union-find of rank sets, lists of fast edges, marks, components, ranks, orders in ranks | collapse sets, break cycles, decompose, rank, reduce crossings, position, draw splines | each edge is represented, no cycle is left, every node is in one component, ranks respect edges and rank sets, orders are permutations |
| Orthogonal routing: `lib/ortho` | search graph, heap, channels | shortest path, assignment of tracks | the heap property, an acyclic order of tracks |
| Tcl handles: `tclpkg/tclhandle` | a table with a free list | alloc, free, grow, reset | a handle stands for one live entry |
| libgvc: `lib/gvc` | contexts, lists of jobs, the current layout | gvLayout, gvRender, gvFreeLayout | the layout that was made is the one that is freed, once |

### Parts without

The reader and writer of DOT (`grammar.y scan.l write.c`), drawing
(`lib/common`), geometry (`lib/pathplan`), the numeric layouts
(`lib/neatogen` and others), the languages (`cmd/gvpr`), tools, editors,
plugins, bindings, the former graph libraries and vendored code are listed in
`PROJECT.json` with the reason each is left out: text processing,
floating-point computation, input and output, or code that is not the
project's own.

### Interactions

* Every operation of the store calls names (`agmapnametoid`, `agfreeid`),
  records (`agrecclose`), attributes, and then a method through the
  discipline stack (`agmethod_init`, `agmethod_upd`, `agmethod_delete`),
  or `agrecord_callback` while callbacks are held.
* `pend.c` keeps its dictionaries in a record of the graph; attributes are a record too.
* The store, names and attributes keep everything in dictionaries of libcdt,
  several of them in one `Dt_t` whose tree is exchanged (`edge.c`); attributes look
  through a dictionary into that of the parent (`dtview`) and take the view away
  for a moment (`aglocaldictsym`).
* Layout engines keep all of their state in records.
* `dot_rank` builds a second graph, the fast graph, over the first one, divides it
  into components and calls `rank()` on each.  `decompose` and `acyclic` share the
  mark of a node.

## 2. Modules

| Module | What it is |
|---|---|
| `Walks` | reachability in a finite relation, for recursions over the subgraph tree |
| `CgraphAbs` | what the store promises of the node and edge sets, without ids, dictionaries and searches |
| `Cgraph` | the store as it is coded; implements `CgraphAbs` |
| `CgraphProofs` | theorems about `Cgraph`: its invariants, and that it implements `CgraphAbs` |
| `AgCallbacks` | holding and releasing callbacks |
| `AgCallbacksProofs` | theorems about `AgCallbacks` and `AgDiscStack`, the two parts of libcgraph that call a client's methods |
| `Chains`, `ChainsProofs` | lists linked by a field of their members; what holds of them, of iteration, and of `Reach` |
| `AgDiscStack` | the discipline stack |
| `AgRecAbs`, `AgRec` | what the record functions promise, and how they do it |
| `AgRecProofs` | theorems about `AgRec`, which implements `AgRecAbs` |
| `AgNames` | names, ids and strings |
| `AgNamesProofs` | theorems about `AgNames` |
| `AgAttr` | attributes: dictionaries along the subgraph tree, value arrays, counts of strings |
| `AgAttrProofs` | theorems about `AgAttr` |
| `DtAbs`, `DtTree` | what an ordered dictionary of libcdt promises, and the splay trees that keep it |
| `DtTreeProofs` | theorems about `DtTree`, which implements `DtAbs` |
| `RankAbs` | what `rank()` promises at any time: it moves sets of nodes as far as the edges allow |
| `NetworkSimplex` | `rank()` as it is coded; implements `RankAbs` |
| `DotRank` | `dot_rank` from the rank sets to the ranks; of `rank()` it knows that the ranks are feasible |
| `DotRankProofs` | theorems about `DotRank` |
| `MC...` | instances of these for TLC |

Operators named `Bug...` are wrong versions of the operator next to them, one for
each property, of the kind a slip in the code would produce; with such a version in the
place of the right one the property fails.  They are no part of the specifications.

### Cgraph

State: `graphs`, `nodes`, `edges` are the allocated structs; the other variables are
the fields of `Agraph_t`, `Agnode_t` and `Agedge_t` under the names of the
source (`nIdx` is `n_id`), of `Agclos_t` (`seqCtr`), and the reference counts and
the static counter of the id discipline.  An edge is one element, although it
is a pair of structs: `tail` and `head` are the `node` fields of the halves.  A graph's sets `out_id` of
all nodes are one set, `outIdx[g]`, whose key begins with the near endpoint;
that is what the trees are, since every tree belongs to one endpoint.

Dictionaries: `AddNew` and `Without` insert and delete *by key*, as `dttree` does: what has a
key that is there is not inserted, and what is deleted is whatever has
the key.  All lookups go through keys as well (`FoundNode`, `FoundEdge`), so
an id that is not unique, or a sequence number that has wrapped round, has the
consequences it has in the code.

Actions: one per operation and outcome (`AgnodeCreate`, `Agsubnode`,
`AgdelnodeSubg`, `AgdelnodeRoot`, ...).  A call that only finds changes nothing
and is no action.  `agapply` and its recursion are `NodeVisit` and `EdgeVisit`;
the recursions towards the root are `Climb`.  A freed struct is blank, and its
address may be used again.

Client contract: `agedge` does not ask whether the two nodes it is given are nodes of the graph (`edge.c:279`); `agsubrep` (`edge.c:197`)
then has no entry to put the edge into.  `AgedgeCreate` and `AgedgeSubedge` are for clients that pass nodes of the graph.

Bounds: `MaxSeq` creations of nodes and of edges per root graph (a new root
starts again), `MaxAnon` invented ids, the numbers of structs.  `SeqMod` is two to
the width of `Agtag_s.seq`; instances set it so that it does not wrap, except `cg_seqwrap`.

### AgCallbacks

State: the flag `callbacks_enabled`; per graph the dictionaries of created, changed and
deleted objects (`pend`); the objects and their ids; how far a release has got (`flush`).  History:
what the client was told of each object (`told`, consecutive repetitions left out), the
attributes whose change it has not been told of (`owed`), and whether a method has used an object it was not told of (`rash`).
`Ends` says which nodes an edge connects: it is made when both exist, and a node is deleted when its edges are, as `agdelnode` does it.

`InOrder` is about everything the client hears, whether a release delivers it or a method of the release causes it and it is heard
at once.  `Stories` are the sequences that make sense for one object, and an edge the client believes in has two nodes it believes in.
A release does not look ahead: while it runs callbacks are enabled, so that a method that changes an object whose creation is still held,
or makes an edge to it, is heard before that creation is (`cb_inside`).  Until a method does so (`~rash`), the order is kept.

A release is not one step: `Deliver` calls the methods for the first record, then the client may act
(`InCallback` says how), then `Return` removes the record; `NextStage` goes on to the next
dictionary.  The nine dictionaries are six here: those of graphs are left out.

Fairness: `WF_vars(Library)`: the release is a loop in one call, and it goes on
whenever the methods it calls return.  Nothing is assumed of the client.

### AgDiscStack

State: the entries (`f`, `prev`), the top (`cb`), which are allocated, and the events under way (`running`).  `Chain` is the list of entries from the
top down, read from the fields by `Listed` (`Chains`).  `EventBegins` is the descent of the
recursion to the bottom of the stack, `Call` the call of one method on the way back, `EventEnds` the return of the first frame.

A method may do what any client may: push, pop the top or another entry, close the graph, and cause an event, which goes down the
list as it then is and comes back before the outer one goes on.  So an entry may be freed while a suspended frame waits for it (`Awaited`), or, by
`agpopdisc` for a discipline that is not on top, while it is still linked; and the allocator may give it out again.  An access to a freed entry, or through a
null pointer, or a walk that never ends, is a `Crash`, after which nothing happens in the model: the runs do not check for deadlock.
History: the client's view of the stack (`installed`), whether every pop was of the top and of no entry that a frame waited for (`orderly`),
and whether an entry was given out while it was linked (`reused`).

Bounds: `MaxNested` events at a time; the set of entries.

### AgRec

State: `data` and `mtflock` of each object, or half of an edge; `next` and `name` of each record.
`Ring(h)` is the list in the order in which `aggetrec` looks at it, again read from the fields by `Listed`.
`ret` is the last call and what it returned.  The refinement maps rings to sets of names, and pointer and bit to the name
that is locked.

### AgNames

State: the table of strings by address (text, count, HTML bit), the
counter of invented ids, the internal map.  `objs` are the objects with the place in which their names are
looked up and the name they were *given*, so that "keeps its name" can be said.  `Main` is the place of the
root, `PlacesOf` says where objects of a type are looked up: nodes in the root only (`agnode` goes up to it), subgraphs and edges
in a graph of their own.  `held` counts the
strings the client has duplicated and not freed.  The model follows the code that the
id of an object is the address of the string, and that freeing the string makes the address available.

### AgAttr

State: for each graph and kind of object a dictionary from names to symbols (index and default), the
dictionary it looks into (`view`) with the number of those that look into it (`nview`), the array of each object (`str`) and the
length it was allocated with (`room`), the counts of strings (`ref`), and `bad`: an assertion or abort failed, a value was
written past its array, or a string was read that nobody held.  `Proto` is the graph in which
`agattr(NULL, ...)` declares.

An operation changes the state several times, so it is a function on a record of it (`World`), in the order of the
code: `Agstrfree` before `Agstrdup`; the view taken away and put back (`Local`); the values of each object a new attribute
reaches (`NewGlobal`).  Where the code calls `agstrdup` once for each member of a set and does nothing in between that reads a count,
`AgstrdupAll` does all of it at once.  The dictionaries that a search goes through (`Path`) are a list along `view`, read off by `Listed` (`Chains`); the subgraphs that
`agapply` and `agclose` go through (`Below`) are a `Reach` (`Walks`).  A value that the client passes may be a pointer it has from the library
(`MayBorrow`); unless `PassesOwn`, not the very one that is replaced.
A client may take a subgraph out of its parent with `agdelsubg`; unless it `Forgets`, the next thing it does is to close it (`Goes`).

Bounds: `MaxEdits` calls that set something; `MinAttr`, which is 4 in the code, is small so that arrays grow.
The count of a string in the model goes to zero at the point at which `refstr.c` frees it.

### DtAbs and DtTree

State: the fields `left` and `right` of each object (`ptr`), the root (`here`), the count or -1 (`size`), the flag of flattened
dictionaries (`flat`), views, and the tree that the client has taken out with `dtextract` (`kept`).

`Splay` is the loop of `dttree.c`, `HasRoot` and `NoRoot` are its two ends; searches, insertions, deletions and moves differ in what they do
between them.  The code writes each case for the left and for the right; here the side is a parameter.  Each is a function of the state and
the dictionary to the new state and the object it answers, so that `AnswersRight` can ask each question in each
state.  A loop over a tree (`Extreme`, `Splay`, `Freed`, `Spine`) is a function on the number of rounds, a walk (`InOrder`) one on the depth
and the object: no tree is deeper than there are objects, and a round at the end of a loop changes nothing, so that `Cardinality(Obj)` rounds are
those of the code.  The refinement says what the sets become; the abstract dictionary has no trees, no flag and no count.

Client contract: an object has one link field, so that it is in one dictionary at a time.  A client may ask for the neighbour of an object
that is no longer there, or that was never there, and may leave a dictionary flattened.

Bounds: up to four objects (`Most`) of four keys, two of the five objects with the same key; all four in the upper dictionary, or two in it and one below
(`Rooms`).  Four are enough for every case of the splay: two rotations in the same direction, two in opposite ones, and a
search that ends half-way.

### RankAbs and NetworkSimplex

State: the ranks, and the tree `t` with its edges in order, the lists of tree edges at each node, cut values, and the
numbering (`low`, `lim`, `par`).  `S_i` is where the search for a leaving edge goes on, `iter` counts exchanges.

Steps: the first ranks; one round of `feasible_tree`; one exchange (`Pivot`: `leave_edge`, `enter_edge`, `update`); the end of the exchanges; one move of a balancing
pass.  The recursions (`dfs_range`, `dfs_cutval`, `dfs_enter_outedge`, `rerank`, `treeupdate`) are operators, in the order of the code, with its
corrections along a path in place of a fresh computation: that is what `TreeSound` is about.

`RankAbs` moves sets of nodes by no more than the edges at their border have to spare.  That `NetworkSimplex` implements it says that every intermediate ranking is one
a caller may use: the limit on iterations (`maxiter`, from the attribute `nslimit`) may stop it at any exchange.

Termination is stated without fairness: `NoCycling` bounds the exchanges by the number of trees.  `Optimal` is about trees whose
edges are tight: the leaf case of `update` (finding `ns_leaf`) leaves others behind, after which the ranks need not
be of least length.  One such graph, with the arcs 2-1 (least length 1, weight 1), 2-4, 1-3 and 4-3 (2, 2), gets the ranks 1, 0, 4, 2 and the total 15,
where 14 is possible.

### DotRank

State: the union-find of rank sets (`leader`), the fast graph (`fast`, with the lists `out` and `in`; deleted edges stay in `fast`, as
`ED_to_virt` of others may lead to them), marks and components, the calls of the depth-first search that have begun (`stack`).

`pc` follows `dot_rank`: `collapse_sets`, `class1`, `minmax_edges`, `decompose`, `acyclic`, `minmax_edges2`, `decompose` again, `rank1`,
`expand_ranksets`; `at` is how far its present loop is.  Lists lose members as in the code, where the last one fills the hole: this is what makes
the step back of the index in `acyclic.c` necessary.  `minmax_edges` is two loops, first over the edges out of the greatest set, then over those into the least; each reversal is a step.
`decompose` is one step: `Spread` is the body of `search_component`, `Search` its recursion (by a depth that no call exceeds), both functions.  `Turn` says which edge `class1` comes to next.  `RankComponent` takes any feasible ranks of a component that start at zero, up to `Extra` longer than its
longest path; `NetworkSimplex` shows that `rank()` gives such ranks.

Edge `i` weighs two to the power of `i`, so that a sum of weights tells which edges are in it.  A node that is in a least set and in a greatest set at once makes
`minmax_edges2` close a cycle (`pc = "trouble"` in the model, a failed `rank()` in the code); such jobs are not among the instances.

## 3. Runs

Runs that pass:

| Run | Instance | Shows |
|---|---|---|
| `cg_core` | directed; root and two subgraphs, two nodes, two edges; names or none | the sets of the store are sound, nothing leaks, ids and counts are exact, and the store does to the sets what `CgraphAbs` says |
| `cg_strict` | strict, undirected; edges without keys; subgraphs detached with agdelsubg | no multi-edge comes about; the sets stay in step though subgraphs disappear |
| `cb_hold` | one graph, two nodes, an edge, two ids, one attribute; methods create and update objects | callbacks are delivered completely, in order unless a method is rash, for live objects; the release ends |
| `ds_any` | three entries, two disciplines, an event inside an event; client and methods push, pop in any order, close | the list is what is installed until a linked entry is given out again; sound as long as pops are orderly |
| `rec_ring` | a node and an edge, four records, three names | rings, halves, and the refinement of `AgRecAbs` |
| `nm_names` | nodes of the root, subgraphs and edges in two places each; an ordinary and a local name; two more strings | names and counts |
| `at_attr` | a root, a subgraph in it and one in that, a node, the graph of defaults; two names, two values; four edits | every object has its values, inside its array; counts; own defaults are values; no abort |
| `ns_rank` | six shapes with up to five nodes and six edges, each in up to ten numberings, each edge short and light or long and heavy; three kinds of balancing; no limit, or one exchange; ranks given that are all the same, or feasible and somewhere tight | tree and cut values, optimality, termination, no exchange lengthens, and the refinement of `RankAbs` |
| `dr_rank` | four nodes, four edges in every arrangement, two patterns of lengths, one of them with an edge that does not count; no, one, two or three rank sets | the fast graph, the representation of edges, acyclicity, components, and the ranks in the end |
| `dt_tree` | two dictionaries, five objects with four keys, at most four at once | the trees are sound, the count is honest, answers are right, and the refinement of `DtAbs` |

Why these bounds: in the store two subgraphs make both shapes that matter (nested, side by side), two nodes and two
edges make a self-arc, parallel and opposite edges, and equal keys; an operation
touches at most two nodes and one edge besides the walk over the tree.  A second creation after a deletion, which the bounds allow,
is what uses an address, a name or an id again.  Callbacks need an edge and its
two ends, for the order, and one id more than one for records that are found by id.  Records:
with four, a ring has a record in front, one before it, and others; two objects share nothing.  Disciplines: three entries make a top, one that is below it and one below that; a method that acts in the middle of an event, and an event inside an
event, need two.  `NotReused` is a constraint: states in which a linked entry has just been given out are checked, and what follows them is not explored, since neither property says anything of them.  Strings: two invented ids
and three addresses let a name be shared, freed and put elsewhere.  Attributes: a graph below a graph below the root is what a search through two views needs, and
the second attribute is the one for which an array of one grows.  Network simplex: in a square, a tree that is not best, an exchange of
slack zero and a leaf at the root of the numbering all occur; five nodes give cut values that are corrected in the middle of the tree; the numberings decide which node is the
root.  dot: four edges make a cycle through all nodes, or a shorter one and edges beside it; two sets collapse nodes so that
edges become parallel, opposite or loops between leaders.

Runs in which a documented property fails; each has an entry under "findings":

| Run | What fails |
|---|---|
| `ns_leaf` | "for (v = in nodes in tail side of e) do ND_rank(v) -= delta;" (`ns.c:396`): when the leaf is the root of the numbering, every node moves |
| `dr_wrap` | "Decompose finds the connected components of a graph" (`decomp.c:16`): when the mark has wrapped round it equals the mark of `acyclic`, and no component is found |

### Further configurations

These were met while modelling; TLC refutes the property named on the instance the file gives.

| File | Property | What the code does | Against |
|---|---|---|---|
| `cg_strict_keyed` | `StrictNoMultiEdges` | in a strict graph, edges with different keys, or created through a subgraph, are made (`edge.c:251`) | `cgraph.3:148` "A strict graph cannot have multi-edges or self-arcs." |
| `cg_strict_keyed` | `StrictNoSelfArcs` | Agstrictdirected allows loops (`edge.c:247` tests another flag) | the same |
| `cg_detach` | `NothingLeaks` | agdelsubg removes the entry only (`subg.c:92`) | `cgraph.3:50` "same as agclose()" |
| `cg_seqwrap` | `IndexesAgree` | sequence numbers have 28 bits and are never given back (`node.c:77`) | the assertion `node.c:99` |
| `cb_deletion` | `LiveWhenDelivered` | the method for a held deletion gets a freed object (`pend.c:256`) | `cgraph.3:178` |
| `cb_all_told` | `AllTold` | with two graphs: a release delivers the record of one graph, and enables callbacks for all (`pend.c:268`) | `cgraph.3:183` |
| `cb_all_told` | `AllTold` | with two attributes: record_sym never adds a second attribute (`pend.c:155`) | `pend.c:29` "attributes involved" |
| `cb_all_told` | `AllTold` | with in-edges: no method and no dictionary for an in-edge (`obj.c:126`) | `cgraph.3:178` |
| `cb_deletion` | `NoAbort` | records are found by id, which a new object of the same name has again (`pend.c:206`) | the assertion itself |
| `cb_inside` | `LiveUntilDeleted` | a callback deletes an object while enabled: the records that are still to be delivered for it stay (`obj.c:137`) | `cgraph.3:178` |
| `cb_inside`, with `{"hold", "create"}` | `AllTold` | a callback holds callbacks again, what happens then is recorded in dictionaries the release has passed, and the end of agcallbacks enables callbacks over it (`pend.c:294`) | `cgraph.3:183` |
| `cb_inside`, with `{"create", "update"}` | `HeardAsHappened` | while a release runs, what a method does is heard at once, also of an object whose creation is still held (`pend.c:268`) | `pend.c:271` "this destroys objects in the opposite of their order of creation" |
| `ds_documented` | `EntriesAllocated` | popping a discipline that is not on top frees the entry above it, which stays linked (`obj.c:225`) | `cgraph.3:182` "uninstalled with agpopdisc" |
| `ds_documented` | `CalledTopDown` | methods are called from the bottom up (`obj.c:87`) | `cgraph.3:181` "top-down" |
| `ds_documented`, with `PopsAny = FALSE`, `MaxNested = 1` | `NeverCrashes` | a method that pops the entry of a frame that waits (its own discipline's, or one above) frees what that frame reads next (`obj.c:88`) | `cgraph.3:182` "uninstalled with agpopdisc" |
| `rec_documented` | `LockReleased` | nothing but agdelrec releases a lock (`rec.c:51`) | `cgraph.3:353` "To release locks, use AG_MTF_SOFT or AG_MTF_FALSE" |
| `rec_documented` | `LockObtained` | a second lock is reported and not given (`rec.c:53`) | `cgraph.3:352` "guarantees that a lock was obtained" |
| `nm_close` | `NamesKept` | closing a subgraph takes the local names away from all objects of the root (`graph.c:115`) | `cgraph.3:143` |
| `nm_anonymous` | `NamesUnique` | an object may be named like what is printed for one without a name (`id.c:152`) | `cgraph.3:143` |
| `nm_html` | `StringsFreed` | `refcnt && CNT_BITS` is a logical and (`refstr.c:161`) | `cgraph.3:294` |
| `nm_html` | `HtmlHonoured` | the kind of a shared string is that of the first request (`refstr.c:133`) | `cgraph.3:307` |
| `at_detach` | `NoAbort` | agdelsubg, the subgraph is left open, then agclose of the root: the subgraph's dictionaries still look into those that are closed, and agdtclose aborts | `cgraph.3:50` "same as agclose()" |
| `at_detach` | `NoAbort` | without `Forgets` and with `PassesOwn`: agxset frees the old value before it copies the new one (`attr.c:474`), which may be the same string | a client may pass what agxget returned |
| `ns_loose` | `FailsIfApart` | given feasible ranks with no tight edge, `tight_tree` finds no edge to begin with, and `rank()` fails on a connected graph (`ns.c:309`) | `ns.c:596` "returns 1 if not, the latter indicating that the graph was not connected" |
| `dr_source` | `SourceStrict` | a source set is kept strictly apart by the length of the edges that minmax_edges2 adds only; an edge of least length 0 out of the set, or a later set that takes over as leader, undoes it | `doc/dotguide/dotguide.tex` on `rank=source` |

A file with two properties stops at the first that TLC meets; it is checked with one of the two at a time.  A file with several lines here
names in a comment the constants that each of them needs.

## 4. Proofs

TLC has checked each property below on the small instances first.
The proofs use the named assumptions of the modules on their constants (`GraphAssumption`, `CallbackAssumption`,
`NullAssumption`, `StackAssumption`, `RecAssumption`, `NamesAssumption`, `AttrAssumption`, `DtAssumption`, `RankAssumption`): the sets of addresses are finite where something
is counted or a list is followed, the null value is none of the others, an address is even, the other half of the other half is the half itself.
What else a theorem assumes is in its statement, and below under "For".

| Theorem | For | States |
|---|---|---|
| `CgraphProofs!TypeCorrect` | any client, any kind of graph | the fields of the store keep their types; a live edge has two endpoints |
| `CgraphProofs!SetsStaySound` | any client, `MaxSeq < SeqMod` | the node sets and the four edge sets of every graph that can be reached agree, and are contained in its parent's |
| `CgraphProofs!NothingEverLeaks` | the same, `~ClientDetaches` | every graph is in the tree under the root, whose sets hold every node and edge |
| `CgraphProofs!IdsStaySound` | the same, `~ClientDetaches` | ids tell objects apart; the count of each name is the number of its uses |
| `CgraphProofs!NamesStayHeld` | any client, `MaxSeq < SeqMod` | no name is given up under an object that can be reached |
| `CgraphProofs!StrictStaysSimple` | `MaxSeq < SeqMod`, edges without keys | a strict graph gets no two edges with the same endpoints |
| `CgraphProofs!KeepsItsPromise` | `MaxSeq < SeqMod`, `~ClientDetaches` | every step of the store is a step of `CgraphAbs` |
| `AgCallbacksProofs!TypeCorrect` | any client | the dictionaries and the state of a release keep their types |
| `AgCallbacksProofs!HeldForLiveObjects` | a careful client | a held creation or update is delivered for an object that exists, under the id it was held for |
| `AgCallbacksProofs!NeverAborts` | the same | the assertions on a creation hold |
| `AgCallbacksProofs!NothingLost` | the same, one attribute | when callbacks are enabled again, the client has been told everything |
| `AgCallbacksProofs!HeardInOrder` | the same, any attributes | until a method uses an object it was not told of, what the client has heard makes sense: nothing changes before it is announced or after it is gone, edges come after their nodes and go before them |
| `AgCallbacksProofs!ListStaysAsInstalled` | any client, any methods | the list is what is installed, in its order, until an entry is given out that is still linked |
| `AgCallbacksProofs!OrderlyIsSound` | any client, any methods, as long as only the top is popped, and by no method while a frame waits for it | nothing is read after its free, the linked entries are the allocated ones, and an event calls each method once, from the bottom up |
| `AgRecProofs!RingsStaySound` | any client | the records of each object are one ring; rings are disjoint and hold all records |
| `AgRecProofs!HalvesStayAgreed` | any client | both halves of an edge have the same record in front, and the same lock |
| `AgRecProofs!RecordsKeepPromise` | any client | every step is a step of `AgRecAbs`: one record of a name, and a lock stays |
| `AgNamesProofs!StringsStayCounted` | `~ClosesAny` | a string is in the table once, with the count of its uses |
| `AgNamesProofs!NamesAreKept` | `~ClosesAny`, not edges with local keys | an object answers the name it was given, and is found under it |
| `AgNamesProofs!NamesStayUnique` | `~ClosesAny`, no name like what is printed for an anonymous object | no two objects in one place have one name |
| `AgAttrProofs!TypeCorrect` | `~Forgets` | arrays, dictionaries and views keep their types; no count goes below zero |
| `AgAttrProofs!ValuesComplete` | `~Forgets` | every object has a value for every attribute, inside its array, by the number its dictionaries give |
| `AgAttrProofs!CountsStayExact` | `~Forgets` | the count of a string is the number of its uses as a value, a default or a name |
| `AgAttrProofs!DefaultsStayValues` | `~Forgets` | a graph's own default of a graph attribute is its value |
| `AgAttrProofs!NeverAborts` | `~Forgets`, `~PassesOwn` | no string is read after it was freed, no array is too short, no dictionary is closed in use |
| `DtTreeProofs!TreesSound` | any objects, keys, dictionaries, any order of calls | an object has one pointer to it at most, walks are in the order of the keys, also of the tree taken out, and a flattened tree is a list |
| `DtTreeProofs!SizesHonest` | the same | a count is exact, or known to be unknown |
| `DtTreeProofs!Answered` | the same | every call answers and changes what an ordered set would, through views as well |
| `DtTreeProofs!PromiseKept` | the same | every step is a step of `DtAbs`, or nothing that it tells apart |
| `DotRankProofs!ListsAgree` | any graph, any rank sets | the lists of the fast graph agree, each edge is in them once, and no two edges go from one node to one other |
| `DotRankProofs!Components` | the same, `254 \notin Marks` | each leader is in one component, once, and no edge goes from one to another |
| `DotRankProofs!EdgesCarried` | any graph, any rank sets | the pointers of each edge lead to one live edge, with the same two leaders and at least its length, which weighs as much as the edges that lead to it |
| `DotRankProofs!CyclesBroken` | any graph, `Separable` | after `acyclic`, and after `minmax_edges2`, the fast graph has no cycle |
| `DotRankProofs!EdgesLong` | any graph, `254 \notin Marks` | in the end, an edge that counts spans as many ranks as it asks, up or down, unless its ends collapsed to one |
| `DotRankProofs!AskedRanks` | any graph, `Separable`, `254 \notin Marks` | in the end, rank sets are level, and the least and the greatest set are where they asked to be |

*Hypotheses.*  Each excludes something that a configuration shows to go wrong, and each is met by an instance of a passing run.
`MaxSeq < SeqMod`: a root makes fewer nodes, and fewer edges, than its 28-bit
sequence numbers have values (`cg_seqwrap`).  `~ClientDetaches`: subgraphs are closed with `agclose`, not taken out with
`agdelsubg` (`cg_detach`).  `EdgeNames \subseteq {NULL}`: edges have no keys (`cg_strict_keyed`).  `~ClosesAny`: no subgraph is closed while local
names are in use (`nm_close`).  No name `<<"%", i>>`: `nm_anonymous`.
`~Forgets`, `~PassesOwn`: a subgraph taken out with `agdelsubg` is closed before anything else, and `agxset` is not given the pointer to the value it replaces (`at_detach`; both are met by `at_attr`).  `CarefulClient`: one graph, no id or address used again
while its deletion is held (`cb_deletion`), no attribute set through an in-edge (`cb_all_told`), and in a callback only
creations and updates (`cb_inside`); `OneAttribute` excludes the last case of `cb_all_told`.  `254 \notin Marks`: the mark of `decompose` does not wrap round between its two calls (`dr_wrap`); `dr_rank` starts at other marks.  `Separable`: no chain of rank sets with common nodes leads from a least set to a greatest one
(the two would collapse to one node, which `minmax_edges2` puts on a cycle); every job of `dr_rank` is separable.

*The store.*  `SetsSound` is not inductive: that the sets agree after an insertion depends on what is found by id and by
sequence number, and that a deletion reaches every graph depends on the tree.  `Inv` in `CgraphProofs` adds that each entry of a
`g_dict` is an allocated subgraph whose parent has it (`Tree`), that freed structs have empty sets (`Cleared`), that the root holds every node and edge
(`Owned`), that no two live objects have one sequence number and none a greater one than the counter (`Numbered`), that nobody has the next invented
id (`AnonymousNew`), that siblings differ in their ids (`SiblingsDiffer`), and that counts are at least the references from objects that can be
reached, and equal to them if nothing was detached (`NamesHeld`).  Most of the work is in two facts about reachability, each a lemma about `Reach`:
what `Visit` reaches from a graph that holds an object is every graph below that holds it, because containment has no holes; and `Climb`
stops at the first graph that has the object, above which all have it.  A deletion of the root's node deletes its edges one by one, in subgraphs first;
its lemma says what all of that leaves.

*The store implements `CgraphAbs`.*  A step of the store that inserts in `Climb(g, H)`, the graphs above `g` up to the first that has the object, is mapped to one that
inserts in all graphs above; the difference is graphs that have it already, by `Inv`.  Similarly downwards.  Closing a subgraph closes what is below it, which is where `~ClientDetaches` is needed.
`DeadEnds` (a free edge has no endpoints) is the one addition to `Inv`.

*Callbacks.*  What the theorems say is about the moment of a delivery or the end of a release; they hold because of
what is true of the records at all times.  `HeldInv` says it: records of creations and updates are for live objects and
carry their present id (`HeldLive`), records of deletions are for dead ones and their ids are free (`HeldDead`), live
objects of a kind have different ids (`IdsUnique`: this makes a search by id a search for the object),
a release has emptied the dictionaries it has passed (`Releasing`), and nothing is held while callbacks are
enabled (`Drained`: this makes a deletion safe then, since it looks at no record).  The delicate step is the deletion of an object
while callbacks are held: what is left of the older records must not name it.  `TellInv` adds the accounts: whatever the client
does not know (a change, a birth, a death) is in a record that is still to be delivered.  The delicate step there is `Return`,
which removes everything with the id of the delivered record: all of it is for the same object, of which the client has just been told.
`OrderInv` adds, as long as no method was rash, that the client was told nothing yet of an object whose creation is held (`NotYetTold`), and that a live
edge has live nodes (`LiveEnds`).  A release has emptied the dictionaries before the one it is at, so that the nodes of an edge are known when it is announced, and no edge
is believed in any more when a node is.

*Lists.*  The stack of disciplines and the rings of records are lists that are linked by a field.  `Listed` reads such a list off the field with
a recursive function, and `ChainsProofs` proves what the others cite: a sequence without repetition, in which each member is linked to the next
and the last to null, is what `Listed` returns (`ListIs`), if the members are from a finite set.  The same module proves that a function exists that is computed in rounds, each from the one before (`StagesExist`), and what is needed
of `Reach`: that it contains its start, is closed, and is the least such set.  It uses induction on natural numbers in the form that each set of
them that is not empty has a least member (`NatLeast`), which needs no operator as a parameter.  With that, an operation on the fields is an operation on
sequences.  For the stack (the second part of `AgCallbacksProofs`), `Inv` says that the list is as long as, and has the disciplines of, what the client has installed, until an entry is given out again while it is linked; and while pops are orderly,
that the list holds the allocated entries, and (`Going`, for each event under way) that the frames that wait hold allocated entries with what is left of what was installed when the event
began, the methods already called being the rest of it.  A pop of an entry no frame waits for leaves that as it is, and a push takes an entry that was not allocated.

*Rings.*  `Inv` says that there are sets `S[h]`, the records of each object, disjoint for different objects and together
the allocated records, such that `next` makes one circle of each (`IsCircle`), whose first member both halves point to, and a lock is on a record.  `CircleTurn`,
`CircleInsert` and `CircleRemove` say that what `aggetrec`, `objputrec` and `objdelrec` do to the fields leaves a circle of the right set, `CircleFrame` that it
leaves the others alone.  The refinement needs in addition that the names in a circle differ, so that the search for a name finds one record.

*Names.*  `Inv` in `AgNamesProofs` relates four tables: ids that were invented are less than the counter and belong to one object (`Fresh`); an id that is an address is that of a string
with the object's name, any other is linked to the name by the internal map or belongs to an object without one (`Named`); the map is one to one for each type
(`Linked`); a count is the number of objects and entries at the address and of the client's uses of the text (`Counted`).  A string is freed when its
count is zero; by `Counted` nobody has its address as an id then, so that the address may be given out for another name.

*Attributes.*  None of the four invariants is inductive: that a new object gets all of its values depends on what its parent sees, that on the
views, and whether a view may be taken away and put back on how views lie in the tree.  `Inv` in `AgAttrProofs` is a predicate `Sound` on a world (the record on which
the operations are functions), the live objects and the attached subgraphs, so that each lemma can say what one function does to a sound world.  Its parts:
`Tree`: each live graph has a way up to its root through live graphs (`Ancestry`), and at most one subgraph is detached;
`Looking`: a dictionary looks into that of the parent and into no other, and `nview` is the number of dictionaries that look into one;
`SymbolsOK`: a root numbers its attributes from zero without a gap, a dictionary below has only attributes of the root, by the same number, and a dead graph has none;
`ValuesOK`: the length of an object's array is the number of its root's attributes, and no more than its room;
`Counted`: a count is the sum of three cardinalities (values, defaults, names); `LocalBut`: own defaults are values, except where an operation in progress says; and, if `~PassesOwn`, `~bad`.

The argument follows the order of the code.  `aglocaldictsym` takes the view away and puts it back: by `Looking` the way back is not a cycle, so that `dtview` does not refuse,
and the counts end as they began (`LocalIs`); a search then answers what the nearest dictionary on the way up has (`Ancestry` gives `Path`).  An operation that replaces a value
changes each of the three sets of `Counted` in one place (`Moved`), one that gives values to many objects adds a member for each (`Gains`), one that closes takes some out (`Loses`).
`agmakeattrs` fills each place of the new array once, since numbers are one to one.  `agcopyattr` is a loop: `Copied` is a function on the
number of rounds, which exists by `StagesExist`, and that each of its values is sound follows by induction (`NatComplete`).  `agclose` closes what it reaches; that is closed downward and, as at most one subgraph is
detached, holds whoever looks into it, which is why `agdtclose` finds nobody and why `~Forgets` is needed.  `~bad` needs `~PassesOwn`: then a borrowed
string has a holder other than the place that is freed first.

*Splay trees.*  `Tree(p, r, S)` says that the pointers `p` make a search tree of exactly the objects `S` under `r`: it exists as a function from each
object to the objects under it (`Certifies`), of which the pointers of an object split what is left by its key.  So no lemma needs an induction over trees; each says what
such a function becomes.  `IInv` says that every dictionary and the tree that was taken out are such trees, without an object in common, that a flattened
one has no left children (`Slanted`), that an object outside has no children, and that counts are exact or -1.  `TreeSound` alone is not inductive:
it does not say that what is outside of the trees has no pointers into them.

The loop of the splay has the invariant `Splayed`: what has been passed is in two trees under `Link`, whose innermost places are the `end` pointers, what
is still to be passed is a tree, and the key, if it is anywhere, is in the last.  A round (`Descended`) is one of five cases, each a `Hang` or two, with a rotation or
without; each passes an object, which is why as many rounds as there are objects suffice.  `HasRoot` and `NoRoot` join the two trees.  Each
operation is then a lemma of the form: from a tree of `S` it leaves a tree of a set that is said in terms of `S`, and answers the object that `DtAbs` names (`Gives`); the objects of other
trees keep their pointers (`Became`), so that the other dictionaries, a view and the tree taken out are as they were.  `Below` lists the dictionaries of a view; the loops over it
answer the first or the nearest of what each answers, and that is what `Seen` of `DtAbs` is.  What `InOrder` and `Linked` return is a list in the
order of the keys (`InOrderBefore`, `LinkedIs`).  With that each call is a step of `DtAbs` on the sets `Content(d)`.

*The fast graph.*  `Graph` in `DotRankProofs` says of the lists what `FastGraphSound` does, and in addition that an edge joins two leaders, and two that differ (`class1` leaves loops out).
`Zap` moves the last member of a list into the hole, so that each lemma about it says which positions keep their member (`Keeps`): the search of `acyclic`
holds a position in a list from which it removes edges.  `GoodTurned` is what `reverse_edge` does in each of its cases: one edge leaves the lists, and one in the other direction is in them, whether it is new or merged into one that was there.
All steps but one change the lists through `Add`, `Merge` or `Reversed`, so that `Shape`, which adds the types and that union-find has leaders that lead themselves, follows case by case.

*Components.*  `Kept` is an induction over a loop that visits a list, `SpreadIs` and `SearchIs` use it for the recursion of `search_component`: what was found stays found, each node found is marked, has its neighbours found unless they
were before, and is found once.  The depth that `Search` starts with suffices because each call marks one more node.  `DecomposeIs` then says that the components are disjoint, hold every leader, and hold both ends of every edge, if no node has the
mark that the search is about to make.  That is `MarksOk`: the first time all marks are zero and `NextMark` is not; the second time they are zero or `TRUE`, as `acyclic` leaves them in each component it has passed, so that it is enough that `NextMark` is not `TRUE`.
The second time `decompose` may be skipped; then no edge was made since the first (`Grounded`: what `Chain` reaches from the edges of the graph is closed, and an edge of `minmax_edges2` is outside).

*Weights.*  `Represented` speaks of `Chain`, which follows `ED_to_virt`, and of a sum over the edges whose chain ends in a live edge.  `Carries` in the
invariant says that the pointers have a root function and a depth, so that `Chain` ends (by `ListIs`), and that each live edge weighs the `Total` over the edges it bears (`Borne`).
That totals of disjoint sets add up is an induction on the least set for which they would not.  A merge joins two such sets, a reversal moves one to another edge.

*Cycles.*  `Settled` is the invariant of the search of `acyclic`: the settled nodes have an order along which their edges go; the stack of calls is a path; in each call the positions
behind the index lead to settled nodes, or to the next call, and those ahead are still to be looked at.  What `Keeps` says of `Zap` is what makes the step back of the
index right.  An edge to a node of the stack is reversed, so that it goes along the path; a node that leaves the stack gets the next place in the order.
`EndsFree` says that nothing leaves the greatest and nothing enters the least set's leader, and `Separable` that these differ, which is why `minmax_edges2` closes no cycle: it only makes edges from the one and to the other.

*Lengths and asked ranks.*  `Stands`: for each edge that had its turn in `class1`, the fast graph has a live edge between the leaders that is at least as long, in one direction
or the other; merging takes the greater length.  `Ranked`: the ranks of a component fit its live edges, and by `Components` each live edge is inside one.  `Asks`: a collapsed set has one leader, which the
fields of the graph for its least and greatest set lead to; `minmax_edges2` leaves every other leader an edge towards the greatest and one from the least (`Linked`); as there is no cycle, a walk along such edges ends there, and no edge is shorter than 0.

*Only model-checked.*  Liveness (`ReleaseEnds`), which needs fairness and ENABLED; the kind of shared strings (`HtmlHonoured`); everything
about `NetworkSimplex`, its refinement of `RankAbs` included, as its operators are recursive: the searches that number the tree and correct the cut values
call themselves twice over, in an order that the corrections depend on.

## 5. What is not modelled

Within the modelled parts:

* Graph store: id disciplines other than the default one (with it `agallocid` fails, so that `agidnode` and `agidedge` only put what the root
  has into a subgraph, as `Agsubnode` and `Agsubedge` do), relabelling (`agrelabel_node`, which hands a node
  to a dictionary of subnodes: what it compares is other memory), `agflatten`
  (the form of the dictionaries), `mem->close`.
* Callbacks: those of graphs (three of the nine dictionaries); `agcallbacks` called from inside a callback to
  enable them again; different disciplines during one release.
* Records: sizes and contents; a record bound by `aginit` to all objects of a kind is the
  sequence of `agbindrec` on each.
* Names: `agrename`, disciplines other than the default one, strings printed with `agcanon` (text).
* Attributes: edges, which have the code of nodes; `init_all_attrs`, for graphs that had no attributes when they were opened.
* libcdt: bags, hash tables, lists, stacks and queues; a change of method or discipline; `dtrenew`, `dtwalk`.  Closing dictionaries that have views
  is in `AgAttr`.
* Network simplex: calls with feasible ranks and no tight edge are left out of `ns_rank` (`ns_loose` shows what becomes of them); the checks of a debugging build, and output for it.
* dot: the last step of `dot_rank`, `cleanup1` (`rank.c:40`), which frees the fast graph and the list of components when the ranks are set; clusters, the aspect ratio, labels of edges (which double the ranks), `nslimit` (in `NetworkSimplex`), penalties and
  counts of edges (kept like weights); all of `mincross.c`, `position.c` and `dotsplines.c`.

Not modelled yet: orthogonal routing, Tcl handles, libgvc, connected components (Section 6).
Not to be modelled: what the list of components gives a reason for.  Most of the repository's lines are such code: fonts, vendored libraries, geometry,
numeric optimisation, text formats and drawing.

## 6. Plan

1. `DotMincross`: orders within ranks, exchange of neighbours, the medians; orders stay permutations, an exchange never adds
   crossings, the best order is the one that is restored.
2. `cleanup1` in `DotRank`: what it frees is read no more (edges out of different members of a rank set share one).  Then clusters (`rank.c: collapse_cluster`, `class2.c`), with the interclust edges.
3. Renaming, as the composition of `AgNames` with `DtTree`: `agrename` changes a key inside the tree that is ordered by it, and keeps a
   reserved id when it fails.
4. `TclHandle`, `OrthoQueue`, `RawGraph`, `Ccomps`, `GvcProtocol`: small and self-contained.
5. Graph objects in `AgCallbacks`; `AgCallbacks` composed with
   `AgRec` (records closed when an object is deleted while its deletion is held, a graph closed while callbacks are held).

Theorems to be proved: the tree of `NetworkSimplex`, with its searches written as functions on the depth, as the walks of `DtTree` are: first `TreeSound`, by a certificate
like that of the splay trees, then the cut values.
