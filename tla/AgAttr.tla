------------------------------- MODULE AgAttr -------------------------------
(***************************************************************************)
(* String attributes (lib/cgraph attr.c).                                  *)
(*                                                                         *)
(* Each graph has a dictionary of attributes for each kind of object, and  *)
(* looks through it (dtview) into the one of its parent.  An attribute is  *)
(* declared in the root's dictionary, which gives it an index; a           *)
(* dictionary below may have a default of its own for it.  Each object has *)
(* an array of values by that index.  Names, defaults and values are       *)
(* counted references to shared strings.                                   *)
(*                                                                         *)
(* The graph `Proto' is the one that agattr(NULL, ...) declares attributes *)
(* in; a root graph begins with a copy of its dictionaries.                *)
(*                                                                         *)
(* An operator named Bug... is a wrong version of the one that follows it. *)
(***************************************************************************)
EXTENDS Integers, Sequences, FiniteSets, FiniteSetsExt, Functions, Chains, Walks

CONSTANTS
  Graph, Root, Proto, \* the graphs, the root among them, and ProtoGraph
  Parent,       \* the graph each subgraph is created in, NULL for a root
  Node,         \* nodes of the root (edges are treated alike)
  Name, Text,   \* names and values of attributes
  NULL,
  MinAttr,      \* MINATTR, the least length of an array
  MaxEdits,     \* bound on the calls that set something
  PassesOwn,    \* whether a client passes to agxset the value that it replaces
  Forgets       \* whether a client goes on after agdelsubg and leaves the subgraph open

ASSUME AttrAssumption ==
  /\ IsFiniteSet(Graph) /\ IsFiniteSet(Node) /\ IsFiniteSet(Name)
  /\ {Root, Proto} \subseteq Graph /\ Root # Proto
  /\ Graph \cap Node = {}
  /\ Parent \in [Graph -> (Graph \ {Proto}) \cup {NULL}]
  /\ Parent[Root] = NULL /\ Parent[Proto] = NULL
  /\ {MinAttr, MaxEdits} \subseteq Nat
  /\ {PassesOwn, Forgets} \subseteq BOOLEAN
  /\ NULL \notin Graph \cup Node \cup Text

VARIABLES
  live,     \* graphs and nodes that are allocated
  attached, \* subgraphs that are in their parent's dictionary
  dict,     \* the dictionary of each graph and kind: a symbol for each name
  view,     \* Dt_t.view of each dictionary
  nview,    \* Dt_t.nview
  str,      \* Agattr_t.str of each object
  room,     \* the length of the array it points to
  ref,      \* the count of each shared string
  edits,    \* how many calls have set something
  bad       \* an assertion or abort, a write past an array, a read of a freed string

vars == <<live, attached, dict, view, nview, str, room, ref, edits, bad>>

Kind == {"graph", "node"}
Object == Graph \cup Node
Dict == Graph \X Kind
KindOf(o) == IF o \in Graph THEN "graph" ELSE "node"
RootOf(o) == IF o = Proto THEN Proto ELSE Root
Sym == [id : Nat, def : Text]

ASSUME NullAssumption == NULL \notin Dict \cup Sym

TypeOK ==
  /\ live \subseteq Object /\ attached \subseteq Graph
  /\ dict \in [Dict -> [Name -> Sym \cup {NULL}]]
  /\ view \in [Dict -> Dict \cup {NULL}]
  /\ nview \in [Dict -> Nat]
  /\ str \in [Object -> Seq(Text \cup {NULL})]
  /\ room \in [Object -> Nat]
  /\ ref \in [{Root, Proto} \X (Name \cup Text) -> Nat]
  /\ edits \in 0 .. MaxEdits
  /\ bad \in BOOLEAN

-----------------------------------------------------------------------------
(* The operations change a part of the state several times, so they are    *)
(* functions on it.                                                        *)

World == [dict |-> dict, view |-> view, nview |-> nview, str |-> str,
          room |-> room, ref |-> ref, bad |-> bad]

Becomes(after) ==
  \E w \in {after} :
    /\ dict' = w.dict /\ view' = w.view /\ nview' = w.nview /\ str' = w.str
    /\ room' = w.room /\ ref' = w.ref /\ bad' = w.bad

\* strings are shared by the objects of one root
Shared(o, s) == <<RootOf(o), s>>

Agstrfree(w, o, s) == [w EXCEPT !.ref[Shared(o, s)] = @ - 1]

\* a borrowed pointer is one that the library handed out
Agstrdup(w, o, s, borrowed) ==
  [w EXCEPT !.ref[Shared(o, s)] = @ + 1,
            !.bad = @ \/ (borrowed /\ w.ref[Shared(o, s)] = 0)]

\* agstrdup of each of the texts
AgstrdupAll(w, o, text, borrowed) ==
  [w EXCEPT !.ref = [x \in DOMAIN @ |->
                       @[x] + Cardinality({i \in DOMAIN text : Shared(o, text[i]) = x})],
            !.bad = @ \/ (borrowed /\ \E i \in DOMAIN text : w.ref[Shared(o, text[i])] = 0)]

\* the dictionaries a search in d goes through
Path(w, d) ==
  LET onward == [e \in Dict \cup {NULL} |-> IF e = NULL THEN NULL ELSE w.view[e]]
  IN  Listed(Cardinality(Graph), d, onward, NULL)

\* agdictsym
Search(w, d, n) ==
  LET p == Path(w, d)
      has == {i \in DOMAIN p : w.dict[p[i]][n] # NULL}
  IN  IF has = {} THEN NULL ELSE w.dict[p[Min(has)]][n]

\* dtview: the new view, unless it leads back to d
Dtview(w, d, v) ==
  IF v # NULL /\ d \in Range(Path(w, v))
  THEN w
  ELSE LET old  == w.view[d]
           less == IF old = NULL THEN w.nview ELSE [w.nview EXCEPT ![old] = @ - 1]
           more == IF v = NULL THEN less ELSE [less EXCEPT ![v] = @ + 1]
       IN  [w EXCEPT !.view[d] = v, !.nview = more]

\* (the view is not put back)
BugLocal(w, d) == Dtview(w, d, NULL)

\* aglocaldictsym takes the view of d away to search, and puts it back; what
\* it finds is dict[d][n]
Local(w, d) == Dtview(Dtview(w, d, NULL), d, w.view[d])

\* agnewsym and dtinsert, which does nothing for a name that is there
Insert(w, d, n, id, v, borrowed) ==
  LET w1 == Agstrdup(Agstrdup(w, d[1], n, FALSE), d[1], v, borrowed)
  IN  IF w.dict[d][n] # NULL THEN w1
      ELSE [w1 EXCEPT !.dict[d][n] = [id |-> id, def |-> v]]

\* sym->defval is replaced
Redefine(w, d, n, v, borrowed) ==
  [Agstrdup(Agstrfree(w, d[1], w.dict[d][n].def), d[1], v, borrowed) EXCEPT !.dict[d][n].def = v]

DictSize(w, d) == Cardinality({n \in Name : w.dict[d][n] # NULL})
TopDict(o) == <<RootOf(o), KindOf(o)>>

-----------------------------------------------------------------------------
(* agxset.                                                                 *)

\* (the default in the dictionary of a graph is left as it is)
BugSetValue(w, o, n, v, borrowed) ==
  LET i == w.dict[TopDict(o)][n].id + 1
  IN  [Agstrdup(Agstrfree(w, o, w.str[o][i]), o, v, borrowed) EXCEPT !.str[o][i] = v]

\* The value of a graph is also its default for the graphs below.
SetValue(w, o, n, v, borrowed) ==
  LET id == w.dict[TopDict(o)][n].id
      w1 == [Agstrdup(Agstrfree(w, o, w.str[o][id + 1]), o, v, borrowed)
               EXCEPT !.str[o][id + 1] = v]
      d  == <<o, "graph">>
      w2 == Local(w1, d)
  IN  IF o \in Node THEN w1
      ELSE IF w2.dict[d][n] # NULL THEN Redefine(w2, d, n, v, borrowed)
      ELSE Insert(w2, d, n, id, v, borrowed)

\* the subgraphs that agdelsubg has taken out of their parents
Detached == (live \cap Graph) \ (attached \cup {Root, Proto})

\* The client makes no call after a crash, and only closes a subgraph it has detached.
Goes == ~bad /\ (Forgets \/ Detached = {})

Declared(o) == {n \in Name : dict[TopDict(o)][n] # NULL}

\* The client passes a pointer it has from the library, which differs from a text
\* of its own only in what can go wrong: whenever somebody holds the string, and
\* unless it passes the value itself, somebody besides the object.
MayBorrow(o, v, old) == ref[Shared(o, v)] > IF PassesOwn \/ v # old THEN 0 ELSE 1

ValueOf(o, n) == str[o][dict[TopDict(o)][n].id + 1]

Edited == edits < MaxEdits /\ edits' = edits + 1

Agxset(o, n, v) ==
  /\ Goes
  /\ o \in live \ {Proto}
  /\ n \in Declared(o)
  /\ Edited
  /\ Becomes(SetValue(World, o, n, v, MayBorrow(o, v, ValueOf(o, n))))
  /\ UNCHANGED <<live, attached>>

\* The values of one object set for another, one after the other, each borrowed
\* from the first.
Copied(from, to) ==
  LET after[i \in 0 .. Len(str[from])] ==
        IF i = 0 THEN World
        ELSE LET n == CHOOSE m \in Declared(from) : dict[TopDict(from)][m].id = i - 1
             IN  SetValue(after[i - 1], to, n, str[from][i], TRUE)
  IN  after[Len(str[from])]

\* agcopyattr between objects of one graph
Agcopyattr(from, to) ==
  /\ Goes
  /\ {from, to} \subseteq live \ {Proto}
  /\ from # to /\ KindOf(from) = KindOf(to)
  /\ Edited
  /\ Becomes(Copied(from, to))
  /\ UNCHANGED <<live, attached>>

-----------------------------------------------------------------------------
(* agattr with a value: setattr.                                           *)

\* g and the subgraphs below it that are reached through dictionaries of subgraphs
Below(g) == Reach(Graph, {g}, {p \in Graph \X attached : p[1] = Parent[p[2]]})

\* The objects that setattr visits to give them a new attribute: agapply goes
\* down from the root through the dictionaries of subgraphs.
Visited(g, kind) ==
  IF kind = "node" THEN IF g = Proto THEN {} ELSE Node \cap live
  ELSE Below(RootOf(g))

\* (the array grows from the second attribute too many on)
BugResized(id, size) == IF id > MinAttr THEN id + 1 ELSE size

\* the length of an array that gets a value with index id
Resized(id, size) == IF id >= MinAttr THEN id + 1 ELSE size

\* agnewsym in the root, and addattr for each object
NewGlobal(w, g, kind, n, v, borrowed) ==
  LET top  == <<RootOf(g), kind>>
      id   == DictSize(w, top)
      objs == Visited(g, kind)
      w1   == Insert(w, top, n, id, v, borrowed)
  IN  [AgstrdupAll(w1, g, [o \in objs |-> v], FALSE) EXCEPT
         !.room = [o \in Object |-> IF o \in objs THEN Resized(id, @[o]) ELSE @[o]],
         !.str = [o \in Object |-> IF o \in objs THEN Append(@[o], v) ELSE @[o]],
         !.bad = @ \/ \E o \in objs : id # Len(w.str[o]) \/ id >= Resized(id, w.room[o])]

Setattr(g, kind, n, v, borrowed) ==
  LET d  == <<g, kind>>
      w1 == Local(World, d)
      up == Search(w1, d, n)
      w2 == IF w1.dict[d][n] # NULL THEN Redefine(w1, d, n, v, borrowed)
            ELSE IF up # NULL THEN Insert(w1, d, n, up.id, v, borrowed)
            ELSE NewGlobal(w1, g, kind, n, v, borrowed)
  IN  IF kind = "graph" THEN SetValue(w2, g, n, v, borrowed) ELSE w2

Agattr(g, kind, n, v) ==
  /\ Goes
  /\ g \in live
  /\ Edited
  /\ LET sym == dict[<<g, kind>>][n]
         borrowed == MayBorrow(g, v, IF sym = NULL THEN NULL ELSE sym.def)
     IN  Becomes(Setattr(g, kind, n, v, borrowed))
  /\ UNCHANGED <<live, attached>>

-----------------------------------------------------------------------------
(* Objects come and go.                                                    *)

\* agmakeattrs: the values of a new object are the defaults `context' sees
Makeattrs(w, context, o) ==
  LET d    == <<context, KindOf(o)>>
      size == DictSize(w, TopDict(o))
      sym  == [n \in {m \in Name : Search(w, d, m) # NULL} |-> Search(w, d, n)]
      with(id) == {n \in DOMAIN sym : sym[n].id = id}
      values == [i \in 1 .. size |->
                   IF with(i - 1) = {} THEN NULL ELSE sym[CHOOSE n \in with(i - 1) : TRUE].def]
  IN  [AgstrdupAll(w, o, [n \in DOMAIN sym |-> sym[n].def], TRUE) EXCEPT
         !.str[o] = values,
         !.room[o] = IF size < MinAttr THEN MinAttr ELSE size]

\* agcopydict, for a root, whose dictionary is empty
Copydict(w, kind) ==
  LET from == w.dict[<<Proto, kind>>]
      has  == {n \in Name : from[n] # NULL}
      w1   == AgstrdupAll(w, Root, [n \in has |-> n], FALSE)
      w2   == AgstrdupAll(w1, Root, [n \in has |-> from[n].def], FALSE)
  IN  [w2 EXCEPT !.dict[<<Root, kind>>] = from]

\* agopen
Agopen ==
  /\ Goes
  /\ Root \notin live
  /\ live' = live \cup {Root}
  /\ Becomes(Makeattrs(Copydict(Copydict(World, "graph"), "node"), Root, Root))
  /\ UNCHANGED <<attached, edits>>

\* (the dictionary of nodes is left without a view)
BugMakedatadict(w, g) == Dtview(w, <<g, "graph">>, <<Parent[g], "graph">>)

\* agmakedatadict, for a subgraph
Makedatadict(w, g) ==
  Dtview(Dtview(w, <<g, "node">>, <<Parent[g], "node">>),
         <<g, "graph">>, <<Parent[g], "graph">>)

\* agsubg; context is the parent
Agsubg(g) ==
  /\ Goes
  /\ g \notin live
  /\ Parent[g] \in live
  /\ live' = live \cup {g}
  /\ attached' = attached \cup {g}
  /\ Becomes(Makeattrs(Makedatadict(World, g), Parent[g], g))
  /\ UNCHANGED edits

\* agnode through graph g; context is g
Agnode(g, n) ==
  /\ Goes
  /\ n \notin live
  /\ g \in live \ {Proto}
  /\ live' = live \cup {n}
  /\ Becomes(Makeattrs(World, g, n))
  /\ UNCHANGED <<attached, edits>>

\* The values and symbols of objs that hold s.  An object holds what freeattr
\* frees, as many values as the root has attributes.
AsValue(w, objs, s) ==
  {p \in objs \X (1 .. Cardinality(Name)) :
     /\ p[2] <= DictSize(w, TopDict(p[1])) /\ p[2] <= Len(w.str[p[1]])
     /\ w.str[p[1]][p[2]] = s}
Symbols(w, objs) == {p \in ((objs \cap Graph) \X Kind) \X Name : w.dict[p[1]][p[2]] # NULL}
AsDefault(w, objs, s) == {p \in Symbols(w, objs) : w.dict[p[1]][p[2]].def = s}
AsName(w, objs, s) == {p \in Symbols(w, objs) : p[2] = s}

Holds(w, objs, s) ==
  Cardinality(AsValue(w, objs, s)) + Cardinality(AsDefault(w, objs, s))
    + Cardinality(AsName(w, objs, s))

\* (the values of objects are not given back)
BugGiveBack(w, objs, s) == Holds(w, objs, s) - Holds(w, objs \cap Node, s)

\* what freeattr and freesym give back
GiveBack(w, objs, s) == Holds(w, objs, s)

Free(w, objs) ==
  [w EXCEPT
     !.ref = [x \in DOMAIN @ |-> @[x] - IF x[1] = Root THEN GiveBack(w, objs, x[2]) ELSE 0],
     !.str = [o \in Object |-> IF o \in objs THEN <<>> ELSE @[o]],
     !.room = [o \in Object |-> IF o \in objs THEN 0 ELSE @[o]]]

\* agdelnode in the root
Agdelnode(n) ==
  /\ Goes
  /\ n \in live \cap Node
  /\ live' = live \ {n}
  /\ Becomes(Free(World, {n}))
  /\ UNCHANGED <<attached, edits>>

\* agdtclose for the dictionaries of gs, from the leaves up: it aborts when a
\* dictionary is viewed by one that is not closed
Shut(w, gs) ==
  LET gone == gs \X Kind
      viewers(d) == Cardinality({e \in gone : w.view[e] = d})
  IN  [w EXCEPT
         !.dict = [d \in Dict |-> IF d \in gone THEN [n \in Name |-> NULL] ELSE @[d]],
         !.view = [d \in Dict |-> IF d \in gone THEN NULL ELSE @[d]],
         !.nview = [d \in Dict |-> IF d \in gone THEN 0 ELSE @[d] - viewers(d)],
         !.bad = \E d \in gone : w.nview[d] # viewers(d)]

\* agclose of a graph and of the subgraphs it finds, and of a root's nodes
Agclose(g) ==
  /\ Goes \/ (~bad /\ g \in Detached)
  /\ g \in (live \cap Graph) \ {Proto}
  /\ \E gs \in {Below(g)} :
       LET objs == gs \cup IF g = Root THEN Node \cap live ELSE {}
       IN  /\ live' = live \ objs
           /\ attached' = attached \ gs
           /\ Becomes(Shut(Free(World, objs), gs))
  /\ UNCHANGED edits

\* agdelsubg(parent, g), called by the client
Agdelsubg(g) ==
  /\ Goes
  /\ g \in attached
  /\ attached' = attached \ {g}
  /\ UNCHANGED <<live, dict, view, nview, str, room, ref, edits, bad>>

Init ==
  /\ live = {Proto} /\ attached = {}
  /\ dict = [d \in Dict |-> [n \in Name |-> NULL]]
  /\ view = [d \in Dict |-> NULL] /\ nview = [d \in Dict |-> 0]
  /\ str = [o \in Object |-> <<>>]
  /\ room = [o \in Object |-> IF o = Proto THEN MinAttr ELSE 0]
  /\ ref = [x \in {Root, Proto} \X (Name \cup Text) |-> 0]
  /\ edits = 0
  /\ bad = FALSE

Next ==
  \/ Agopen
  \/ \E g \in Graph : Agsubg(g) \/ Agclose(g) \/ Agdelsubg(g)
  \/ \E n \in Node : Agdelnode(n) \/ \E g \in Graph : Agnode(g, n)
  \/ \E o \in Object, n \in Name, v \in Text : Agxset(o, n, v)
  \/ \E g \in Graph, kind \in Kind, n \in Name, v \in Text : Agattr(g, kind, n, v)
  \/ \E from, to \in Object : Agcopyattr(from, to)

Spec == Init /\ [][Next]_vars

-----------------------------------------------------------------------------
(* Properties.                                                             *)

\* Every object has a value for every attribute its root declares, within its
\* array; the root's attributes are numbered without a gap, and a subgraph, which
\* looks through its parent's dictionary, knows each of its own by the same number.
Complete ==
  \A o \in live :
    LET top == TopDict(o)
    IN  /\ Len(str[o]) = DictSize(World, top)
        /\ Len(str[o]) <= room[o]
        /\ \A i \in 1 .. Len(str[o]) :
              /\ str[o][i] # NULL
              /\ \E n \in Name : dict[top][n] # NULL /\ dict[top][n].id = i - 1
        /\ o \in Graph =>
              \A kind \in Kind, n \in Name :
                LET own == dict[<<o, kind>>][n]
                    global == dict[<<RootOf(o), kind>>][n]
                IN  /\ own # NULL => global # NULL /\ global.id = own.id
                    /\ (Search(World, <<o, kind>>, n) = NULL) = (global = NULL)

\* The count of a string is the number of its uses as a name, a default or a
\* value, whatever was redefined, copied, deleted or closed: no value is freed
\* while it is used, and none is left behind.
CountsExact == \A x \in DOMAIN ref :
                 ref[x] = Holds(World, {o \in live : RootOf(o) = x[1]}, x[2])

\* What a graph has as its own default of a graph attribute is its value: agwrite
\* prints the one where agget reads the other.
LocalDefaultIsValue ==
  \A g \in Graph \cap live, n \in Name :
    dict[<<g, "graph">>][n] # NULL => dict[<<g, "graph">>][n].def = ValueOf(g, n)

\* No value is written past an array (addattr), no string is read after it was
\* freed (agxset frees before it copies), and agdtclose never finds a dictionary
\* that another one still looks into, though aglocaldictsym takes views away.
NoAbort == ~bad
=============================================================================
