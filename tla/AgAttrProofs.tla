---------------------------- MODULE AgAttrProofs ----------------------------
(* Proofs about AgAttr, for a client that closes a subgraph it has taken out *)
(* of its parent before it does anything else.                             *)
EXTENDS AgAttr, ChainsProofs

-----------------------------------------------------------------------------
(* The inductive invariant, as predicates on the parts of a world w, the   *)
(* objects L that are live and the subgraphs A that are attached.          *)

\* q leads from g up to its root, through graphs of L.
Ancestry(L, q, g) ==
  /\ q \in Seq(Graph) /\ q # <<>>
  /\ q[1] = g /\ q[Len(q)] = RootOf(g)
  /\ \A i \in 1 .. Len(q) : q[i] \in L /\ RootOf(q[i]) = RootOf(g)
  /\ \A i \in 1 .. Len(q) - 1 : q[i] \notin {Root, Proto} /\ Parent[q[i]] = q[i + 1]
  /\ \A i, j \in 1 .. Len(q) : q[i] = q[j] => i = j

Rooted(L) == \A g \in L \cap Graph : \E q : Ancestry(L, q, g)

Outside(L, A) == (L \cap Graph) \ (A \cup {Root, Proto})

Tree(L, A) ==
  /\ L \subseteq Object /\ Proto \in L
  /\ A \subseteq (L \cap Graph) \ {Root, Proto}
  /\ Rooted(L)
  /\ Root \in L \/ L = {Proto}
  /\ \A g, h \in Outside(L, A) : g = h

\* The dictionaries of a subgraph look into those of its parent, and nview counts.
ViewOf(L, d) == IF d[1] \in L \ {Root, Proto} THEN <<Parent[d[1]], d[2]>> ELSE NULL
Viewers(V, d) == {e \in Dict : V[e] = d}
Looking(V, N, L) ==
  /\ \A d \in Dict : V[d] = ViewOf(L, d)
  /\ \A d \in Dict : N[d] = Cardinality(Viewers(V, d))

Size(D, d) == Cardinality({n \in Name : D[d][n] # NULL})
Top(g, kind) == <<RootOf(g), kind>>

\* A root numbers its attributes without a gap, and a graph below has those of
\* its own by the same number.
Numbered(D, d) ==
  /\ \A n \in Name : D[d][n] # NULL => D[d][n].id < Size(D, d)
  /\ \A i \in 0 .. Size(D, d) - 1 : \E n \in Name : D[d][n] # NULL /\ D[d][n].id = i
  /\ \A m, n \in Name :
       D[d][m] # NULL /\ D[d][n] # NULL /\ D[d][m].id = D[d][n].id => m = n

SymbolsOK(D, L) ==
  /\ \A g \in Graph \ L, kind \in Kind, n \in Name : D[<<g, kind>>][n] = NULL
  /\ \A g \in L \cap Graph, kind \in Kind, n \in Name :
       D[<<g, kind>>][n] # NULL =>
         D[Top(g, kind)][n] # NULL /\ D[Top(g, kind)][n].id = D[<<g, kind>>][n].id
  /\ \A r \in {Root, Proto}, kind \in Kind : Numbered(D, <<r, kind>>)

\* A live object has as many values as its root has attributes, and room for them.
ValuesOK(D, S, R, L) ==
  /\ \A o \in L : Len(S[o]) = Size(D, TopDict(o)) /\ Len(S[o]) <= R[o] /\ MinAttr <= R[o]
  /\ \A o \in Object \ L : S[o] = <<>>

\* The values, defaults and names of the objects of one root.
Of(r) == {o \in Object : RootOf(o) = r}
Places(r) == Of(r) \X (1 .. Cardinality(Name))
Entries(r) == ((Of(r) \cap Graph) \X Kind) \X Name
Val(S, r, s) == {p \in Places(r) : p[2] <= Len(S[p[1]]) /\ S[p[1]][p[2]] = s}
Def(D, r, s) == {p \in Entries(r) : D[p[1]][p[2]] # NULL /\ D[p[1]][p[2]].def = s}
Nam(D, r, s) == {p \in Entries(r) : D[p[1]][p[2]] # NULL /\ p[2] = s}
Uses(D, S, r, s) ==
  Cardinality(Val(S, r, s)) + Cardinality(Def(D, r, s)) + Cardinality(Nam(D, r, s))

String == Name \cup Text
Counted(D, S, C) == \A r \in {Root, Proto}, s \in String : C[<<r, s>>] = Uses(D, S, r, s)

Worlds ==
  [dict : [Dict -> [Name -> Sym \cup {NULL}]], view : [Dict -> Dict \cup {NULL}],
   nview : [Dict -> Int], str : [Object -> Seq(Text)], room : [Object -> Nat],
   ref : [{Root, Proto} \X String -> Int], bad : BOOLEAN]

Good(w, L) ==
  /\ w \in Worlds
  /\ Looking(w.view, w.nview, L)
  /\ SymbolsOK(w.dict, L)
  /\ ValuesOK(w.dict, w.str, w.room, L)
  /\ Counted(w.dict, w.str, w.ref)

\* A default of a graph's own is its value, except perhaps where (g, n) says.
LocalBut(D, S, X) ==
  \A g \in Graph, n \in Name :
    <<g, n>> \notin X /\ D[<<g, "graph">>][n] # NULL =>
      D[<<g, "graph">>][n].def = S[g][D[<<RootOf(g), "graph">>][n].id + 1]

Sound(w, L, A) ==
  /\ Tree(L, A)
  /\ Good(w, L)
  /\ LocalBut(w.dict, w.str, {})
  /\ ~PassesOwn => ~w.bad

Inv == Sound(World, live, attached)

-----------------------------------------------------------------------------
(* Counting.                                                               *)

One(b) == IF b THEN 1 ELSE 0

LEMMA OneIs == One(TRUE) = 1 /\ One(FALSE) = 0
BY DEF One

\* A set that changes in one place.
LEMMA Moved ==
  ASSUME NEW S, IsFiniteSet(S), NEW T, NEW p, \A x : x # p => (x \in S <=> x \in T)
  PROVE  /\ IsFiniteSet(T)
         /\ Cardinality(T) = Cardinality(S) - One(p \in S) + One(p \in T)
<1> DEFINE X == S \ {p}
<1>1. IsFiniteSet(X) /\ Cardinality(X) \in Nat /\ p \notin X
  BY FS_RemoveElement, FS_CardinalityType
<1>2. IsFiniteSet(X \cup {p}) /\ Cardinality(X \cup {p}) = Cardinality(X) + 1
  BY <1>1, FS_AddElement
<1>3. /\ p \in S => S = X \cup {p}
      /\ p \notin S => S = X
      /\ p \in T => T = X \cup {p}
      /\ p \notin T => T = X
  OBVIOUS
<1>4. /\ p \in S => One(p \in S) = 1
      /\ p \notin S => One(p \in S) = 0
      /\ p \in T => One(p \in T) = 1
      /\ p \notin T => One(p \in T) = 0
  BY DEF One
<1> HIDE DEF X
<1>5. Cardinality(S) = Cardinality(X) + One(p \in S)
  BY <1>1, <1>2, <1>3, <1>4
<1>6. Cardinality(T) = Cardinality(X) + One(p \in T) /\ IsFiniteSet(T)
  <2>1. CASE p \in T
    <3>1. T = X \cup {p}
      BY <1>3, <2>1
    <3> QED BY <1>2, <1>4, <2>1, <3>1
  <2>2. CASE p \notin T
    <3>1. T = X
      BY <1>3, <2>2
    <3> QED BY <1>1, <1>4, <2>2, <3>1
  <2> QED BY <2>1, <2>2
<1>7. One(p \in S) \in Nat /\ One(p \in T) \in Nat
  BY DEF One
<1> QED BY <1>1, <1>5, <1>6, <1>7

\* A set that gains a member for each of I.
LEMMA Gains ==
  ASSUME NEW S, IsFiniteSet(S), NEW I, IsFiniteSet(I), NEW T, S \subseteq T, NEW f,
         \A i \in I : f[i] \in T \ S,
         \A x \in T \ S : \E i \in I : x = f[i],
         \A i, j \in I : f[i] = f[j] => i = j
  PROVE  IsFiniteSet(T) /\ Cardinality(T) = Cardinality(S) + Cardinality(I)
<1> DEFINE X == T \ S
           h == [i \in I |-> f[i]]
<1>1. h \in Bijection(I, X)
  BY DEF Bijection, Injection, IsInjective, Surjection
<1> HIDE DEF h
<1>2. IsFiniteSet(X) /\ Cardinality(X) = Cardinality(I)
  BY <1>1, FS_Bijection DEF ExistsBijection
<1>3. /\ IsFiniteSet(S \cup X)
      /\ Cardinality(S \cup X) = Cardinality(S) + Cardinality(X) - Cardinality(S \cap X)
  BY <1>2, FS_Union
<1>4. Cardinality(S \cap X) = 0
  <2>1. S \cap X = {}
    OBVIOUS
  <2> QED BY <2>1, FS_EmptySet
<1>5. Cardinality(S) \in Nat /\ Cardinality(X) \in Nat /\ T = S \cup X
  BY <1>2, FS_CardinalityType
<1> HIDE DEF X
<1>6. IsFiniteSet(T) /\ Cardinality(T) = Cardinality(S \cup X)
  BY <1>3, <1>5
<1> QED BY <1>2, <1>3, <1>4, <1>5, <1>6

\* A set that loses some.
LEMMA Loses ==
  ASSUME NEW S, IsFiniteSet(S), NEW X, X \subseteq S
  PROVE  /\ IsFiniteSet(S \ X)
         /\ Cardinality(S \ X) = Cardinality(S) - Cardinality(X)
         /\ Cardinality(X) \in Nat /\ Cardinality(S \ X) \in Nat
<1>1. IsFiniteSet(X) /\ IsFiniteSet(S \ X)
  BY FS_Subset
<1>2. Cardinality(S \ X) = Cardinality(S) - Cardinality(S \cap X)
  BY FS_Difference
<1>3. S \cap X = X
  OBVIOUS
<1> QED BY <1>1, <1>2, <1>3, FS_CardinalityType

LEMMA Constants ==
  /\ IsFiniteSet(Graph) /\ IsFiniteSet(Node) /\ IsFiniteSet(Name)
  /\ Root \in Graph /\ Proto \in Graph /\ Root # Proto /\ Graph \cap Node = {}
  /\ Parent \in [Graph -> (Graph \ {Proto}) \cup {NULL}]
  /\ Parent[Root] = NULL /\ Parent[Proto] = NULL
  /\ MinAttr \in Nat /\ MaxEdits \in Nat
  /\ NULL \notin Graph /\ NULL \notin Node /\ NULL \notin Text
  /\ NULL \notin Dict /\ NULL \notin Sym
BY AttrAssumption, NullAssumption DEF AttrAssumption, NullAssumption

LEMMA Sizes ==
  /\ IsFiniteSet(Object) /\ IsFiniteSet(Kind) /\ IsFiniteSet(Dict)
  /\ Cardinality(Name) \in Nat /\ Cardinality(Graph) \in Nat
  /\ \A r : IsFiniteSet(Places(r)) /\ IsFiniteSet(Entries(r))
<1>1. IsFiniteSet(Object) /\ IsFiniteSet(Graph)
  BY Constants, FS_Union DEF Object
<1>2. IsFiniteSet(Kind)
  <2>1. IsFiniteSet({"graph"}) /\ IsFiniteSet({"node"})
    BY FS_Singleton
  <2>2. Kind = {"graph"} \cup {"node"}
    BY DEF Kind
  <2> QED BY <2>1, <2>2, FS_Union
<1>3. IsFiniteSet(Dict)
  BY <1>1, <1>2, FS_Product DEF Dict
<1>4. Cardinality(Name) \in Nat /\ Cardinality(Graph) \in Nat
  BY Constants, FS_CardinalityType
<1>5. IsFiniteSet(1 .. Cardinality(Name))
  BY <1>4, FS_Interval
<1>6. ASSUME NEW r PROVE IsFiniteSet(Places(r)) /\ IsFiniteSet(Entries(r))
  <2>1. IsFiniteSet(Of(r)) /\ IsFiniteSet(Of(r) \cap Graph)
    <3>1. Of(r) \subseteq Object /\ Of(r) \cap Graph \subseteq Object
      BY DEF Of
    <3> QED BY <1>1, <3>1, FS_Subset
  <2>2. IsFiniteSet(Places(r))
    BY <1>5, <2>1, FS_Product DEF Places
  <2>3. IsFiniteSet((Of(r) \cap Graph) \X Kind)
    BY <1>2, <2>1, FS_Product
  <2>4. IsFiniteSet(Entries(r))
    BY <2>3, Constants, FS_Product DEF Entries
  <2> QED BY <2>2, <2>4
<1> QED BY <1>1, <1>2, <1>3, <1>4, <1>6

LEMMA UsesFinite ==
  ASSUME NEW D, NEW S, NEW r, NEW s
  PROVE  /\ IsFiniteSet(Val(S, r, s)) /\ IsFiniteSet(Def(D, r, s)) /\ IsFiniteSet(Nam(D, r, s))
         /\ Cardinality(Val(S, r, s)) \in Nat
         /\ Cardinality(Def(D, r, s)) \in Nat
         /\ Cardinality(Nam(D, r, s)) \in Nat
<1>1. /\ Val(S, r, s) \subseteq Places(r)
      /\ Def(D, r, s) \subseteq Entries(r) /\ Nam(D, r, s) \subseteq Entries(r)
  BY DEF Val, Def, Nam
<1> QED BY <1>1, Sizes, FS_Subset, FS_CardinalityType

LEMMA SizeType ==
  ASSUME NEW D, NEW d
  PROVE  Size(D, d) \in Nat /\ Size(D, d) <= Cardinality(Name)
<1>1. {n \in Name : D[d][n] # NULL} \subseteq Name
  OBVIOUS
<1> QED BY <1>1, Constants, FS_Subset, FS_CardinalityType DEF Size

LEMMA DictSizeIs == ASSUME NEW w, NEW d PROVE DictSize(w, d) = Size(w.dict, d)
BY DEF DictSize, Size

LEMMA Roots ==
  /\ \A o : RootOf(o) \in {Root, Proto}
  /\ RootOf(Root) = Root /\ RootOf(Proto) = Proto
  /\ \A o : RootOf(o) = Proto <=> o = Proto
  /\ \A o : TopDict(o) = <<RootOf(o), KindOf(o)>>
  /\ \A o \in Graph : KindOf(o) = "graph"
  /\ \A o \in Node : KindOf(o) = "node" /\ RootOf(o) = Root
  /\ \A o : KindOf(o) \in Kind /\ TopDict(o) \in Dict
BY Constants DEF RootOf, TopDict, KindOf, Kind, Dict

-----------------------------------------------------------------------------
(* Paths.                                                                  *)

\* q is linked by the views V.
IsPath(V, k, q) ==
  /\ q \in Seq(Graph) /\ q # <<>>
  /\ \A i, j \in 1 .. Len(q) : q[i] = q[j] => i = j
  /\ \A i \in 1 .. Len(q) - 1 : V[<<q[i], k>>] = <<q[i + 1], k>>
  /\ V[<<q[Len(q)], k>>] = NULL

LEMMA PathIs ==
  ASSUME NEW w, NEW k \in Kind, NEW q, IsPath(w.view, k, q)
  PROVE  Path(w, <<q[1], k>>) = [i \in 1 .. Len(q) |-> <<q[i], k>>]
<1> DEFINE onward == [e \in Dict \cup {NULL} |-> IF e = NULL THEN NULL ELSE w.view[e]]
           p == [i \in 1 .. Len(q) |-> <<q[i], k>>]
<1>0. /\ q \in Seq(Graph) /\ q # <<>>
      /\ \A i, j \in 1 .. Len(q) : q[i] = q[j] => i = j
      /\ \A i \in 1 .. Len(q) - 1 : w.view[<<q[i], k>>] = <<q[i + 1], k>>
      /\ w.view[<<q[Len(q)], k>>] = NULL
  BY DEF IsPath
<1>1. Len(q) \in Nat /\ Len(q) >= 1 /\ \A i \in 1 .. Len(q) : q[i] \in Graph
  BY <1>0
<1>2. \A i \in 1 .. Len(q) : <<q[i], k>> \in Dict
  BY <1>1 DEF Dict
<1>3. p \in Seq(Dict) /\ Len(p) = Len(q) /\ p # <<>> /\ \A i \in 1 .. Len(q) : p[i] = <<q[i], k>>
  BY <1>1, <1>2
<1>4. Len(q) <= Cardinality(Graph)
  BY <1>0, Constants, Short
<1>5. NULL \notin Dict /\ onward[NULL] = NULL /\ Cardinality(Graph) \in Nat
  BY Constants, Sizes
<1>6. \A d \in Dict : onward[d] = w.view[d]
  BY <1>5
<1> HIDE DEF onward, p
<1>7. \A i \in 1 .. Len(p) - 1 : onward[p[i]] = p[i + 1]
  <2> TAKE i \in 1 .. Len(p) - 1
  <2>1. i \in 1 .. Len(q) /\ i + 1 \in 1 .. Len(q) /\ i \in 1 .. Len(q) - 1
    BY <1>1, <1>3
  <2> QED BY <2>1, <1>0, <1>2, <1>3, <1>6
<1>8. onward[p[Len(p)]] = NULL
  <2>1. Len(q) \in 1 .. Len(q)
    BY <1>1
  <2> QED BY <2>1, <1>0, <1>2, <1>3, <1>6
<1>9. p[1] = <<q[1], k>>
  BY <1>1, <1>3
<1>10. PICK first : first = <<q[1], k>>
  OBVIOUS
<1>11. p[1] = first /\ Len(p) <= Cardinality(Graph)
  BY <1>3, <1>4, <1>9, <1>10
<1>12. Listed(Cardinality(Graph), first, onward, NULL) = p
  BY ONLY <1>3, <1>5, <1>7, <1>8, <1>11, ListIs
<1> QED BY <1>10, <1>12 DEF Path, onward, p

\* The way up from a subgraph is the way up from its parent, and one step more.
LEMMA Upward ==
  ASSUME NEW L, NEW g \in Graph \ {Root, Proto}, NEW q, Ancestry(L, q, g)
  PROVE  /\ Len(q) > 1 /\ g \in L /\ Parent[g] \in L \cap Graph /\ Parent[g] # Proto
         /\ Ancestry(L, Tail(q), Parent[g])
         /\ \A i \in 1 .. Len(Tail(q)) : Tail(q)[i] # g
<1>1. /\ q \in Seq(Graph) /\ q # <<>> /\ Len(q) \in Nat /\ Len(q) >= 1
      /\ q[1] = g /\ q[Len(q)] = RootOf(g)
      /\ \A i \in 1 .. Len(q) : q[i] \in Graph
  BY DEF Ancestry
<1>2. RootOf(g) = Root
  BY DEF RootOf
<1>3. Len(q) > 1
  BY <1>1, <1>2
<1>4. Parent[g] = q[2] /\ q[2] \in L \cap Graph /\ RootOf(q[2]) = Root /\ g \in L
  BY <1>1, <1>2, <1>3 DEF Ancestry
<1>5. Parent[g] # Proto
  BY <1>4, Constants DEF RootOf
<1>6. /\ Tail(q) \in Seq(Graph) /\ Len(Tail(q)) = Len(q) - 1
      /\ \A i \in 1 .. Len(q) - 1 : Tail(q)[i] = q[i + 1]
  BY <1>1, <1>3
<1>7. PICK t : t = Tail(q)
  OBVIOUS
<1>8. \A i \in 1 .. Len(q) - 1 : i + 1 \in 1 .. Len(q) /\ i + 1 # 1
  BY <1>1
<1>9. \A i \in 1 .. Len(q) - 2 : i + 1 \in 1 .. Len(q) - 1 /\ i \in 1 .. Len(q) - 1
  BY <1>1
<1>10. \A i \in 1 .. Len(q) - 1 : t[i] # g
  BY <1>1, <1>6, <1>7, <1>8 DEF Ancestry
<1>11. Ancestry(L, t, Parent[g])
  <2>1. t \in Seq(Graph) /\ t # <<>> /\ Len(t) = Len(q) - 1
    <3>1. t \in Seq(Graph) /\ Len(t) = Len(q) - 1 /\ Len(t) > 0
      BY <1>1, <1>3, <1>6, <1>7
    <3> QED BY <3>1
  <2>2. t[1] = Parent[g] /\ t[Len(t)] = RootOf(Parent[g])
    BY <1>1, <1>2, <1>3, <1>4, <1>6, <1>7, <2>1
  <2>3. \A i \in 1 .. Len(t) : t[i] \in L /\ RootOf(t[i]) = RootOf(Parent[g])
    BY <1>2, <1>4, <1>6, <1>7, <1>8, <2>1 DEF Ancestry
  <2>4. \A i \in 1 .. Len(t) - 1 : t[i] \notin {Root, Proto} /\ Parent[t[i]] = t[i + 1]
    <3> TAKE i \in 1 .. Len(t) - 1
    <3>1. i \in 1 .. Len(q) - 2 /\ i + 1 \in 1 .. Len(q) - 1
      BY <2>1, <1>1
    <3>2. t[i] = q[i + 1] /\ t[i + 1] = q[i + 2] /\ (i + 1) + 1 = i + 2
      BY <3>1, <1>1, <1>6, <1>7
    <3> QED BY <3>1, <3>2 DEF Ancestry
  <2>5. \A i, j \in 1 .. Len(t) : t[i] = t[j] => i = j
    <3> TAKE i, j \in 1 .. Len(t)
    <3>1. i + 1 \in 1 .. Len(q) /\ j + 1 \in 1 .. Len(q) /\ t[i] = q[i + 1] /\ t[j] = q[j + 1]
      BY <2>1, <1>6, <1>7, <1>8
    <3>2. q[i + 1] = q[j + 1] => i + 1 = j + 1
      BY <3>1 DEF Ancestry
    <3> QED BY <3>1, <3>2
  <2> QED BY <2>1, <2>2, <2>3, <2>4, <2>5 DEF Ancestry
<1> QED BY <1>3, <1>4, <1>5, <1>6, <1>7, <1>10, <1>11

\* From above the root there is no way further.
LEMMA TopView ==
  ASSUME NEW V, NEW N, NEW L, Looking(V, N, L), NEW r \in {Root, Proto}, NEW k \in Kind
  PROVE  V[<<r, k>>] = NULL
<1>1. <<r, k>> \in Dict
  BY Constants DEF Dict
<1> QED BY <1>1 DEF Looking, ViewOf

LEMMA PathOf ==
  ASSUME NEW w, NEW L, NEW k \in Kind, NEW g, NEW q, Ancestry(L, q, g),
         \A i \in 1 .. Len(q) : w.view[<<q[i], k>>] = ViewOf(L, <<q[i], k>>)
  PROVE  Path(w, <<g, k>>) = [i \in 1 .. Len(q) |-> <<q[i], k>>]
<1>1. /\ q \in Seq(Graph) /\ q # <<>> /\ Len(q) \in Nat /\ Len(q) >= 1
      /\ q[1] = g /\ q[Len(q)] \in {Root, Proto}
      /\ \A i, j \in 1 .. Len(q) : q[i] = q[j] => i = j
      /\ \A i \in 1 .. Len(q) : q[i] \in L
      /\ \A i \in 1 .. Len(q) - 1 : q[i] \notin {Root, Proto} /\ Parent[q[i]] = q[i + 1]
  BY Roots DEF Ancestry
<1>2. w.view[<<q[Len(q)], k>>] = NULL
  <2>1. Len(q) \in 1 .. Len(q)
    BY <1>1
  <2> QED BY <2>1, <1>1 DEF ViewOf
<1>3. \A i \in 1 .. Len(q) - 1 : w.view[<<q[i], k>>] = <<q[i + 1], k>>
  <2> TAKE i \in 1 .. Len(q) - 1
  <2>1. i \in 1 .. Len(q)
    BY <1>1
  <2> QED BY <2>1, <1>1 DEF ViewOf
<1>4. IsPath(w.view, k, q)
  BY <1>1, <1>2, <1>3 DEF IsPath
<1>5. Path(w, <<q[1], k>>) = [i \in 1 .. Len(q) |-> <<q[i], k>>]
  BY <1>4, PathIs
<1> QED BY <1>1, <1>5

-----------------------------------------------------------------------------
(* Views.                                                                  *)

LEMMA SameWorld ==
  ASSUME NEW w \in Worlds, NEW x \in Worlds,
         w.dict = x.dict, w.view = x.view, w.nview = x.nview, w.str = x.str,
         w.room = x.room, w.ref = x.ref, w.bad = x.bad
  PROVE  w = x
<1> DEFINE D == [Dict -> [Name -> Sym \cup {NULL}]]
           V == [Dict -> Dict \cup {NULL}]
           N == [Dict -> Int]
           S == [Object -> Seq(Text)]
           R == [Object -> Nat]
           C == [{Root, Proto} \X String -> Int]
<1>1. Worlds = [dict : D, view : V, nview : N, str : S, room : R, ref : C, bad : BOOLEAN]
  BY DEF Worlds
<1> HIDE DEF D, V, N, S, R, C
<1>2. \A y \in Worlds : y = [dict |-> y.dict, view |-> y.view, nview |-> y.nview,
                            str |-> y.str, room |-> y.room, ref |-> y.ref, bad |-> y.bad]
  BY <1>1
<1> QED BY <1>2

Rewired(w, V, N) == [w EXCEPT !.view = V, !.nview = N]

LEMMA RewiredIs ==
  ASSUME NEW w \in Worlds, NEW V \in [Dict -> Dict \cup {NULL}], NEW N \in [Dict -> Int]
  PROVE  /\ Rewired(w, V, N) \in Worlds
         /\ Rewired(w, V, N).view = V /\ Rewired(w, V, N).nview = N
         /\ Rewired(w, V, N).dict = w.dict /\ Rewired(w, V, N).str = w.str
         /\ Rewired(w, V, N).room = w.room /\ Rewired(w, V, N).ref = w.ref
         /\ Rewired(w, V, N).bad = w.bad
BY DEF Worlds, Rewired

\* v does not lead to d.
NoWay(w, v, d) == v = NULL \/ d \notin Range(Path(w, v))

\* x is w but for the view of d, which is v.
Linked(w, d, v, x) ==
  /\ x \in Worlds
  /\ x.view = [w.view EXCEPT ![d] = v]
  /\ \A e \in Dict : x.nview[e] = w.nview[e] - One(e = w.view[d]) + One(e = v)
  /\ x.dict = w.dict /\ x.str = w.str /\ x.room = w.room /\ x.ref = w.ref /\ x.bad = w.bad

LEMMA DtviewIs ==
  ASSUME NEW w \in Worlds, NEW d \in Dict, NEW v \in Dict \cup {NULL}, NoWay(w, v, d)
  PROVE  Linked(w, d, v, Dtview(w, d, v))
<1> DEFINE old == w.view[d]
           less == IF old = NULL THEN w.nview ELSE [w.nview EXCEPT ![old] = @ - 1]
           more == IF v = NULL THEN less ELSE [less EXCEPT ![v] = @ + 1]
<1>1. w.nview \in [Dict -> Int] /\ old \in Dict \cup {NULL} /\ NULL \notin Dict
  BY Constants DEF Worlds
<1>2. less \in [Dict -> Int] /\ \A e \in Dict : less[e] = w.nview[e] - One(e = old)
  BY <1>1 DEF One
<1> HIDE DEF less
<1>3. more \in [Dict -> Int] /\ \A e \in Dict : more[e] = less[e] + One(e = v)
  BY <1>1, <1>2 DEF One
<1>4. Dtview(w, d, v) = [w EXCEPT !.view[d] = v, !.nview = more]
  BY DEF Dtview, less, NoWay
<1> HIDE DEF more
<1>5. Dtview(w, d, v) = Rewired(w, [w.view EXCEPT ![d] = v], more)
  BY <1>4 DEF Rewired
<1>6. \A e \in Dict : more[e] = w.nview[e] - One(e = old) + One(e = v)
  BY <1>2, <1>3
<1>7. [w.view EXCEPT ![d] = v] \in [Dict -> Dict \cup {NULL}]
  BY DEF Worlds
<1>8. PICK V, x : V = [w.view EXCEPT ![d] = v] /\ x = Dtview(w, d, v)
  OBVIOUS
<1>9. /\ x \in Worlds /\ x.view = V /\ x.nview = more
      /\ x.dict = w.dict /\ x.str = w.str /\ x.room = w.room /\ x.ref = w.ref /\ x.bad = w.bad
  BY <1>3, <1>5, <1>7, <1>8, RewiredIs
<1> QED BY <1>6, <1>8, <1>9 DEF Linked

Seen(V, L) == \A h \in L \cap Graph, k \in Kind : V[<<h, k>>] = ViewOf(L, <<h, k>>)

LEMMA LookingSeen == ASSUME NEW V, NEW N, NEW L, Looking(V, N, L) PROVE Seen(V, L)
BY DEF Looking, Seen, Dict

\* The search from g goes through the graphs of q.
Through(w, L, g, k, q) ==
  Ancestry(L, q, g) /\ Path(w, <<g, k>>) = [i \in 1 .. Len(q) |-> <<q[i], k>>]

\* Where a search goes that starts in a graph of L.
LEMMA PathGraphs ==
  ASSUME NEW w, NEW L, L \subseteq Object, Rooted(L), NEW g \in L \cap Graph, NEW k \in Kind,
         Seen(w.view, L)
  PROVE  \E q : Through(w, L, g, k, q)
<1>1. PICK q : Ancestry(L, q, g)
  BY DEF Rooted
<1>2. \A i \in 1 .. Len(q) : q[i] \in L \cap Graph
  BY <1>1 DEF Ancestry
<1>3. Path(w, <<g, k>>) = [i \in 1 .. Len(q) |-> <<q[i], k>>]
  <2>1. \A i \in 1 .. Len(q) : w.view[<<q[i], k>>] = ViewOf(L, <<q[i], k>>)
    BY <1>2 DEF Seen
  <2> QED BY <1>1, <2>1, PathOf
<1> QED BY <1>1, <1>3 DEF Through

\* aglocaldictsym leaves the views as they are.
LEMMA LocalIs ==
  ASSUME NEW w \in Worlds, NEW L, L \subseteq Object, Rooted(L),
         Looking(w.view, w.nview, L), NEW g \in L \cap Graph, NEW k \in Kind
  PROVE  Local(w, <<g, k>>) = w
<1> DEFINE d == <<g, k>>
           v == w.view[d]
           w1 == Dtview(w, d, NULL)
           V1 == [w.view EXCEPT ![d] = NULL]
<1>1. d \in Dict /\ NULL \notin Dict /\ v \in Dict \cup {NULL} /\ v = ViewOf(L, d)
      /\ w.view \in [Dict -> Dict \cup {NULL}] /\ w.nview \in [Dict -> Int]
  BY Constants DEF Dict, Worlds, Looking
<1>2. Linked(w, d, NULL, w1)
  BY <1>1, DtviewIs DEF NoWay
<1>3. V1 \in [Dict -> Dict \cup {NULL}] /\ V1[d] = NULL /\ \A e \in Dict : e # d => V1[e] = w.view[e]
  BY <1>1
<1> HIDE DEF w1, V1, v
<1>4. /\ w1 \in Worlds /\ w1.view = V1
      /\ \A e \in Dict : w1.nview[e] = w.nview[e] - One(e = v) + One(e = NULL)
      /\ w1.dict = w.dict /\ w1.str = w.str /\ w1.room = w.room /\ w1.ref = w.ref
      /\ w1.bad = w.bad
  BY <1>2 DEF Linked, V1, v
<1>5. NoWay(w1, v, d)
  <2> SUFFICES ASSUME v # NULL PROVE d \notin Range(Path(w1, v))
    BY DEF NoWay
  <2>1. g \in Graph \ {Root, Proto} /\ v = <<Parent[g], k>>
    BY <1>1 DEF ViewOf
  <2>2. PICK q : Ancestry(L, q, g)
    BY DEF Rooted
  <2>3. PICK t : t = Tail(q)
    OBVIOUS
  <2>4. Ancestry(L, t, Parent[g]) /\ \A i \in 1 .. Len(t) : t[i] # g
    BY <2>1, <2>2, <2>3, Upward
  <2>5. \A i \in 1 .. Len(t) : w1.view[<<t[i], k>>] = ViewOf(L, <<t[i], k>>)
    <3> TAKE i \in 1 .. Len(t)
    <3>1. t[i] \in Graph /\ t[i] # g
      BY <2>4 DEF Ancestry
    <3>2. <<t[i], k>> \in Dict /\ <<t[i], k>> # d
      BY <3>1 DEF Dict
    <3> QED BY <1>3, <1>4, <3>2 DEF Looking
  <2>6. Path(w1, v) = [i \in 1 .. Len(t) |-> <<t[i], k>>]
    BY <2>1, <2>4, <2>5, PathOf
  <2>7. \A i \in 1 .. Len(t) : <<t[i], k>> # d
    BY <2>4
  <2>8. Range(Path(w1, v)) = {<<t[i], k>> : i \in 1 .. Len(t)}
    BY <2>6 DEF Range
  <2> QED BY <2>7, <2>8
<1>6. PICK x : x = Dtview(w1, d, v) /\ Linked(w1, d, v, x)
  BY <1>1, <1>4, <1>5, DtviewIs
<1>7. x.view = w.view
  <2>1. [V1 EXCEPT ![d] = v] \in [Dict -> Dict \cup {NULL}]
    BY <1>1, <1>3
  <2>2. ASSUME NEW e \in Dict PROVE [V1 EXCEPT ![d] = v][e] = w.view[e]
    <3>1. CASE e = d
      BY <1>1, <1>3, <3>1 DEF v
    <3>2. CASE e # d
      BY <1>1, <1>3, <3>2
    <3> QED BY <3>1, <3>2
  <2>3. [V1 EXCEPT ![d] = v] = w.view
    BY ONLY <1>1, <2>1, <2>2
  <2> QED BY <1>4, <1>6, <2>3 DEF Linked
<1>8. x \in Worlds /\ x.nview = w.nview
  <2>1. x \in Worlds /\ x.nview \in [Dict -> Int]
    BY <1>6 DEF Linked, Worlds
  <2>2. ASSUME NEW e \in Dict PROVE x.nview[e] = w.nview[e]
    <3>1. One(e = NULL) = 0
      BY <1>1 DEF One
    <3>2. w1.nview[e] = w.nview[e] - One(e = v) + One(e = NULL)
      BY <1>4
    <3>4. w1.view[d] = NULL
      BY <1>3, <1>4
    <3>5. x.nview[e] = w1.nview[e] - One(e = w1.view[d]) + One(e = v)
      BY <1>6 DEF Linked
    <3>6. x.nview[e] = w1.nview[e] - One(e = NULL) + One(e = v)
      BY <3>4, <3>5
    <3>3. One(e = v) \in Int /\ w.nview[e] \in Int
      BY <1>1 DEF One
    <3> QED BY <3>1, <3>2, <3>3, <3>6
  <2> QED BY <1>1, <2>1, <2>2
<1>9. x.dict = w.dict /\ x.str = w.str /\ x.room = w.room /\ x.ref = w.ref /\ x.bad = w.bad
  BY <1>4, <1>6 DEF Linked
<1>10. x = w
  BY <1>7, <1>8, <1>9, SameWorld
<1>11. Local(w, d) = Dtview(w1, d, v)
  BY DEF Local, w1, v
<1> QED BY <1>6, <1>10, <1>11

\* What a search finds.
LEMMA SearchIs ==
  ASSUME NEW w \in Worlds, NEW L, L \subseteq Object, Rooted(L), SymbolsOK(w.dict, L),
         Seen(w.view, L), NEW g \in L \cap Graph, NEW k \in Kind, NEW n \in Name
  PROVE  /\ Search(w, <<g, k>>, n) = NULL <=> w.dict[Top(g, k)][n] = NULL
         /\ w.dict[<<g, k>>][n] # NULL => Search(w, <<g, k>>, n) = w.dict[<<g, k>>][n]
         /\ Search(w, <<g, k>>, n) # NULL =>
              /\ Search(w, <<g, k>>, n) \in Sym
              /\ Search(w, <<g, k>>, n).id = w.dict[Top(g, k)][n].id
              /\ \E h \in L \cap Graph : /\ RootOf(h) = RootOf(g)
                                         /\ Search(w, <<g, k>>, n) = w.dict[<<h, k>>][n]
<1> DEFINE D == w.dict
           p == Path(w, <<g, k>>)
           has == {i \in DOMAIN p : D[p[i]][n] # NULL}
<1>1. PICK q : Ancestry(L, q, g) /\ p = [i \in 1 .. Len(q) |-> <<q[i], k>>]
  <2>1. \E q : Through(w, L, g, k, q)
    BY PathGraphs
  <2> QED BY <2>1 DEF Through
<1>2. /\ q \in Seq(Graph) /\ Len(q) \in Nat /\ Len(q) >= 1 /\ q[Len(q)] = RootOf(g)
      /\ q[1] = g
      /\ \A i \in 1 .. Len(q) : q[i] \in L \cap Graph /\ RootOf(q[i]) = RootOf(g)
  BY <1>1 DEF Ancestry
<1>3. DOMAIN p = 1 .. Len(q) /\ \A i \in 1 .. Len(q) : p[i] = <<q[i], k>>
  BY <1>1
<1>4. Search(w, <<g, k>>, n) = IF has = {} THEN NULL ELSE D[p[Min(has)]][n]
  BY DEF Search
<1>5. \A h \in Graph : D[<<h, k>>][n] \in Sym \cup {NULL}
  <2>1. \A h \in Graph : <<h, k>> \in Dict
    BY DEF Dict
  <2> QED BY <2>1 DEF Worlds
<1>6. \A h \in L \cap Graph : D[<<h, k>>][n] # NULL =>
        D[Top(h, k)][n] # NULL /\ D[Top(h, k)][n].id = D[<<h, k>>][n].id
  BY DEF SymbolsOK
<1>7. \A i \in 1 .. Len(q) : Top(q[i], k) = Top(g, k)
  BY <1>2 DEF Top
<1> HIDE DEF p
<1>8. ASSUME has # {} PROVE Min(has) \in has /\ \A y \in has : Min(has) <= y
  <2>1. has \in SUBSET Nat
    BY <1>2, <1>3
  <2> HIDE DEF has
  <2>2. PICK x \in has : \A y \in has : x <= y
    BY <1>8, <2>1, NatLeast
  <2> QED BY <2>2 DEF Min
<1>9. CASE has = {}
  <2>1. Len(q) \in 1 .. Len(q) /\ 1 \in 1 .. Len(q)
    BY <1>2
  <2>2. D[<<q[Len(q)], k>>][n] = NULL
    BY <1>3, <1>9, <2>1
  <2>3. D[<<g, k>>][n] = NULL
    BY <1>2, <1>3, <1>9, <2>1
  <2> QED BY <1>2, <1>4, <1>9, <2>2, <2>3 DEF Top
<1>10. CASE has # {}
  <2>1. PICK i : i = Min(has)
    OBVIOUS
  <2>2. i \in 1 .. Len(q) /\ D[<<q[i], k>>][n] # NULL
    BY <1>3, <1>8, <1>10, <2>1
  <2>3. Search(w, <<g, k>>, n) = D[<<q[i], k>>][n]
    BY <1>3, <1>4, <1>10, <2>1, <2>2
  <2>4. D[Top(g, k)][n] # NULL /\ D[Top(g, k)][n].id = D[<<q[i], k>>][n].id
    BY <1>2, <1>6, <1>7, <2>2
  <2>5. ASSUME D[<<g, k>>][n] # NULL PROVE Search(w, <<g, k>>, n) = D[<<g, k>>][n]
    <3>1. 1 \in has
      BY <1>2, <1>3, <2>5
    <3>2. i <= 1
      <4> HIDE DEF has
      <4> QED BY <1>8, <1>10, <2>1, <3>1
    <3>4. i = 1
      BY <1>2, <2>2, <3>2
    <3> QED BY <1>2, <2>3, <3>4
  <2> QED BY <1>2, <1>5, <2>2, <2>3, <2>4, <2>5
<1> QED BY <1>9, <1>10

-----------------------------------------------------------------------------
(* What the operations on shared strings do to a world.                    *)

\* x is w but for the counts and bad.
Recounted(w, C, b, x) ==
  /\ x \in Worlds
  /\ x.ref = C /\ x.bad = b
  /\ x.dict = w.dict /\ x.view = w.view /\ x.nview = w.nview
  /\ x.str = w.str /\ x.room = w.room

Counts == [{Root, Proto} \X String -> Int]

LEMMA Recounts ==
  ASSUME NEW w \in Worlds, NEW C \in Counts, NEW b \in BOOLEAN
  PROVE  /\ Recounted(w, C, w.bad, [w EXCEPT !.ref = C])
         /\ Recounted(w, C, b, [w EXCEPT !.ref = C, !.bad = b])
BY DEF Recounted, Worlds, Counts

Less(C, o, s) == [C EXCEPT ![<<RootOf(o), s>>] = @ - 1]
More(C, o, s) == [C EXCEPT ![<<RootOf(o), s>>] = @ + 1]
Dangling(C, o, s, b) == b /\ C[<<RootOf(o), s>>] = 0
Also(b, c) == b \/ c

LEMMA FreeIs ==
  ASSUME NEW w \in Worlds, NEW o, NEW s \in String
  PROVE  Less(w.ref, o, s) \in Counts /\ Recounted(w, Less(w.ref, o, s), w.bad, Agstrfree(w, o, s))
<1>1. <<RootOf(o), s>> \in {Root, Proto} \X String
  BY Roots
<1>2. PICK C : C = Less(w.ref, o, s)
  OBVIOUS
<1>3. Agstrfree(w, o, s) = [w EXCEPT !.ref = C]
  BY <1>2 DEF Agstrfree, Shared, Less
<1>4. C \in Counts
  BY <1>1, <1>2 DEF Counts, Worlds, Less
<1> QED BY <1>2, <1>3, <1>4, Recounts

LEMMA DupIs ==
  ASSUME NEW w \in Worlds, NEW o, NEW s \in String, NEW b \in BOOLEAN
  PROVE  /\ More(w.ref, o, s) \in Counts
         /\ Recounted(w, More(w.ref, o, s), Also(w.bad, Dangling(w.ref, o, s, b)),
                      Agstrdup(w, o, s, b))
<1>1. <<RootOf(o), s>> \in {Root, Proto} \X String
  BY Roots
<1>2. PICK C, c : C = More(w.ref, o, s) /\ c = Also(w.bad, Dangling(w.ref, o, s, b))
  OBVIOUS
<1>3. Agstrdup(w, o, s, b) = [w EXCEPT !.ref = C, !.bad = c]
  BY <1>2 DEF Agstrdup, Shared, More, Also, Dangling
<1>4. C \in Counts
  BY <1>1, <1>2 DEF Counts, Worlds, More
<1>5. c \in BOOLEAN
  BY <1>2 DEF Also
<1>6. Recounted(w, C, c, Agstrdup(w, o, s, b))
  BY <1>3, <1>4, <1>5, Recounts
<1> QED BY <1>2, <1>4, <1>6

LEMMA LessAt ==
  ASSUME NEW C \in Counts, NEW o, NEW s \in String, NEW r \in {Root, Proto}, NEW u \in String
  PROVE  Less(C, o, s)[<<r, u>>] = C[<<r, u>>] - One(r = RootOf(o) /\ u = s)
<1>1. <<RootOf(o), s>> \in {Root, Proto} \X String /\ <<r, u>> \in {Root, Proto} \X String
  BY Roots
<1>2. C[<<r, u>>] \in Int
  BY <1>1 DEF Counts
<1>3. CASE r = RootOf(o) /\ u = s
  BY <1>1, <1>2, <1>3 DEF Less, Counts, One
<1>4. CASE ~(r = RootOf(o) /\ u = s)
  BY <1>1, <1>2, <1>4 DEF Less, Counts, One
<1> QED BY <1>3, <1>4

LEMMA MoreAt ==
  ASSUME NEW C \in Counts, NEW o, NEW s \in String, NEW r \in {Root, Proto}, NEW u \in String
  PROVE  More(C, o, s)[<<r, u>>] = C[<<r, u>>] + One(r = RootOf(o) /\ u = s)
<1>1. <<RootOf(o), s>> \in {Root, Proto} \X String /\ <<r, u>> \in {Root, Proto} \X String
  BY Roots
<1>2. C[<<r, u>>] \in Int
  BY <1>1 DEF Counts
<1>3. CASE r = RootOf(o) /\ u = s
  BY <1>1, <1>2, <1>3 DEF More, Counts, One
<1>4. CASE ~(r = RootOf(o) /\ u = s)
  BY <1>1, <1>2, <1>4 DEF More, Counts, One
<1> QED BY <1>3, <1>4

Swapped(C, o, s, t) == More(Less(C, o, s), o, t)

LEMMA SwappedAt ==
  ASSUME NEW C \in Counts, NEW o, NEW s \in String, NEW t \in String,
         Less(C, o, s) \in Counts,
         NEW r \in {Root, Proto}, NEW u \in String
  PROVE  Swapped(C, o, s, t)[<<r, u>>] = C[<<r, u>>] - One(r = RootOf(o) /\ u = s)
                                         + One(r = RootOf(o) /\ u = t)
<1>1. Less(C, o, s)[<<r, u>>] = C[<<r, u>>] - One(r = RootOf(o) /\ u = s)
  BY LessAt
<1>2. PICK B : B = Less(C, o, s)
  OBVIOUS
<1>3. More(B, o, t)[<<r, u>>] = B[<<r, u>>] + One(r = RootOf(o) /\ u = t)
  BY <1>2, MoreAt
<1> QED BY <1>1, <1>2, <1>3 DEF Swapped

-----------------------------------------------------------------------------
(* A value is replaced.                                                    *)

Put(w, o, i, v, b) ==
  [Agstrdup(Agstrfree(w, o, w.str[o][i]), o, v, b) EXCEPT !.str[o][i] = v]

Strs == [Object -> Seq(Text)]

\* x is w but for the values, the counts and bad.
Valued(w, S, C, b, x) ==
  /\ x \in Worlds
  /\ x.str = S /\ x.ref = C /\ x.bad = b
  /\ x.dict = w.dict /\ x.view = w.view /\ x.nview = w.nview /\ x.room = w.room

LEMMA StrOnly ==
  ASSUME NEW w \in Worlds, NEW S \in Strs
  PROVE  Valued(w, S, w.ref, w.bad, [w EXCEPT !.str = S])
BY DEF Valued, Worlds, Strs

SetStr(S, o, i, v) == [S EXCEPT ![o] = [@ EXCEPT ![i] = v]]

LEMMA SetStrIs ==
  ASSUME NEW S \in Strs, NEW o \in Object, NEW i \in 1 .. Len(S[o]), NEW v \in Text
  PROVE  /\ SetStr(S, o, i, v) \in Strs
         /\ \A e \in Object : Len(SetStr(S, o, i, v)[e]) = Len(S[e])
         /\ SetStr(S, o, i, v)[o][i] = v
         /\ \A e \in Object, j \in Nat :
              <<e, j>> # <<o, i>> => SetStr(S, o, i, v)[e][j] = S[e][j]
<1>1. S[o] \in Seq(Text)
  BY DEF Strs
<1>2. PICK t : t = [S[o] EXCEPT ![i] = v]
  OBVIOUS
<1>3. t \in Seq(Text) /\ Len(t) = Len(S[o]) /\ t[i] = v /\ \A j \in Nat : j # i => t[j] = S[o][j]
  BY <1>1, <1>2
<1>4. PICK T : T = [S EXCEPT ![o] = t]
  OBVIOUS
<1>5. SetStr(S, o, i, v) = T
  BY <1>2, <1>4 DEF SetStr
<1>6. T \in Strs /\ T[o] = t /\ \A e \in Object : e # o => T[e] = S[e]
  BY <1>3, <1>4 DEF Strs
<1> QED BY <1>3, <1>5, <1>6

\* Values that change in one place.
LEMMA ValMoves ==
  ASSUME NEW S \in Strs, NEW T \in Strs, NEW o \in Object, NEW i \in 1 .. Len(S[o]),
         Len(S[o]) <= Cardinality(Name),
         \A e \in Object : Len(T[e]) = Len(S[e]),
         \A e \in Object, j \in Nat : <<e, j>> # <<o, i>> => T[e][j] = S[e][j],
         NEW r, NEW u
  PROVE  Cardinality(Val(T, r, u)) = Cardinality(Val(S, r, u))
           - One(r = RootOf(o) /\ u = S[o][i]) + One(r = RootOf(o) /\ u = T[o][i])
<1>1. PICK p : p = <<o, i>>
  OBVIOUS
<1>2. Cardinality(Name) \in Nat /\ Len(S[o]) \in Nat
  BY Sizes DEF Strs
<1>3. p \in Val(S, r, u) <=> r = RootOf(o) /\ u = S[o][i]
  BY <1>1, <1>2 DEF Val, Places, Of
<1>4. p \in Val(T, r, u) <=> r = RootOf(o) /\ u = T[o][i]
  BY <1>1, <1>2 DEF Val, Places, Of
<1>5. ASSUME NEW x, x # p PROVE x \in Val(S, r, u) <=> x \in Val(T, r, u)
  <2>1. Val(S, r, u) \subseteq Places(r) /\ Val(T, r, u) \subseteq Places(r)
    BY DEF Val
  <2> SUFFICES ASSUME x \in Places(r) PROVE x \in Val(S, r, u) <=> x \in Val(T, r, u)
    BY <2>1
  <2>2. PICK e \in Object, j \in Nat : x = <<e, j>> /\ x[1] = e /\ x[2] = j
    BY <1>2 DEF Places, Of
  <2>3. T[e][j] = S[e][j] /\ Len(T[e]) = Len(S[e])
    BY <1>1, <1>5, <2>2
  <2> QED BY <2>2, <2>3 DEF Val
<1>6. Cardinality(Val(T, r, u))
        = Cardinality(Val(S, r, u)) - One(p \in Val(S, r, u)) + One(p \in Val(T, r, u))
  <2>1. IsFiniteSet(Val(S, r, u))
    BY UsesFinite
  <2> QED BY <1>5, <2>1, Moved
<1>7. One(p \in Val(S, r, u)) = One(r = RootOf(o) /\ u = S[o][i])
  BY <1>3 DEF One
<1>8. One(p \in Val(T, r, u)) = One(r = RootOf(o) /\ u = T[o][i])
  BY <1>4 DEF One
<1> QED BY <1>6, <1>7, <1>8

LEMMA UsesSum ==
  ASSUME NEW D, NEW S, NEW r, NEW s
  PROVE  /\ Uses(D, S, r, s) = Cardinality(Val(S, r, s)) + Cardinality(Def(D, r, s))
                                 + Cardinality(Nam(D, r, s))
         /\ Uses(D, S, r, s) \in Nat
BY UsesFinite DEF Uses

LEMMA PutIs ==
  ASSUME NEW w, NEW L, Good(w, L), L \subseteq Object,
         NEW o \in L, NEW i \in 1 .. Len(w.str[o]), NEW v \in Text, NEW b \in BOOLEAN
  PROVE  /\ Good(Put(w, o, i, v, b), L)
         /\ Put(w, o, i, v, b).dict = w.dict
         /\ Put(w, o, i, v, b).str = SetStr(w.str, o, i, v)
         /\ Put(w, o, i, v, b).bad
              = Also(w.bad, Dangling(Less(w.ref, o, w.str[o][i]), o, v, b))
<1>1. w \in Worlds /\ w.str \in Strs /\ w.ref \in Counts /\ w.room \in [Object -> Nat]
  BY DEF Good, Worlds, Strs, Counts
<1>2. o \in Object /\ Len(w.str[o]) = Size(w.dict, TopDict(o)) /\ Len(w.str[o]) <= Cardinality(Name)
  BY SizeType DEF Good, ValuesOK
<1>3. PICK s : s = w.str[o][i]
  OBVIOUS
<1>4. s \in Text /\ s \in String /\ v \in String
  BY <1>1, <1>2, <1>3 DEF Strs, String
<1>5. PICK w1 : w1 = Agstrfree(w, o, s)
  OBVIOUS
<1>6. Less(w.ref, o, s) \in Counts /\ Recounted(w, Less(w.ref, o, s), w.bad, w1)
  BY <1>1, <1>4, <1>5, FreeIs
<1>7. w1 \in Worlds /\ w1.ref = Less(w.ref, o, s) /\ w1.bad = w.bad
  BY <1>6 DEF Recounted
<1>8. PICK w2 : w2 = Agstrdup(w1, o, v, b)
  OBVIOUS
<1>9. /\ More(w1.ref, o, v) \in Counts
      /\ Recounted(w1, More(w1.ref, o, v), Also(w1.bad, Dangling(w1.ref, o, v, b)), w2)
  BY <1>4, <1>7, <1>8, DupIs
<1>10. /\ w2 \in Worlds /\ w2.ref = Swapped(w.ref, o, s, v)
       /\ w2.bad = Also(w.bad, Dangling(Less(w.ref, o, s), o, v, b))
       /\ w2.dict = w.dict /\ w2.view = w.view /\ w2.nview = w.nview /\ w2.str = w.str
       /\ w2.room = w.room
  BY <1>6, <1>7, <1>9 DEF Recounted, Swapped
<1>11. PICK T : T = SetStr(w.str, o, i, v)
  OBVIOUS
<1>12. /\ T \in Strs /\ T[o][i] = v /\ \A e \in Object : Len(T[e]) = Len(w.str[e])
       /\ \A e \in Object, j \in Nat : <<e, j>> # <<o, i>> => T[e][j] = w.str[e][j]
  BY <1>1, <1>2, <1>11, SetStrIs
<1>13. PICK x : x = Put(w, o, i, v, b)
  OBVIOUS
<1>14. x = [w2 EXCEPT !.str = T]
  <2>1. x = [w2 EXCEPT !.str[o][i] = v]
    BY <1>3, <1>5, <1>8, <1>13 DEF Put
  <2> QED BY <2>1, <1>10, <1>11 DEF SetStr
<1>15. /\ x \in Worlds /\ x.str = T /\ x.ref = Swapped(w.ref, o, s, v) /\ x.bad = w2.bad
       /\ x.dict = w.dict /\ x.view = w.view /\ x.nview = w.nview /\ x.room = w.room
  BY <1>10, <1>12, <1>14, StrOnly DEF Valued
<1>16. Counted(x.dict, x.str, x.ref)
  <2> SUFFICES ASSUME NEW r \in {Root, Proto}, NEW u \in String
               PROVE  x.ref[<<r, u>>] = Uses(x.dict, x.str, r, u)
    BY DEF Counted
  <2>1. w.ref[<<r, u>>] = Uses(w.dict, w.str, r, u)
    BY DEF Good, Counted
  <2>2. x.ref[<<r, u>>] = w.ref[<<r, u>>] - One(r = RootOf(o) /\ u = s)
                            + One(r = RootOf(o) /\ u = v)
    BY <1>1, <1>4, <1>6, <1>15, SwappedAt
  <2>3. Cardinality(Val(T, r, u)) = Cardinality(Val(w.str, r, u))
           - One(r = RootOf(o) /\ u = w.str[o][i]) + One(r = RootOf(o) /\ u = T[o][i])
    BY <1>1, <1>2, <1>12, ValMoves
  <2>4. Cardinality(Val(T, r, u)) = Cardinality(Val(w.str, r, u))
           - One(r = RootOf(o) /\ u = s) + One(r = RootOf(o) /\ u = v)
    BY <2>3, <1>3, <1>12
  <2>5. One(r = RootOf(o) /\ u = s) \in Int /\ One(r = RootOf(o) /\ u = v) \in Int
    BY DEF One
  <2>6. /\ Uses(x.dict, x.str, r, u) = Cardinality(Val(T, r, u))
               + Cardinality(Def(w.dict, r, u)) + Cardinality(Nam(w.dict, r, u))
        /\ Uses(w.dict, w.str, r, u) = Cardinality(Val(w.str, r, u))
               + Cardinality(Def(w.dict, r, u)) + Cardinality(Nam(w.dict, r, u))
    BY <1>15, UsesSum
  <2>7. /\ Cardinality(Val(w.str, r, u)) \in Nat /\ Cardinality(Val(T, r, u)) \in Nat
        /\ Cardinality(Def(w.dict, r, u)) \in Nat /\ Cardinality(Nam(w.dict, r, u)) \in Nat
    BY UsesFinite
  <2> QED BY <2>1, <2>2, <2>4, <2>5, <2>6, <2>7
<1>17. ValuesOK(x.dict, x.str, x.room, L)
  <2>1. \A e \in L : e \in Object /\ Len(x.str[e]) = Len(w.str[e])
    BY <1>12, <1>15
  <2>2. \A e \in Object \ L : x.str[e] = <<>>
    <3> TAKE e \in Object \ L
    <3>1. w.str[e] = <<>> /\ Len(x.str[e]) = Len(w.str[e]) /\ x.str[e] \in Seq(Text)
      BY <1>12, <1>15 DEF Good, ValuesOK, Strs
    <3> QED BY <3>1
  <2> QED BY <2>1, <2>2, <1>15 DEF Good, ValuesOK
<1>18. Good(x, L)
  BY <1>15, <1>16, <1>17 DEF Good
<1> QED BY <1>3, <1>10, <1>11, <1>13, <1>15, <1>18

-----------------------------------------------------------------------------
(* A symbol is redefined, or a dictionary gets one.                        *)

Dicts == [Dict -> [Name -> Sym \cup {NULL}]]

\* x is w but for the dictionaries.
Defined(w, D, x) ==
  /\ x \in Worlds
  /\ x.dict = D
  /\ x.str = w.str /\ x.ref = w.ref /\ x.bad = w.bad
  /\ x.view = w.view /\ x.nview = w.nview /\ x.room = w.room

LEMMA DictOnly ==
  ASSUME NEW w \in Worlds, NEW D \in Dicts
  PROVE  Defined(w, D, [w EXCEPT !.dict = D])
BY DEF Defined, Worlds, Dicts

SetDict(D, d, n, sym) == [D EXCEPT ![d] = [@ EXCEPT ![n] = sym]]

\* E is D but for the symbol of n in d.
OnlyAt(D, E, d, n) ==
  \A e \in Dict, m \in Name : <<e, m>> # <<d, n>> => E[e][m] = D[e][m]

LEMMA SetDictIs ==
  ASSUME NEW D \in Dicts, NEW d \in Dict, NEW n \in Name, NEW sym \in Sym
  PROVE  /\ SetDict(D, d, n, sym) \in Dicts
         /\ SetDict(D, d, n, sym)[d][n] = sym
         /\ OnlyAt(D, SetDict(D, d, n, sym), d, n)
<1>1. PICK t : t = [D[d] EXCEPT ![n] = sym]
  OBVIOUS
<1>2. t \in [Name -> Sym \cup {NULL}] /\ t[n] = sym /\ \A m \in Name : m # n => t[m] = D[d][m]
  BY <1>1 DEF Dicts
<1>3. PICK E : E = [D EXCEPT ![d] = t]
  OBVIOUS
<1>4. SetDict(D, d, n, sym) = E
  BY <1>1, <1>3 DEF SetDict
<1>5. E \in Dicts /\ E[d] = t /\ \A e \in Dict : e # d => E[e] = D[e]
  BY <1>2, <1>3 DEF Dicts
<1>6. OnlyAt(D, E, d, n)
  BY <1>2, <1>5 DEF OnlyAt
<1> QED BY <1>2, <1>4, <1>5, <1>6

IsDef(D, d, n, r, u) == r = RootOf(d[1]) /\ D[d][n] # NULL /\ D[d][n].def = u
IsNam(D, d, n, r, u) == r = RootOf(d[1]) /\ D[d][n] # NULL /\ n = u

\* Symbols that change in one place.
LEMMA DefMoves ==
  ASSUME NEW D, NEW E, NEW d \in Dict, NEW n \in Name, OnlyAt(D, E, d, n), NEW r, NEW u
  PROVE  /\ Cardinality(Def(E, r, u)) = Cardinality(Def(D, r, u))
              - One(IsDef(D, d, n, r, u)) + One(IsDef(E, d, n, r, u))
         /\ Cardinality(Nam(E, r, u)) = Cardinality(Nam(D, r, u))
              - One(IsNam(D, d, n, r, u)) + One(IsNam(E, d, n, r, u))
<1>1. PICK p : p = <<d, n>>
  OBVIOUS
<1>2. d[1] \in Graph /\ d[2] \in Kind /\ d = <<d[1], d[2]>> /\ d[1] \in Object
  BY DEF Dict, Object
<1>3. p \in Entries(r) <=> r = RootOf(d[1])
  BY <1>1, <1>2 DEF Entries, Of
<1>4. /\ p \in Def(D, r, u) <=> IsDef(D, d, n, r, u)
      /\ p \in Def(E, r, u) <=> IsDef(E, d, n, r, u)
      /\ p \in Nam(D, r, u) <=> IsNam(D, d, n, r, u)
      /\ p \in Nam(E, r, u) <=> IsNam(E, d, n, r, u)
  BY <1>1, <1>3 DEF Def, Nam, IsDef, IsNam
<1>5. ASSUME NEW x, x # p
      PROVE  /\ x \in Def(D, r, u) <=> x \in Def(E, r, u)
             /\ x \in Nam(D, r, u) <=> x \in Nam(E, r, u)
  <2>1. /\ Def(D, r, u) \subseteq Entries(r) /\ Def(E, r, u) \subseteq Entries(r)
        /\ Nam(D, r, u) \subseteq Entries(r) /\ Nam(E, r, u) \subseteq Entries(r)
    BY DEF Def, Nam
  <2> SUFFICES ASSUME x \in Entries(r)
               PROVE  /\ x \in Def(D, r, u) <=> x \in Def(E, r, u)
                      /\ x \in Nam(D, r, u) <=> x \in Nam(E, r, u)
    BY <2>1
  <2>2. PICK e \in Dict, m \in Name : x = <<e, m>> /\ x[1] = e /\ x[2] = m
    BY DEF Entries, Dict
  <2>3. E[e][m] = D[e][m]
    BY <1>1, <1>5, <2>2 DEF OnlyAt
  <2> QED BY <2>2, <2>3 DEF Def, Nam
<1>6. /\ IsFiniteSet(Def(D, r, u)) /\ IsFiniteSet(Nam(D, r, u))
  BY UsesFinite
<1>7. /\ Cardinality(Def(E, r, u))
           = Cardinality(Def(D, r, u)) - One(p \in Def(D, r, u)) + One(p \in Def(E, r, u))
      /\ Cardinality(Nam(E, r, u))
           = Cardinality(Nam(D, r, u)) - One(p \in Nam(D, r, u)) + One(p \in Nam(E, r, u))
  BY <1>5, <1>6, Moved
<1>8. /\ One(p \in Def(D, r, u)) = One(IsDef(D, d, n, r, u))
      /\ One(p \in Def(E, r, u)) = One(IsDef(E, d, n, r, u))
      /\ One(p \in Nam(D, r, u)) = One(IsNam(D, d, n, r, u))
      /\ One(p \in Nam(E, r, u)) = One(IsNam(E, d, n, r, u))
  BY <1>4 DEF One
<1> QED BY <1>7, <1>8

\* E has symbols for the same names as D, with the same numbers.
SameShape(D, E) ==
  \A d \in Dict, n \in Name :
    /\ E[d][n] = NULL <=> D[d][n] = NULL
    /\ D[d][n] # NULL => E[d][n].id = D[d][n].id

LEMMA SameSizes ==
  ASSUME NEW D, NEW E, SameShape(D, E), NEW d \in Dict
  PROVE  Size(E, d) = Size(D, d)
<1>1. {n \in Name : E[d][n] # NULL} = {n \in Name : D[d][n] # NULL}
  BY DEF SameShape
<1> QED BY <1>1 DEF Size

LEMMA SameSymbols ==
  ASSUME NEW D, NEW E, SameShape(D, E), NEW L, SymbolsOK(D, L)
  PROVE  SymbolsOK(E, L)
<1>1. ASSUME NEW r \in {Root, Proto}, NEW k \in Kind PROVE Numbered(E, <<r, k>>)
  <2>1. <<r, k>> \in Dict
    BY Constants DEF Dict
  <2>2. Size(E, <<r, k>>) = Size(D, <<r, k>>)
    BY <2>1, SameSizes
  <2>3. Numbered(D, <<r, k>>)
    BY DEF SymbolsOK
  <2>4. PICK d \in Dict : d = <<r, k>>
    BY <2>1
  <2>5. Numbered(E, d)
    BY <2>2, <2>3, <2>4 DEF SameShape, Numbered
  <2> QED BY <2>4, <2>5
<1>2. \A g \in Graph, k \in Kind : <<g, k>> \in Dict /\ Top(g, k) \in Dict
  BY Constants, Roots DEF Dict, Top
<1>3. \A g \in Graph \ L, k \in Kind, n \in Name : E[<<g, k>>][n] = NULL
  BY <1>2 DEF SymbolsOK, SameShape
<1>4. \A g \in L \cap Graph, k \in Kind, n \in Name :
        E[<<g, k>>][n] # NULL =>
          E[Top(g, k)][n] # NULL /\ E[Top(g, k)][n].id = E[<<g, k>>][n].id
  BY <1>2 DEF SymbolsOK, SameShape
<1> QED BY <1>1, <1>3, <1>4 DEF SymbolsOK

LEMMA SameValues ==
  ASSUME NEW D, NEW E, NEW S, NEW R, NEW L, ValuesOK(D, S, R, L),
         \A r \in {Root, Proto}, k \in Kind : Size(E, <<r, k>>) = Size(D, <<r, k>>)
  PROVE  ValuesOK(E, S, R, L)
<1>1. \A o : Size(E, TopDict(o)) = Size(D, TopDict(o))
  BY Roots
<1> QED BY <1>1 DEF ValuesOK

LEMMA DictDomain ==
  /\ \A g \in Graph, k \in Kind : <<g, k>> \in Dict /\ Top(g, k) \in Dict
  /\ \A d \in Dict : d[1] \in Graph /\ d[2] \in Kind /\ d = <<d[1], d[2]>>
BY Constants, Roots DEF Dict, Top

Symbol(i, v) == [id |-> i, def |-> v]

LEMMA SymbolIs ==
  ASSUME NEW i \in Nat, NEW v \in Text
  PROVE  /\ Symbol(i, v) \in Sym /\ Symbol(i, v) # NULL
         /\ Symbol(i, v).id = i /\ Symbol(i, v).def = v
BY Constants DEF Symbol, Sym

\* The world after a default has been replaced.
LEMMA RedefineIs ==
  ASSUME NEW w, NEW L, Good(w, L), NEW d \in Dict, NEW n \in Name, w.dict[d][n] # NULL,
         NEW v \in Text, NEW b \in BOOLEAN
  PROVE  /\ Good(Redefine(w, d, n, v, b), L)
         /\ SameShape(w.dict, Redefine(w, d, n, v, b).dict)
         /\ OnlyAt(w.dict, Redefine(w, d, n, v, b).dict, d, n)
         /\ Redefine(w, d, n, v, b).dict[d][n].def = v
         /\ Redefine(w, d, n, v, b).str = w.str
         /\ Redefine(w, d, n, v, b).bad
              = Also(w.bad, Dangling(Less(w.ref, d[1], w.dict[d][n].def), d[1], v, b))
<1>1. w \in Worlds /\ w.dict \in Dicts /\ w.ref \in Counts
  BY DEF Good, Worlds, Dicts, Counts
<1>2. PICK o, sym, s : o = d[1] /\ sym = w.dict[d][n] /\ s = sym.def
  OBVIOUS
<1>3. sym \in Sym /\ sym # NULL /\ sym.id \in Nat /\ s \in Text /\ s \in String /\ v \in String
  BY <1>1, <1>2 DEF Dicts, Sym, String
<1>4. PICK w1 : w1 = Agstrfree(w, o, s)
  OBVIOUS
<1>5. Less(w.ref, o, s) \in Counts /\ Recounted(w, Less(w.ref, o, s), w.bad, w1)
  BY <1>1, <1>3, <1>4, FreeIs
<1>6. w1 \in Worlds /\ w1.ref = Less(w.ref, o, s) /\ w1.bad = w.bad
  BY <1>5 DEF Recounted
<1>7. PICK w2 : w2 = Agstrdup(w1, o, v, b)
  OBVIOUS
<1>8. /\ More(w1.ref, o, v) \in Counts
      /\ Recounted(w1, More(w1.ref, o, v), Also(w1.bad, Dangling(w1.ref, o, v, b)), w2)
  BY <1>3, <1>6, <1>7, DupIs
<1>9. /\ w2 \in Worlds /\ w2.ref = Swapped(w.ref, o, s, v)
      /\ w2.bad = Also(w.bad, Dangling(Less(w.ref, o, s), o, v, b))
      /\ w2.dict = w.dict /\ w2.view = w.view /\ w2.nview = w.nview /\ w2.str = w.str
      /\ w2.room = w.room
  BY <1>5, <1>6, <1>8 DEF Recounted, Swapped
<1>10. PICK new : new = Symbol(sym.id, v)
  OBVIOUS
<1>11. new \in Sym /\ new # NULL /\ new.id = sym.id /\ new.def = v
  BY <1>3, <1>10, SymbolIs
<1>12. PICK E : E = SetDict(w.dict, d, n, new)
  OBVIOUS
<1>13. E \in Dicts /\ E[d][n] = new /\ OnlyAt(w.dict, E, d, n)
  BY <1>1, <1>11, <1>12, SetDictIs
<1>14. PICK x : x = Redefine(w, d, n, v, b)
  OBVIOUS
<1>15. x = [w2 EXCEPT !.dict = E]
  <2>1. x = [w2 EXCEPT !.dict[d][n].def = v]
    BY <1>2, <1>4, <1>7, <1>14 DEF Redefine
  <2>2. [sym EXCEPT !.def = v] = new
    BY <1>3, <1>10 DEF Symbol, Sym
  <2>3. w2.dict[d][n] = sym
    BY <1>2, <1>9
  <2> QED BY <2>1, <2>2, <2>3, <1>9, <1>12 DEF SetDict
<1>16. /\ x \in Worlds /\ x.dict = E /\ x.ref = Swapped(w.ref, o, s, v) /\ x.bad = w2.bad
       /\ x.str = w.str /\ x.view = w.view /\ x.nview = w.nview /\ x.room = w.room
  BY <1>9, <1>13, <1>15, DictOnly DEF Defined
<1>17. SameShape(w.dict, E)
  BY <1>2, <1>3, <1>11, <1>13 DEF OnlyAt, SameShape
<1>18. Counted(x.dict, x.str, x.ref)
  <2> SUFFICES ASSUME NEW r \in {Root, Proto}, NEW u \in String
               PROVE  x.ref[<<r, u>>] = Uses(x.dict, x.str, r, u)
    BY DEF Counted
  <2>1. w.ref[<<r, u>>] = Uses(w.dict, w.str, r, u)
    BY DEF Good, Counted
  <2>2. x.ref[<<r, u>>] = w.ref[<<r, u>>] - One(r = RootOf(o) /\ u = s)
                            + One(r = RootOf(o) /\ u = v)
    BY <1>1, <1>3, <1>5, <1>16, SwappedAt
  <2>3. /\ Cardinality(Def(E, r, u)) = Cardinality(Def(w.dict, r, u))
             - One(IsDef(w.dict, d, n, r, u)) + One(IsDef(E, d, n, r, u))
        /\ Cardinality(Nam(E, r, u)) = Cardinality(Nam(w.dict, r, u))
             - One(IsNam(w.dict, d, n, r, u)) + One(IsNam(E, d, n, r, u))
    BY <1>13, DefMoves
  <2>4. /\ One(IsDef(w.dict, d, n, r, u)) = One(r = RootOf(o) /\ u = s)
        /\ One(IsDef(E, d, n, r, u)) = One(r = RootOf(o) /\ u = v)
        /\ One(IsNam(w.dict, d, n, r, u)) = One(IsNam(E, d, n, r, u))
    BY <1>2, <1>3, <1>11, <1>13 DEF IsDef, IsNam, One
  <2>5. /\ One(r = RootOf(o) /\ u = s) \in Int /\ One(r = RootOf(o) /\ u = v) \in Int
        /\ One(IsNam(E, d, n, r, u)) \in Int
    BY DEF One
  <2>6. /\ Uses(x.dict, x.str, r, u) = Cardinality(Val(w.str, r, u))
               + Cardinality(Def(E, r, u)) + Cardinality(Nam(E, r, u))
        /\ Uses(w.dict, w.str, r, u) = Cardinality(Val(w.str, r, u))
               + Cardinality(Def(w.dict, r, u)) + Cardinality(Nam(w.dict, r, u))
    BY <1>16, UsesSum
  <2>7. /\ Cardinality(Val(w.str, r, u)) \in Nat
        /\ Cardinality(Def(w.dict, r, u)) \in Nat /\ Cardinality(Nam(w.dict, r, u)) \in Nat
        /\ Cardinality(Def(E, r, u)) \in Nat /\ Cardinality(Nam(E, r, u)) \in Nat
    BY UsesFinite
  <2> QED BY <2>1, <2>2, <2>3, <2>4, <2>5, <2>6, <2>7
<1>19. SymbolsOK(x.dict, L)
  BY <1>16, <1>17, SameSymbols DEF Good
<1>20. ValuesOK(x.dict, x.str, x.room, L)
  <2>1. \A r \in {Root, Proto}, k \in Kind : Size(E, <<r, k>>) = Size(w.dict, <<r, k>>)
    BY <1>17, Constants, DictDomain, SameSizes
  <2> QED BY <1>16, <2>1, SameValues DEF Good
<1>21. Good(x, L)
  BY <1>16, <1>18, <1>19, <1>20 DEF Good
<1> QED BY <1>2, <1>9, <1>11, <1>13, <1>14, <1>16, <1>17, <1>21

\* What dtinsert does in a dictionary that has no symbol for the name.
LEMMA InsertFields ==
  ASSUME NEW w \in Worlds, Counted(w.dict, w.str, w.ref),
         NEW d \in Dict, NEW n \in Name, w.dict[d][n] = NULL,
         NEW i \in Nat, NEW v \in Text, NEW b \in BOOLEAN
  PROVE  /\ Insert(w, d, n, i, v, b) \in Worlds
         /\ Insert(w, d, n, i, v, b).dict = SetDict(w.dict, d, n, Symbol(i, v))
         /\ Insert(w, d, n, i, v, b).bad
              = Also(w.bad, Dangling(More(w.ref, d[1], n), d[1], v, b))
         /\ Insert(w, d, n, i, v, b).str = w.str
         /\ Insert(w, d, n, i, v, b).room = w.room
         /\ Insert(w, d, n, i, v, b).view = w.view
         /\ Insert(w, d, n, i, v, b).nview = w.nview
         /\ Counted(Insert(w, d, n, i, v, b).dict, w.str, Insert(w, d, n, i, v, b).ref)
<1>1. w.dict \in Dicts /\ w.ref \in Counts /\ w.bad \in BOOLEAN
  BY DEF Worlds, Dicts, Counts
<1>2. PICK o : o = d[1]
  OBVIOUS
<1>3. n \in String /\ v \in String
  BY DEF String
<1>4. PICK w1 : w1 = Agstrdup(w, o, n, FALSE)
  OBVIOUS
<1>5. /\ More(w.ref, o, n) \in Counts
      /\ Recounted(w, More(w.ref, o, n), Also(w.bad, Dangling(w.ref, o, n, FALSE)), w1)
  BY <1>3, <1>4, DupIs
<1>6. w1 \in Worlds /\ w1.ref = More(w.ref, o, n) /\ w1.bad = w.bad
  BY <1>1, <1>5 DEF Recounted, Also, Dangling
<1>7. PICK w2 : w2 = Agstrdup(w1, o, v, b)
  OBVIOUS
<1>8. /\ More(w1.ref, o, v) \in Counts
      /\ Recounted(w1, More(w1.ref, o, v), Also(w1.bad, Dangling(w1.ref, o, v, b)), w2)
  BY <1>3, <1>6, <1>7, DupIs
<1>9. /\ w2 \in Worlds /\ w2.ref = More(w1.ref, o, v)
      /\ w2.bad = Also(w.bad, Dangling(More(w.ref, o, n), o, v, b))
      /\ w2.dict = w.dict /\ w2.view = w.view /\ w2.nview = w.nview /\ w2.str = w.str
      /\ w2.room = w.room
  BY <1>5, <1>6, <1>8 DEF Recounted
<1>10. PICK new : new = Symbol(i, v)
  OBVIOUS
<1>11. new \in Sym /\ new # NULL /\ new.def = v
  BY <1>10, SymbolIs
<1>12. PICK E : E = SetDict(w.dict, d, n, new)
  OBVIOUS
<1>13. E \in Dicts /\ E[d][n] = new /\ OnlyAt(w.dict, E, d, n)
  BY <1>1, <1>11, <1>12, SetDictIs
<1>14. PICK x : x = Insert(w, d, n, i, v, b)
  OBVIOUS
<1>15. x = [w2 EXCEPT !.dict = E]
  <2>1. x = [w2 EXCEPT !.dict[d][n] = new]
    BY <1>2, <1>4, <1>7, <1>10, <1>14 DEF Insert, Symbol
  <2> QED BY <2>1, <1>9, <1>12 DEF SetDict
<1>16. /\ x \in Worlds /\ x.dict = E /\ x.ref = More(w1.ref, o, v) /\ x.bad = w2.bad
       /\ x.str = w.str /\ x.view = w.view /\ x.nview = w.nview /\ x.room = w.room
  BY <1>9, <1>13, <1>15, DictOnly DEF Defined
<1>17. Counted(x.dict, w.str, x.ref)
  <2> SUFFICES ASSUME NEW r \in {Root, Proto}, NEW u \in String
               PROVE  x.ref[<<r, u>>] = Uses(x.dict, w.str, r, u)
    BY DEF Counted
  <2>1. w.ref[<<r, u>>] = Uses(w.dict, w.str, r, u)
    BY DEF Counted
  <2>2. /\ w1.ref[<<r, u>>] = w.ref[<<r, u>>] + One(r = RootOf(o) /\ u = n)
        /\ x.ref[<<r, u>>] = w1.ref[<<r, u>>] + One(r = RootOf(o) /\ u = v)
    BY <1>1, <1>3, <1>5, <1>6, <1>16, MoreAt
  <2>3. /\ Cardinality(Def(E, r, u)) = Cardinality(Def(w.dict, r, u))
             - One(IsDef(w.dict, d, n, r, u)) + One(IsDef(E, d, n, r, u))
        /\ Cardinality(Nam(E, r, u)) = Cardinality(Nam(w.dict, r, u))
             - One(IsNam(w.dict, d, n, r, u)) + One(IsNam(E, d, n, r, u))
    BY <1>13, DefMoves
  <2>4. /\ One(IsDef(w.dict, d, n, r, u)) = 0 /\ One(IsNam(w.dict, d, n, r, u)) = 0
        /\ One(IsDef(E, d, n, r, u)) = One(r = RootOf(o) /\ u = v)
        /\ One(IsNam(E, d, n, r, u)) = One(r = RootOf(o) /\ u = n)
    BY <1>2, <1>11, <1>13 DEF IsDef, IsNam, One
  <2>5. One(r = RootOf(o) /\ u = n) \in Int /\ One(r = RootOf(o) /\ u = v) \in Int
    BY DEF One
  <2>6. /\ Uses(x.dict, w.str, r, u) = Cardinality(Val(w.str, r, u))
               + Cardinality(Def(E, r, u)) + Cardinality(Nam(E, r, u))
        /\ Uses(w.dict, w.str, r, u) = Cardinality(Val(w.str, r, u))
               + Cardinality(Def(w.dict, r, u)) + Cardinality(Nam(w.dict, r, u))
    BY <1>16, UsesSum
  <2>7. /\ Cardinality(Val(w.str, r, u)) \in Nat
        /\ Cardinality(Def(w.dict, r, u)) \in Nat /\ Cardinality(Nam(w.dict, r, u)) \in Nat
        /\ Cardinality(Def(E, r, u)) \in Nat /\ Cardinality(Nam(E, r, u)) \in Nat
    BY UsesFinite
  <2> QED BY <2>1, <2>2, <2>3, <2>4, <2>5, <2>6, <2>7
<1> QED BY <1>2, <1>9, <1>10, <1>12, <1>14, <1>16, <1>17

\* A graph below the root gets a default of its own.
LEMMA InsertIs ==
  ASSUME NEW w, NEW L, Good(w, L),
         NEW g \in (L \cap Graph) \ {Root, Proto}, NEW k \in Kind, NEW n \in Name,
         w.dict[<<g, k>>][n] = NULL, w.dict[Top(g, k)][n] # NULL,
         NEW i, i = w.dict[Top(g, k)][n].id, NEW v \in Text, NEW b \in BOOLEAN
  PROVE  /\ Good(Insert(w, <<g, k>>, n, i, v, b), L)
         /\ OnlyAt(w.dict, Insert(w, <<g, k>>, n, i, v, b).dict, <<g, k>>, n)
         /\ Insert(w, <<g, k>>, n, i, v, b).dict[<<g, k>>][n] # NULL
         /\ Insert(w, <<g, k>>, n, i, v, b).dict[<<g, k>>][n].def = v
         /\ Insert(w, <<g, k>>, n, i, v, b).str = w.str
         /\ Insert(w, <<g, k>>, n, i, v, b).bad
              = Also(w.bad, Dangling(More(w.ref, g, n), g, v, b))
<1>1. PICK d, top : d = <<g, k>> /\ top = Top(g, k)
  OBVIOUS
<1>2. d \in Dict /\ d[1] = g /\ top \in Dict /\ top # d
  BY <1>1, DictDomain, Roots DEF Top
<1>3. w \in Worlds /\ Counted(w.dict, w.str, w.ref) /\ w.dict \in Dicts
  BY DEF Good, Worlds, Dicts
<1>4. i \in Nat /\ w.dict[d][n] = NULL /\ w.dict[top][n] # NULL
  BY <1>1, <1>2, <1>3 DEF Dicts, Sym
<1>5. PICK x : x = Insert(w, d, n, i, v, b)
  OBVIOUS
<1>6. /\ x \in Worlds /\ x.dict = SetDict(w.dict, d, n, Symbol(i, v))
      /\ x.bad = Also(w.bad, Dangling(More(w.ref, g, n), g, v, b))
      /\ x.str = w.str /\ x.room = w.room /\ x.view = w.view /\ x.nview = w.nview
      /\ Counted(x.dict, w.str, x.ref)
  BY <1>2, <1>3, <1>4, <1>5, InsertFields
<1>7. PICK new : new = Symbol(i, v)
  OBVIOUS
<1>8. new \in Sym /\ new # NULL /\ new.def = v /\ new.id = i
  BY <1>4, <1>7, SymbolIs
<1>9. x.dict \in Dicts /\ x.dict[d][n] = new /\ OnlyAt(w.dict, x.dict, d, n)
  BY <1>2, <1>3, <1>6, <1>7, <1>8, SetDictIs
<1>10. ASSUME NEW r \in {Root, Proto}, NEW l \in Kind
       PROVE  /\ <<r, l>> \in Dict /\ <<r, l>> # d
              /\ \A m \in Name : x.dict[<<r, l>>][m] = w.dict[<<r, l>>][m]
  BY <1>1, <1>9, Constants, DictDomain DEF OnlyAt
<1>11. \A r \in {Root, Proto}, l \in Kind : x.dict[<<r, l>>] = w.dict[<<r, l>>]
  BY <1>3, <1>9, <1>10 DEF Dicts
<1>12. \A r \in {Root, Proto}, l \in Kind : Size(x.dict, <<r, l>>) = Size(w.dict, <<r, l>>)
  BY <1>11 DEF Size
<1>13. SymbolsOK(x.dict, L)
  <2>1. \A r \in {Root, Proto}, l \in Kind : Numbered(x.dict, <<r, l>>)
    BY <1>11, <1>12 DEF Good, SymbolsOK, Numbered
  <2>2. \A h \in Graph \ L, l \in Kind, m \in Name : x.dict[<<h, l>>][m] = NULL
    <3> TAKE h \in Graph \ L, l \in Kind, m \in Name
    <3>1. w.dict[<<h, l>>][m] = NULL
      BY DEF Good, SymbolsOK
    <3>2. PICK e : e = <<h, l>>
      OBVIOUS
    <3>3. e \in Dict /\ e # d
      BY <1>1, <3>2, DictDomain
    <3> QED BY <1>9, <3>1, <3>2, <3>3 DEF OnlyAt
  <2>3. ASSUME NEW h \in L \cap Graph, NEW l \in Kind, NEW m \in Name, x.dict[<<h, l>>][m] # NULL
        PROVE  /\ x.dict[Top(h, l)][m] # NULL
               /\ x.dict[Top(h, l)][m].id = x.dict[<<h, l>>][m].id
    <3>1. x.dict[Top(h, l)] = w.dict[Top(h, l)]
      BY <1>11, Roots DEF Top
    <3>2. CASE <<<<h, l>>, m>> = <<d, n>>
      BY <1>1, <1>4, <1>8, <1>9, <3>1, <3>2
    <3>3. CASE <<<<h, l>>, m>> # <<d, n>>
      <4>1. x.dict[<<h, l>>][m] = w.dict[<<h, l>>][m]
        BY <1>9, <3>3, DictDomain DEF OnlyAt
      <4> QED BY <2>3, <3>1, <4>1 DEF Good, SymbolsOK
    <3> QED BY <3>2, <3>3
  <2> QED BY <2>1, <2>2, <2>3 DEF SymbolsOK
<1>14. ValuesOK(x.dict, x.str, x.room, L)
  BY <1>6, <1>12, SameValues DEF Good
<1>15. Good(x, L)
  BY <1>6, <1>13, <1>14 DEF Good
<1> QED BY <1>1, <1>5, <1>6, <1>8, <1>9, <1>15

-----------------------------------------------------------------------------
(* agxset.                                                                 *)

Index(D, o, n) == D[TopDict(o)][n].id + 1

\* The attributes a root declares are those of a live object's values.
LEMMA IndexIs ==
  ASSUME NEW w, NEW L, Good(w, L), L \subseteq Object, NEW o \in L, NEW n \in Name,
         w.dict[TopDict(o)][n] # NULL
  PROVE  Index(w.dict, o, n) \in 1 .. Len(w.str[o])
<1>1. PICK d : d = TopDict(o)
  OBVIOUS
<1>2. d \in Dict /\ o \in Object
  BY <1>1, Roots
<1>3. Numbered(w.dict, d)
  BY <1>1, Roots DEF Good, SymbolsOK
<1>4. w.dict[d][n] \in Sym
  BY <1>1, <1>2 DEF Good, Worlds
<1>5. w.dict[d][n].id \in Nat /\ w.dict[d][n].id < Size(w.dict, d)
  BY <1>1, <1>3, <1>4 DEF Numbered, Sym
<1>6. Len(w.str[o]) = Size(w.dict, d) /\ Size(w.dict, d) \in Nat
  BY <1>1, SizeType DEF Good, ValuesOK
<1> QED BY <1>1, <1>5, <1>6 DEF Index

\* Two attributes have two values.
LEMMA IndexApart ==
  ASSUME NEW w, NEW L, Good(w, L), L \subseteq Object, NEW o \in L,
         NEW m \in Name, w.dict[TopDict(o)][m] # NULL,
         NEW n \in Name, w.dict[TopDict(o)][n] # NULL, m # n
  PROVE  Index(w.dict, o, m) # Index(w.dict, o, n)
<1>1. PICK d : d = TopDict(o)
  OBVIOUS
<1>2. Numbered(w.dict, d) /\ d \in Dict
  BY <1>1, Roots DEF Good, SymbolsOK
<1>3. w.dict[d][m] \in Sym /\ w.dict[d][n] \in Sym
  BY <1>1, <1>2 DEF Good, Worlds
<1>4. w.dict[d][m].id \in Nat /\ w.dict[d][n].id \in Nat
  BY <1>3 DEF Sym
<1>5. w.dict[d][m].id # w.dict[d][n].id
  BY <1>1, <1>2 DEF Numbered
<1> QED BY <1>1, <1>4, <1>5 DEF Index

\* The own default of a graph is its value.
Agrees(D, S, g, n) ==
  D[<<g, "graph">>][n] # NULL => D[<<g, "graph">>][n].def = S[g][Index(D, g, n)]

LEMMA LocalButIs ==
  ASSUME NEW D, NEW S, NEW X
  PROVE  LocalBut(D, S, X) <=> \A g \in Graph, n \in Name : <<g, n>> \notin X => Agrees(D, S, g, n)
<1>1. \A g \in Graph : TopDict(g) = <<RootOf(g), "graph">>
  BY Roots
<1> QED BY <1>1 DEF LocalBut, Agrees, Index

\* The roots declare the same attributes in E as in D.
SameTops(D, E) ==
  \A r \in {Root, Proto}, k \in Kind, m \in Name :
    /\ E[<<r, k>>][m] = NULL <=> D[<<r, k>>][m] = NULL
    /\ D[<<r, k>>][m] # NULL => E[<<r, k>>][m].id = D[<<r, k>>][m].id

LEMMA OwnDeclared ==
  ASSUME NEW w, NEW L, Good(w, L), NEW g \in Graph, NEW n \in Name,
         w.dict[<<g, "graph">>][n] # NULL
  PROVE  g \in L /\ w.dict[TopDict(g)][n] # NULL
<1>1. "graph" \in Kind /\ TopDict(g) = Top(g, "graph")
  BY Roots DEF Kind, Top
<1>2. SymbolsOK(w.dict, L)
  BY DEF Good
<1>3. g \in L
  BY <1>1, <1>2 DEF SymbolsOK
<1> QED BY <1>1, <1>2, <1>3 DEF SymbolsOK

\* A value that is replaced is no other graph's and no other attribute's.
LEMMA LocalPut ==
  ASSUME NEW w, NEW L, Good(w, L), L \subseteq Object, NEW o \in L,
         NEW n \in Name, w.dict[TopDict(o)][n] # NULL, NEW v \in Text,
         LocalBut(w.dict, w.str, {<<o, n>>})
  PROVE  LocalBut(w.dict, SetStr(w.str, o, Index(w.dict, o, n), v), {<<o, n>>})
<1>1. PICK i, T : i = Index(w.dict, o, n) /\ T = SetStr(w.str, o, i, v)
  OBVIOUS
<1>2. i \in 1 .. Len(w.str[o]) /\ o \in Object /\ w.str \in Strs
  BY <1>1, IndexIs DEF Good, Worlds, Strs
<1>3. \A e \in Object, j \in Nat : <<e, j>> # <<o, i>> => T[e][j] = w.str[e][j]
  BY <1>1, <1>2, SetStrIs
<1>4. ASSUME NEW g \in Graph, NEW m \in Name, <<g, m>> \notin {<<o, n>>},
             w.dict[<<g, "graph">>][m] # NULL
      PROVE  w.dict[<<g, "graph">>][m].def = T[g][Index(w.dict, g, m)]
  <2>1. g \in L /\ w.dict[TopDict(g)][m] # NULL
    BY <1>4, OwnDeclared
  <2>2. PICK j : j = Index(w.dict, g, m)
    OBVIOUS
  <2>3. j \in 1 .. Len(w.str[g]) /\ g \in Object
    BY <2>1, <2>2, IndexIs
  <2>4. j \in Nat
    BY <2>3 DEF Good, Worlds
  <2>5. <<g, j>> # <<o, i>>
    <3> SUFFICES ASSUME g = o PROVE j # i
      OBVIOUS
    <3>1. m # n
      BY <1>4
    <3> QED BY <1>1, <2>1, <2>2, <3>1, IndexApart
  <2>6. w.dict[<<g, "graph">>][m].def = w.str[g][j]
    BY <1>4, <2>2, LocalButIs DEF Agrees
  <2> QED BY <1>3, <2>2, <2>3, <2>4, <2>5, <2>6
<1>5. LocalBut(w.dict, T, {<<o, n>>})
  BY <1>4, LocalButIs DEF Agrees
<1> QED BY <1>1, <1>5

LEMMA SameTopsIndex ==
  ASSUME NEW D, NEW E, SameTops(D, E), NEW o, NEW n \in Name, D[TopDict(o)][n] # NULL
  PROVE  E[TopDict(o)][n] # NULL /\ Index(E, o, n) = Index(D, o, n)
<1>1. PICK r \in {Root, Proto}, k \in Kind : TopDict(o) = <<r, k>>
  BY Roots
<1>2. E[<<r, k>>][n] # NULL /\ E[<<r, k>>][n].id = D[<<r, k>>][n].id
  BY <1>1 DEF SameTops
<1> QED BY <1>1, <1>2 DEF Index

\* A default that is set to the value puts the graph in order.
LEMMA LocalSet ==
  ASSUME NEW w, NEW L, Good(w, L), NEW E, SameTops(w.dict, E),
         NEW g \in L \cap Graph, NEW n \in Name, w.dict[TopDict(g)][n] # NULL,
         OnlyAt(w.dict, E, <<g, "graph">>, n),
         E[<<g, "graph">>][n].def = w.str[g][Index(w.dict, g, n)],
         LocalBut(w.dict, w.str, {<<g, n>>})
  PROVE  LocalBut(E, w.str, {})
<1> SUFFICES ASSUME NEW h \in Graph, NEW m \in Name PROVE Agrees(E, w.str, h, m)
  BY LocalButIs
<1>1. CASE <<h, m>> = <<g, n>>
  <2>1. Index(E, g, n) = Index(w.dict, g, n)
    BY SameTopsIndex
  <2> QED BY <1>1, <2>1 DEF Agrees
<1>2. CASE <<h, m>> # <<g, n>>
  <2> SUFFICES ASSUME E[<<h, "graph">>][m] # NULL
               PROVE  E[<<h, "graph">>][m].def = w.str[h][Index(E, h, m)]
    BY DEF Agrees
  <2>1. <<h, "graph">> \in Dict /\ <<<<h, "graph">>, m>> # <<<<g, "graph">>, n>>
    BY <1>2, DictDomain DEF Kind
  <2>2. E[<<h, "graph">>][m] = w.dict[<<h, "graph">>][m]
    BY <2>1 DEF OnlyAt
  <2>3. Agrees(w.dict, w.str, h, m)
    BY <1>2, LocalButIs
  <2>4. w.dict[<<h, "graph">>][m] # NULL
    BY <2>2
  <2>5. w.dict[TopDict(h)][m] # NULL
    BY <2>4, OwnDeclared
  <2>6. Index(E, h, m) = Index(w.dict, h, m)
    BY <2>5, SameTopsIndex
  <2> QED BY <2>2, <2>3, <2>4, <2>6 DEF Agrees
<1> QED BY <1>1, <1>2

LEMMA ShapeTops ==
  ASSUME NEW D, NEW E, SameShape(D, E) PROVE SameTops(D, E)
BY Constants, DictDomain DEF SameShape, SameTops

LEMMA BelowTops ==
  ASSUME NEW D, NEW E, NEW g \in Graph \ {Root, Proto}, NEW k, NEW n,
         OnlyAt(D, E, <<g, k>>, n)
  PROVE  SameTops(D, E)
<1> SUFFICES ASSUME NEW r \in {Root, Proto}, NEW l \in Kind, NEW m \in Name
             PROVE  E[<<r, l>>][m] = D[<<r, l>>][m]
  BY DEF SameTops
<1>1. PICK e : e = <<r, l>>
  OBVIOUS
<1>2. e \in Dict /\ <<e, m>> # <<<<g, k>>, n>>
  BY <1>1, Constants, DictDomain
<1> QED BY <1>1, <1>2 DEF OnlyAt

\* A string that some slot holds is not dangling, and if two slots hold it, not
\* when one of them has let it go.
LEMMA HeldTwice ==
  ASSUME NEW C \in Counts, NEW o, NEW s \in String, NEW v \in String, NEW b,
         C[<<RootOf(o), v>>] > One(v = s)
  PROVE  ~Dangling(Less(C, o, s), o, v, b)
<1>1. RootOf(o) \in {Root, Proto}
  BY Roots
<1>2. PICK r : r = RootOf(o)
  OBVIOUS
<1>3. Less(C, o, s)[<<r, v>>] = C[<<r, v>>] - One(r = RootOf(o) /\ v = s)
  BY <1>1, <1>2, LessAt
<1>4. One(r = RootOf(o) /\ v = s) = One(v = s)
  BY <1>2
<1>5. C[<<r, v>>] \in Int /\ One(v = s) \in Int
  BY <1>1, <1>2 DEF Counts, One
<1> QED BY <1>2, <1>3, <1>4, <1>5 DEF Dangling

LEMMA HeldMore ==
  ASSUME NEW C \in Counts, NEW o, NEW s \in String, NEW v \in String, NEW b,
         C[<<RootOf(o), v>>] > 0
  PROVE  ~Dangling(More(C, o, s), o, v, b)
<1>1. RootOf(o) \in {Root, Proto}
  BY Roots
<1>2. PICK r : r = RootOf(o)
  OBVIOUS
<1>3. More(C, o, s)[<<r, v>>] = C[<<r, v>>] + One(r = RootOf(o) /\ v = s)
  BY <1>1, <1>2, MoreAt
<1>4. C[<<r, v>>] \in Int /\ One(r = RootOf(o) /\ v = s) \in Nat
  BY <1>1, <1>2 DEF Counts, One
<1> QED BY <1>2, <1>3, <1>4 DEF Dangling

\* Who holds a string.
LEMMA ValueHeld ==
  ASSUME NEW w, NEW L, Good(w, L), L \subseteq Object, NEW o \in L,
         NEW i \in 1 .. Len(w.str[o])
  PROVE  /\ <<o, i>> \in Val(w.str, RootOf(o), w.str[o][i])
         /\ w.str[o][i] \in Text /\ w.str[o][i] \in String
<1>1. Len(w.str[o]) <= Cardinality(Name) /\ Len(w.str[o]) \in Nat /\ o \in Object
      /\ Cardinality(Name) \in Nat /\ w.str[o] \in Seq(Text)
  BY SizeType, Sizes DEF Good, ValuesOK, Worlds
<1> QED BY <1>1 DEF Val, Places, Of, String

LEMMA DefHeld ==
  ASSUME NEW w, NEW L, Good(w, L), NEW g \in Graph, NEW k \in Kind, NEW n \in Name,
         w.dict[<<g, k>>][n] # NULL
  PROVE  /\ <<<<g, k>>, n>> \in Def(w.dict, RootOf(g), w.dict[<<g, k>>][n].def)
         /\ w.dict[<<g, k>>][n].def \in Text /\ w.dict[<<g, k>>][n].def \in String
<1>1. w.dict[<<g, k>>][n] \in Sym
  BY DictDomain DEF Good, Worlds
<1>2. <<<<g, k>>, n>> \in Entries(RootOf(g))
  BY DEF Entries, Of, Object
<1> QED BY <1>1, <1>2 DEF Def, Sym, String

LEMMA CountOne ==
  ASSUME NEW S, IsFiniteSet(S), NEW p \in S PROVE Cardinality(S) \in Nat /\ Cardinality(S) > 0
<1>1. Cardinality(S) \in Nat
  BY FS_CardinalityType
<1>2. Cardinality(S) # 0
  BY FS_EmptySet
<1> QED BY <1>1, <1>2

LEMMA CountTwo ==
  ASSUME NEW S, IsFiniteSet(S), NEW p \in S, NEW q \in S, p # q PROVE Cardinality(S) > 1
<1>1. IsFiniteSet(S \ {p}) /\ Cardinality(S \ {p}) = Cardinality(S) - 1 /\ q \in S \ {p}
  BY FS_RemoveElement
<1>2. Cardinality(S \ {p}) > 0 /\ Cardinality(S) \in Nat
  BY <1>1, CountOne
<1> QED BY <1>1, <1>2

LEMMA CountIs ==
  ASSUME NEW w, NEW L, Good(w, L), NEW r \in {Root, Proto}, NEW u \in String
  PROVE  /\ w.ref[<<r, u>>] = Cardinality(Val(w.str, r, u)) + Cardinality(Def(w.dict, r, u))
                                + Cardinality(Nam(w.dict, r, u))
         /\ Cardinality(Val(w.str, r, u)) \in Nat /\ IsFiniteSet(Val(w.str, r, u))
         /\ Cardinality(Def(w.dict, r, u)) \in Nat /\ IsFiniteSet(Def(w.dict, r, u))
         /\ Cardinality(Nam(w.dict, r, u)) \in Nat
BY UsesFinite, UsesSum DEF Good, Counted

\* x is w after agxset.
ValueSet(w, L, o, n, v, b, x) ==
  /\ Good(x, L)
  /\ LocalBut(x.dict, x.str, {})
  /\ SameTops(w.dict, x.dict)
  /\ x.str = SetStr(w.str, o, Index(w.dict, o, n), v)
  /\ x.bad = Also(w.bad, Dangling(Less(w.ref, o, w.str[o][Index(w.dict, o, n)]), o, v, b))

LEMMA SetValueIs ==
  ASSUME NEW w, NEW L, Good(w, L), L \subseteq Object, Rooted(L), NEW o \in L,
         NEW n \in Name, w.dict[TopDict(o)][n] # NULL, NEW v \in Text, NEW b \in BOOLEAN,
         LocalBut(w.dict, w.str, {<<o, n>>})
  PROVE  ValueSet(w, L, o, n, v, b, SetValue(w, o, n, v, b))
<1>1. PICK i, w1 : i = Index(w.dict, o, n) /\ w1 = Put(w, o, i, v, b)
  OBVIOUS
<1>2. i \in 1 .. Len(w.str[o])
  BY <1>1, IndexIs
<1>3. /\ Good(w1, L) /\ w1.dict = w.dict /\ w1.str = SetStr(w.str, o, i, v)
      /\ w1.bad = Also(w.bad, Dangling(Less(w.ref, o, w.str[o][i]), o, v, b))
  BY <1>1, <1>2, PutIs
<1>4. LocalBut(w1.dict, w1.str, {<<o, n>>})
  BY <1>1, <1>3, LocalPut
<1>5. PICK x : x = SetValue(w, o, n, v, b)
  OBVIOUS
<1>6. PICK d, id : d = <<o, "graph">> /\ id = w.dict[TopDict(o)][n].id
  OBVIOUS
<1>7. x = IF o \in Node THEN w1
          ELSE IF Local(w1, d).dict[d][n] # NULL THEN Redefine(Local(w1, d), d, n, v, b)
          ELSE Insert(Local(w1, d), d, n, id, v, b)
  BY <1>1, <1>5, <1>6 DEF SetValue, Index, Put
<1>8. CASE o \in Node
  <2>1. x = w1
    BY <1>7, <1>8
  <2>2. LocalBut(w1.dict, w1.str, {})
    BY <1>4, <1>8, Constants DEF LocalBut
  <2>3. SameTops(w.dict, w1.dict)
    BY <1>3 DEF SameTops
  <2> QED BY <1>1, <1>3, <1>5, <2>1, <2>2, <2>3 DEF ValueSet
<1>9. CASE o \notin Node
  <2>1. o \in L \cap Graph /\ "graph" \in Kind /\ TopDict(o) = Top(o, "graph")
    BY <1>9, Roots DEF Object, Kind, Top
  <2>2. d \in Dict /\ d[1] = o
    BY <1>6, <2>1, DictDomain
  <2>3. Local(w1, d) = w1
    BY <1>3, <1>6, <2>1, LocalIs DEF Good
  <2>4. /\ w1.str[o][i] = v /\ i \in 1 .. Len(w1.str[o]) /\ i = Index(w1.dict, o, n)
        /\ v \in String
    <3>1. w.str \in Strs /\ o \in Object
      BY DEF Good, Worlds, Strs
    <3> QED BY <1>1, <1>2, <1>3, <3>1, SetStrIs DEF String
  <2>5. w1.dict[TopDict(o)][n] # NULL /\ w1.ref \in Counts /\ w1.dict \in Dicts
    BY <1>3 DEF Good, Worlds, Counts, Dicts
  <2>6. PICK r \in {Root, Proto} : r = RootOf(o)
    BY Roots
  <2>7. /\ w1.ref[<<r, v>>] = Cardinality(Val(w1.str, r, v)) + Cardinality(Def(w1.dict, r, v))
                                + Cardinality(Nam(w1.dict, r, v))
        /\ Cardinality(Val(w1.str, r, v)) \in Nat /\ IsFiniteSet(Val(w1.str, r, v))
        /\ Cardinality(Def(w1.dict, r, v)) \in Nat /\ IsFiniteSet(Def(w1.dict, r, v))
        /\ Cardinality(Nam(w1.dict, r, v)) \in Nat
    BY <1>3, <2>4, CountIs
  <2>8. Cardinality(Val(w1.str, r, v)) > 0
    <3>1. <<o, i>> \in Val(w1.str, r, v)
      BY <1>3, <2>4, <2>6, ValueHeld
    <3> QED BY <2>7, <3>1, CountOne
  <2>9. CASE w1.dict[d][n] # NULL
    <3>1. PICK s : s = w1.dict[d][n].def
      OBVIOUS
    <3>2. s \in String /\ <<d, n>> \in Def(w1.dict, r, s)
      BY <1>3, <1>6, <2>1, <2>6, <2>9, <3>1, DefHeld
    <3>3. x = Redefine(w1, d, n, v, b)
      BY <1>7, <1>9, <2>3, <2>9
    <3>4. /\ Good(x, L) /\ SameShape(w1.dict, x.dict) /\ OnlyAt(w1.dict, x.dict, d, n)
          /\ x.dict[d][n].def = v /\ x.str = w1.str
          /\ x.bad = Also(w1.bad, Dangling(Less(w1.ref, o, s), o, v, b))
      BY <1>3, <2>2, <2>9, <3>1, <3>3, RedefineIs
    <3>5. SameTops(w1.dict, x.dict)
      BY <3>4, ShapeTops
    <3>6. LocalBut(x.dict, x.str, {})
      BY <1>3, <1>4, <1>6, <2>1, <2>4, <2>5, <3>4, <3>5, LocalSet
    <3>7. ~Dangling(Less(w1.ref, o, s), o, v, b)
      <4>1. CASE v = s
        <5>1. Cardinality(Def(w1.dict, r, v)) > 0
          BY <2>7, <3>2, <4>1, CountOne
        <5>2. w1.ref[<<r, v>>] > 1
          BY <2>7, <2>8, <5>1
        <5>3. One(v = s) = 1
          BY <4>1 DEF One
        <5> QED BY <2>4, <2>5, <2>6, <3>2, <5>2, <5>3, HeldTwice
      <4>2. CASE v # s
        <5>1. w1.ref[<<r, v>>] > 0
          BY <2>7, <2>8
        <5>2. One(v = s) = 0
          BY <4>2 DEF One
        <5> QED BY <2>4, <2>5, <2>6, <3>2, <5>1, <5>2, HeldTwice
      <4> QED BY <4>1, <4>2
    <3>8. x.bad = w1.bad
      BY <1>3, <3>4, <3>7 DEF Also
    <3> QED BY <1>1, <1>3, <1>5, <3>4, <3>5, <3>6, <3>8 DEF ValueSet
  <2>10. CASE w1.dict[d][n] = NULL
    <3>1. o \notin {Root, Proto}
      BY <1>6, <2>1, <2>5, <2>10, Roots DEF Top
    <3>2. n \in String /\ w1.ref[<<r, v>>] > 0
      BY <2>7, <2>8 DEF String
    <3>3. x = Insert(w1, d, n, id, v, b) /\ id = w1.dict[Top(o, "graph")][n].id
      BY <1>3, <1>6, <1>7, <1>9, <2>1, <2>3, <2>10
    <3>4. /\ Good(x, L) /\ OnlyAt(w1.dict, x.dict, d, n)
          /\ x.dict[d][n].def = v /\ x.str = w1.str
          /\ x.bad = Also(w1.bad, Dangling(More(w1.ref, o, n), o, v, b))
      BY <1>3, <1>6, <2>1, <2>5, <2>10, <3>1, <3>3, InsertIs
    <3>5. SameTops(w1.dict, x.dict)
      BY <1>6, <2>1, <3>1, <3>4, BelowTops
    <3>6. LocalBut(x.dict, x.str, {})
      BY <1>3, <1>4, <1>6, <2>1, <2>4, <2>5, <3>4, <3>5, LocalSet
    <3>7. ~Dangling(More(w1.ref, o, n), o, v, b)
      BY <2>4, <2>5, <2>6, <3>2, HeldMore
    <3>8. x.bad = w1.bad
      BY <1>3, <3>4, <3>7 DEF Also
    <3> QED BY <1>1, <1>3, <1>5, <3>4, <3>5, <3>6, <3>8 DEF ValueSet
  <2> QED BY <2>9, <2>10
<1> QED BY <1>8, <1>9

\* Sound but for the own default of o for attribute n.
Almost(w, L, A, o, n) ==
  /\ Tree(L, A)
  /\ Good(w, L)
  /\ LocalBut(w.dict, w.str, {<<o, n>>})
  /\ ~PassesOwn => ~w.bad

LEMMA SoundAlmost ==
  ASSUME NEW w, NEW L, NEW A, NEW o, NEW n, Sound(w, L, A)
  PROVE  Almost(w, L, A, o, n)
BY DEF Sound, Almost, LocalBut

LEMMA SetStep ==
  ASSUME NEW w, NEW L, NEW A, NEW o \in L, NEW n \in Name, Almost(w, L, A, o, n),
         w.dict[TopDict(o)][n] # NULL, NEW v \in Text, NEW b \in BOOLEAN,
         ~PassesOwn /\ b =>
           w.ref[<<RootOf(o), v>>] > One(v = w.str[o][Index(w.dict, o, n)])
  PROVE  /\ Sound(SetValue(w, o, n, v, b), L, A)
         /\ ValueSet(w, L, o, n, v, b, SetValue(w, o, n, v, b))
<1>1. Good(w, L) /\ L \subseteq Object /\ Rooted(L) /\ Tree(L, A) /\ w.ref \in Counts
  BY DEF Almost, Tree, Good, Worlds, Counts
<1>2. LocalBut(w.dict, w.str, {<<o, n>>})
  BY DEF Almost
<1>3. PICK x : x = SetValue(w, o, n, v, b)
  OBVIOUS
<1>4. ValueSet(w, L, o, n, v, b, x)
  BY <1>1, <1>2, <1>3, SetValueIs
<1>5. PICK i, s : i = Index(w.dict, o, n) /\ s = w.str[o][i]
  OBVIOUS
<1>6. i \in 1 .. Len(w.str[o])
  BY <1>1, <1>5, IndexIs
<1>7. s \in String /\ v \in String
  BY <1>1, <1>5, <1>6, ValueHeld DEF String
<1>8. ~PassesOwn => ~x.bad
  <2> SUFFICES ASSUME ~PassesOwn PROVE ~x.bad
    OBVIOUS
  <2>1. ~Dangling(Less(w.ref, o, s), o, v, b)
    <3>1. CASE b
      <4>1. w.ref[<<RootOf(o), v>>] > One(v = s)
        BY <1>5, <3>1
      <4> QED BY <1>1, <1>7, <4>1, HeldTwice
    <3>2. CASE ~b
      BY <3>2 DEF Dangling
    <3> QED BY <3>1, <3>2
  <2>2. ~w.bad
    BY DEF Almost
  <2>3. x.bad = Also(w.bad, Dangling(Less(w.ref, o, s), o, v, b))
    BY <1>4, <1>5 DEF ValueSet
  <2> QED BY <2>1, <2>2, <2>3 DEF Also
<1>9. Sound(x, L, A)
  BY <1>1, <1>4, <1>8 DEF Sound, ValueSet
<1> QED BY <1>3, <1>4, <1>9

-----------------------------------------------------------------------------
(* agcopyattr.                                                             *)

LEMMA SameTopsTwice ==
  ASSUME NEW D, NEW E, NEW F, SameTops(D, E), SameTops(E, F)
  PROVE  SameTops(D, F)
BY DEF SameTops

\* Name nm[i] is the attribute with index i - 1.
Naming(w, from, nm) ==
  /\ DOMAIN nm = 1 .. Len(w.str[from])
  /\ \A i \in 1 .. Len(w.str[from]) :
       /\ nm[i] \in Name /\ w.dict[TopDict(from)][nm[i]] # NULL
       /\ Index(w.dict, from, nm[i]) = i

\* f[i] is w with i values copied.
Copying(w, from, to, nm, f) ==
  /\ f[0] = w
  /\ \A i \in 1 .. Len(w.str[from]) : f[i - 1] \in Worlds =>
       f[i] = SetValue(f[i - 1], to, nm[i], w.str[from][i], TRUE)

CopiedFar(w, L, A, from, x) ==
  Sound(x, L, A) /\ SameTops(w.dict, x.dict) /\ x.str[from] = w.str[from]

LEMMA CopyOne ==
  ASSUME NEW w, NEW L, NEW A, Sound(w, L, A), NEW from \in L, NEW to \in L,
         from # to, TopDict(from) = TopDict(to), NEW nm, Naming(w, from, nm),
         NEW x, CopiedFar(w, L, A, from, x), NEW i \in 1 .. Len(w.str[from])
  PROVE  CopiedFar(w, L, A, from, SetValue(x, to, nm[i], w.str[from][i], TRUE))
<1>1. PICK n, v : n = nm[i] /\ v = w.str[from][i]
  OBVIOUS
<1>2. n \in Name /\ w.dict[TopDict(from)][n] # NULL /\ Index(w.dict, from, n) = i
  BY <1>1 DEF Naming
<1>3. Sound(x, L, A) /\ SameTops(w.dict, x.dict) /\ x.str[from] = w.str[from]
  BY DEF CopiedFar
<1>4. Good(x, L) /\ L \subseteq Object /\ x.str \in Strs /\ x.ref \in Counts
  BY <1>3 DEF Sound, Tree, Good, Worlds, Strs, Counts
<1>5. x.dict[TopDict(to)][n] # NULL /\ Index(x.dict, to, n) = i
  <2>1. x.dict[TopDict(from)][n] # NULL /\ Index(x.dict, from, n) = Index(w.dict, from, n)
    BY <1>2, <1>3, SameTopsIndex
  <2> QED BY <1>2, <2>1 DEF Index
<1>6. i \in 1 .. Len(x.str[to]) /\ i \in 1 .. Len(x.str[from])
  BY <1>2, <1>3, <1>4, <1>5, IndexIs
<1>7. PICK r, s : r = RootOf(to) /\ s = x.str[to][i]
  OBVIOUS
<1>8. r = RootOf(from) /\ r \in {Root, Proto}
  BY <1>7, Roots
<1>9. /\ <<to, i>> \in Val(x.str, r, s)
      /\ <<from, i>> \in Val(x.str, r, v) /\ v \in Text /\ v \in String
  BY <1>1, <1>3, <1>4, <1>6, <1>7, <1>8, ValueHeld
<1>10. /\ x.ref[<<r, v>>] = Cardinality(Val(x.str, r, v)) + Cardinality(Def(x.dict, r, v))
                              + Cardinality(Nam(x.dict, r, v))
       /\ Cardinality(Val(x.str, r, v)) \in Nat /\ IsFiniteSet(Val(x.str, r, v))
       /\ Cardinality(Def(x.dict, r, v)) \in Nat
       /\ Cardinality(Nam(x.dict, r, v)) \in Nat
  BY <1>4, <1>8, <1>9, CountIs
<1>11. Cardinality(Val(x.str, r, v)) > One(v = s)
  <2>1. CASE v = s
    <3>1. <<to, i>> # <<from, i>>
      OBVIOUS
    <3>2. Cardinality(Val(x.str, r, v)) > 1
      BY <1>9, <1>10, <2>1, <3>1, CountTwo
    <3> QED BY <2>1, <3>2 DEF One
  <2>2. CASE v # s
    <3>1. Cardinality(Val(x.str, r, v)) > 0
      BY <1>9, <1>10, CountOne
    <3> QED BY <2>2, <3>1 DEF One
  <2> QED BY <2>1, <2>2
<1>12. x.ref[<<RootOf(to), v>>] > One(v = x.str[to][Index(x.dict, to, n)])
  <2>1. One(v = s) \in Nat
    BY DEF One
  <2> QED BY <1>5, <1>7, <1>10, <1>11, <2>1
<1>13. PICK y : y = SetValue(x, to, n, v, TRUE)
  OBVIOUS
<1>14. Sound(y, L, A) /\ ValueSet(x, L, to, n, v, TRUE, y)
  BY <1>2, <1>3, <1>5, <1>9, <1>12, <1>13, SoundAlmost, SetStep
<1>15. SameTops(w.dict, y.dict)
  BY <1>3, <1>14, SameTopsTwice DEF ValueSet
<1>16. y.str[from] = w.str[from]
  <2>1. y.str = SetStr(x.str, to, i, v)
    BY <1>5, <1>14 DEF ValueSet
  <2> QED BY <1>3, <1>4, <2>1 DEF SetStr, Strs
<1> QED BY <1>1, <1>13, <1>14, <1>15, <1>16 DEF CopiedFar

LEMMA CopyAll ==
  ASSUME NEW w, NEW L, NEW A, Sound(w, L, A), NEW from \in L, NEW to \in L,
         from # to, TopDict(from) = TopDict(to), NEW nm, Naming(w, from, nm),
         NEW f, Copying(w, from, to, nm, f)
  PROVE  \A i \in 0 .. Len(w.str[from]) : CopiedFar(w, L, A, from, f[i])
<1> DEFINE P == {i \in Nat : i <= Len(w.str[from]) => CopiedFar(w, L, A, from, f[i])}
<1>0. Len(w.str[from]) \in Nat
  <2>1. w.str[from] \in Seq(Text)
    BY DEF Sound, Tree, Good, Worlds
  <2> QED BY <2>1
<1>1. ASSUME NEW m \in Nat, \A k \in Nat : k < m => k \in P PROVE m \in P
  <2> SUFFICES ASSUME m <= Len(w.str[from]) PROVE CopiedFar(w, L, A, from, f[m])
    OBVIOUS
  <2>1. CASE m = 0
    BY <2>1 DEF Copying, CopiedFar, SameTops
  <2>2. CASE m # 0
    <3>1. m - 1 \in Nat /\ m - 1 < m /\ m - 1 <= Len(w.str[from]) /\ m \in 1 .. Len(w.str[from])
      BY <1>0, <2>2
    <3>2. CopiedFar(w, L, A, from, f[m - 1])
      BY <1>1, <3>1
    <3>3. f[m - 1] \in Worlds
      BY <3>2 DEF CopiedFar, Sound, Good
    <3>4. f[m] = SetValue(f[m - 1], to, nm[m], w.str[from][m], TRUE)
      BY <3>1, <3>3 DEF Copying
    <3>5. PICK x : x = f[m - 1]
      OBVIOUS
    <3>6. CopiedFar(w, L, A, from, SetValue(x, to, nm[m], w.str[from][m], TRUE))
      BY <3>1, <3>2, <3>5, CopyOne
    <3> QED BY <3>4, <3>5, <3>6
  <2> QED BY <2>1, <2>2
<1>2. P = Nat
  <2>1. P \in SUBSET Nat /\ \A m \in Nat : (\A k \in Nat : k < m => k \in P) => m \in P
    BY <1>1
  <2> HIDE DEF P
  <2> QED BY <2>1, NatComplete
<1> QED BY <1>0, <1>2

LEMMA WorldFields ==
  /\ World.dict = dict /\ World.view = view /\ World.nview = nview /\ World.str = str
  /\ World.room = room /\ World.ref = ref /\ World.bad = bad
BY DEF World

\* The attribute with index i - 1 of the root of o.
NameAt(o, i) == CHOOSE m \in Declared(o) : dict[TopDict(o)][m].id = i - 1

LEMMA NamesAt ==
  ASSUME Inv, NEW o \in live
  PROVE  Naming(World, o, [i \in 1 .. Len(str[o]) |-> NameAt(o, i)])
<1>1. Good(World, live)
  BY DEF Inv, Sound
<1>2. PICK d \in Dict : d = TopDict(o)
  BY Roots
<1>3. Numbered(dict, d) /\ Len(str[o]) = Size(dict, d) /\ Size(dict, d) \in Nat
  BY <1>1, <1>2, WorldFields, Roots, SizeType DEF Good, SymbolsOK, ValuesOK
<1>4. \A m \in Name : dict[d][m] # NULL => dict[d][m].id \in Nat
  BY <1>1, <1>2, WorldFields DEF Good, Worlds, Sym
<1>5. ASSUME NEW i \in 1 .. Len(str[o])
      PROVE  /\ NameAt(o, i) \in Name /\ dict[d][NameAt(o, i)] # NULL
             /\ dict[d][NameAt(o, i)].id = i - 1
  <2>1. i - 1 \in 0 .. Size(dict, d) - 1
    BY <1>3
  <2>2. \E m \in Declared(o) : dict[TopDict(o)][m].id = i - 1
    BY <1>2, <1>3, <2>1 DEF Numbered, Declared
  <2> QED BY <1>2, <2>2 DEF NameAt, Declared
<1>6. \A i \in 1 .. Len(str[o]) : Index(dict, o, NameAt(o, i)) = i
  BY <1>2, <1>4, <1>5 DEF Index
<1> QED BY <1>2, <1>5, <1>6, WorldFields DEF Naming

LEMMA CopiedIs ==
  ASSUME Inv, NEW from \in live, NEW to \in live, from # to, TopDict(from) = TopDict(to)
  PROVE  Sound(Copied(from, to), live, attached)
<1> DEFINE N == Len(str[from])
           nm == [i \in 1 .. N |-> NameAt(from, i)]
           Next1(i, x) == SetValue(x, to, NameAt(from, i), str[from][i], TRUE)
           Made(f) == f = [i \in 0 .. N |-> IF i = 0 THEN World ELSE Next1(i, f[i - 1])]
<1>1. N \in Nat
  <2>1. str[from] \in Seq(Text)
    BY WorldFields DEF Inv, Sound, Tree, Good, Worlds
  <2> QED BY <2>1
<1>2. PICK w, L, A : w = World /\ L = live /\ A = attached
  OBVIOUS
<1>3. Sound(w, L, A) /\ Naming(w, from, nm) /\ w.str = str
  BY <1>2, NamesAt, WorldFields DEF Inv
<1>4. ASSUME NEW f, Copying(w, from, to, nm, f)
      PROVE  \A i \in 0 .. N : CopiedFar(w, L, A, from, f[i])
  <2>1. PICK q : q = nm
    OBVIOUS
  <2> QED BY <1>2, <1>3, <1>4, <2>1, CopyAll
<1>5. \E f : Made(f)
  <2>1. PICK step : step = [i \in 1 .. N |-> [x \in Worlds |-> Next1(i, x)]]
    OBVIOUS
  <2>2. PICK f : Stages(f, N, w, step)
    BY <1>1, StagesExist
  <2>3. f[0] = w /\ \A i \in 1 .. N : f[i] = step[i][f[i - 1]]
    <3>1. 0 \in 0 .. N /\ \A i \in 1 .. N : i \in 0 .. N /\ i # 0
      BY <1>1
    <3> QED BY <2>2, <3>1 DEF Stages
  <2>4. \A i \in 1 .. N : f[i - 1] \in Worlds => f[i] = Next1(i, f[i - 1])
    BY <2>1, <2>3
  <2>5. Copying(w, from, to, nm, f)
    BY <1>3, <2>3, <2>4 DEF Copying, nm
  <2>6. \A i \in 0 .. N : f[i] \in Worlds
    BY <1>4, <2>5 DEF CopiedFar, Sound, Good
  <2>7. \A i \in 0 .. N : f[i] = IF i = 0 THEN World ELSE Next1(i, f[i - 1])
    <3> TAKE i \in 0 .. N
    <3>1. CASE i = 0
      BY <1>2, <2>3, <3>1
    <3>2. CASE i # 0
      <4>1. i \in 1 .. N /\ i - 1 \in 0 .. N
        BY <1>1, <3>2
      <4> QED BY <2>4, <2>6, <3>2, <4>1
    <3> QED BY <3>1, <3>2
  <2>8. f = [i \in 0 .. N |-> f[i]]
    BY <2>2 DEF Stages
  <2> HIDE DEF Next1
  <2>9. Made(f)
    BY <2>7, <2>8
  <2> QED BY <2>9
<1>6. PICK after : after = (CHOOSE f : Made(f))
  OBVIOUS
<1>7. Made(after)
  <2> HIDE DEF Made
  <2> QED BY <1>5, <1>6
<1>8. Copying(w, from, to, nm, after)
  <2> HIDE DEF Next1
  <2>1. \A i \in 0 .. N : after[i] = IF i = 0 THEN World ELSE Next1(i, after[i - 1])
    BY <1>7
  <2>2. 0 \in 0 .. N /\ \A i \in 1 .. N : i \in 0 .. N /\ i # 0
    BY <1>1
  <2>3. after[0] = w /\ \A i \in 1 .. N : after[i] = Next1(i, after[i - 1])
    BY <1>2, <2>1, <2>2
  <2> QED BY <1>3, <2>3 DEF Copying, Next1, nm
<1>9. Copied(from, to) = after[N]
  BY <1>6 DEF Copied, NameAt
<1> QED BY <1>1, <1>2, <1>4, <1>8, <1>9 DEF CopiedFar

-----------------------------------------------------------------------------
(* Several strings are counted at once.                                    *)

Takers(o, text, r, u) == {i \in DOMAIN text : r = RootOf(o) /\ text[i] = u}
Added(C, o, text) ==
  [x \in DOMAIN C |-> C[x] + Cardinality({i \in DOMAIN text : Shared(o, text[i]) = x})]
AnyDangling(C, o, text, b) == b /\ \E i \in DOMAIN text : C[Shared(o, text[i])] = 0

LEMMA AddedIs ==
  ASSUME NEW C \in Counts, NEW o, NEW text, IsFiniteSet(DOMAIN text)
  PROVE  /\ Added(C, o, text) \in Counts
         /\ \A r \in {Root, Proto}, u \in String :
              Added(C, o, text)[<<r, u>>] = C[<<r, u>>] + Cardinality(Takers(o, text, r, u))
<1> DEFINE At(x) == {i \in DOMAIN text : Shared(o, text[i]) = x}
<1>1. ASSUME NEW x PROVE Cardinality(At(x)) \in Nat
  <2>1. At(x) \subseteq DOMAIN text
    OBVIOUS
  <2> QED BY <2>1, FS_Subset, FS_CardinalityType
<1>2. DOMAIN C = {Root, Proto} \X String /\ \A x \in DOMAIN C : C[x] \in Int
  BY DEF Counts
<1>3. ASSUME NEW r \in {Root, Proto}, NEW u \in String
      PROVE  At(<<r, u>>) = Takers(o, text, r, u)
  BY DEF Takers, Shared
<1>4. \A x \in DOMAIN C : Added(C, o, text)[x] = C[x] + Cardinality(At(x))
  BY DEF Added
<1> HIDE DEF At
<1>5. \A r \in {Root, Proto}, u \in String : <<r, u>> \in DOMAIN C
  BY <1>2
<1>6. Added(C, o, text) \in Counts
  <2>1. \A x \in DOMAIN C : C[x] + Cardinality(At(x)) \in Int
    BY <1>1, <1>2
  <2>2. Added(C, o, text) = [x \in DOMAIN C |-> C[x] + Cardinality(At(x))]
    BY DEF Added, At
  <2> QED BY <1>2, <2>1, <2>2 DEF Counts
<1> QED BY <1>3, <1>4, <1>5, <1>6

LEMMA DupAllIs ==
  ASSUME NEW w \in Worlds, NEW o, NEW text, IsFiniteSet(DOMAIN text), NEW b \in BOOLEAN
  PROVE  Recounted(w, Added(w.ref, o, text), Also(w.bad, AnyDangling(w.ref, o, text, b)),
                   AgstrdupAll(w, o, text, b))
<1>1. PICK C, c : /\ C = Added(w.ref, o, text)
                  /\ c = Also(w.bad, AnyDangling(w.ref, o, text, b))
  OBVIOUS
<1>2. AgstrdupAll(w, o, text, b) = [w EXCEPT !.ref = C, !.bad = c]
  BY <1>1 DEF AgstrdupAll, Added, Also, AnyDangling
<1>3. C \in Counts
  <2>1. w.ref \in Counts
    BY DEF Worlds, Counts
  <2> QED BY <1>1, <2>1, AddedIs
<1>4. c \in BOOLEAN
  BY <1>1 DEF Also
<1>5. Recounted(w, C, c, AgstrdupAll(w, o, text, b))
  BY <1>2, <1>3, <1>4, Recounts
<1> QED BY <1>1, <1>5

-----------------------------------------------------------------------------
(* A new attribute.                                                        *)

Rooms == [Object -> Nat]

\* x is w but for the values, their arrays and bad.
Arrayed(w, S, R, b, x) ==
  /\ x \in Worlds
  /\ x.str = S /\ x.room = R /\ x.bad = b
  /\ x.dict = w.dict /\ x.ref = w.ref /\ x.view = w.view /\ x.nview = w.nview

LEMMA Arrays ==
  ASSUME NEW w \in Worlds, NEW S \in Strs, NEW R \in Rooms, NEW b \in BOOLEAN
  PROVE  /\ Arrayed(w, S, R, b, [w EXCEPT !.room = R, !.str = S, !.bad = b])
         /\ Arrayed(w, S, R, w.bad, [w EXCEPT !.str = S, !.room = R])
BY DEF Arrayed, Worlds, Strs, Rooms

\* Values that each of objs gets one more of.
Longer(S, objs, v) == [o \in Object |-> IF o \in objs THEN Append(S[o], v) ELSE S[o]]

LEMMA LongerIs ==
  ASSUME NEW S \in Strs, NEW objs, NEW v \in Text
  PROVE  /\ Longer(S, objs, v) \in Strs
         /\ \A o \in Object \ objs : Longer(S, objs, v)[o] = S[o]
         /\ \A o \in Object \cap objs :
              /\ Len(Longer(S, objs, v)[o]) = Len(S[o]) + 1
              /\ Longer(S, objs, v)[o][Len(S[o]) + 1] = v
         /\ \A o \in Object : \A i \in 1 .. Len(S[o]) : Longer(S, objs, v)[o][i] = S[o][i]
BY DEF Longer, Strs

Sharing(objs, ro, v, r, u) == {o \in objs : r = ro /\ v = u}

\* The counts of the values they get.
LEMMA ValGrows ==
  ASSUME NEW S \in Strs, NEW objs, objs \subseteq Object, NEW v \in Text, NEW ro,
         \A o \in objs : RootOf(o) = ro /\ Len(S[o]) + 1 <= Cardinality(Name),
         NEW r, NEW u
  PROVE  Cardinality(Val(Longer(S, objs, v), r, u))
           = Cardinality(Val(S, r, u)) + Cardinality(Sharing(objs, ro, v, r, u))
<1> DEFINE I == {o \in objs : r = ro /\ v = u}
<1>1. PICK T : T = Longer(S, objs, v)
  OBVIOUS
<1>2. /\ \A o \in Object \ objs : T[o] = S[o]
      /\ \A o \in objs : Len(T[o]) = Len(S[o]) + 1 /\ T[o][Len(S[o]) + 1] = v
      /\ \A o \in Object : \A i \in 1 .. Len(S[o]) : T[o][i] = S[o][i]
  BY <1>1, LongerIs
<1>3. \A o \in Object : Len(S[o]) \in Nat
  BY DEF Strs
<1>4. Cardinality(Name) \in Nat /\ IsFiniteSet(Object)
  BY Sizes
<1>5. IsFiniteSet(I)
  <2>1. I \subseteq Object
    OBVIOUS
  <2> QED BY <1>4, <2>1, FS_Subset
<1>6. PICK f : f = [o \in I |-> <<o, Len(S[o]) + 1>>]
  OBVIOUS
<1>7. ASSUME NEW x \in Val(S, r, u) PROVE x \in Val(T, r, u)
  <2>1. PICK o \in Object, i \in 1 .. Cardinality(Name) : x = <<o, i>> /\ RootOf(o) = r
    BY DEF Val, Places, Of
  <2>2. i <= Len(S[o]) /\ S[o][i] = u
    BY <2>1 DEF Val
  <2>3. i \in 1 .. Len(S[o]) /\ T[o][i] = u /\ i <= Len(T[o])
    <3>1. i \in 1 .. Len(S[o])
      BY <1>3, <1>4, <2>2
    <3>2. Len(T[o]) = Len(S[o]) \/ Len(T[o]) = Len(S[o]) + 1
      BY <1>2
    <3> QED BY <1>2, <1>3, <2>2, <3>1, <3>2
  <2> QED BY <2>1, <2>3 DEF Val, Places, Of
<1>8. ASSUME NEW o \in I PROVE f[o] \in Val(T, r, u) \ Val(S, r, u)
  <2>1. o \in objs /\ RootOf(o) = r /\ v = u
    OBVIOUS
  <2>2. f[o] = <<o, Len(S[o]) + 1>> /\ Len(S[o]) + 1 \in 1 .. Cardinality(Name)
    BY <1>3, <1>4, <1>6, <2>1
  <2>3. ~(Len(S[o]) + 1 <= Len(S[o]))
    BY <1>3, <2>1
  <2> QED BY <1>2, <2>1, <2>2, <2>3 DEF Val, Places, Of
<1>9. ASSUME NEW x \in Val(T, r, u) \ Val(S, r, u) PROVE \E o \in I : x = f[o]
  <2>1. PICK o \in Object, i \in 1 .. Cardinality(Name) : x = <<o, i>> /\ RootOf(o) = r
    BY DEF Val, Places, Of
  <2>2. i <= Len(T[o]) /\ T[o][i] = u
    BY <2>1 DEF Val
  <2>3. ~(i <= Len(S[o]) /\ S[o][i] = u)
    BY <2>1 DEF Val, Places, Of
  <2>4. o \in objs
    BY <1>2, <2>2, <2>3
  <2>5. i = Len(S[o]) + 1
    <3>1. ~(i <= Len(S[o]))
      <4>1. i <= Len(S[o]) => i \in 1 .. Len(S[o])
        BY <1>3, <1>4
      <4> QED BY <1>2, <2>2, <2>3, <4>1
    <3> QED BY <1>2, <1>3, <1>4, <2>2, <2>4, <3>1
  <2>6. o \in I /\ x = f[o]
    BY <1>2, <1>6, <2>1, <2>2, <2>4, <2>5
  <2> QED BY <2>6
<1>10. \A i, j \in I : f[i] = f[j] => i = j
  BY <1>6
<1>11. IsFiniteSet(Val(S, r, u)) /\ Val(S, r, u) \subseteq Val(T, r, u)
  BY <1>7, UsesFinite
<1> HIDE DEF I
<1>12. Cardinality(Val(T, r, u)) = Cardinality(Val(S, r, u)) + Cardinality(I)
  BY ONLY <1>5, <1>8, <1>9, <1>10, <1>11, Gains
<1> QED BY <1>1, <1>12 DEF I, Sharing

\* A dictionary that gets a symbol has one more.
LEMMA SizeGrows ==
  ASSUME NEW D, NEW E, NEW d \in Dict, NEW n \in Name, OnlyAt(D, E, d, n),
         D[d][n] = NULL, E[d][n] # NULL
  PROVE  /\ Size(E, d) = Size(D, d) + 1
         /\ \A e \in Dict : e # d => Size(E, e) = Size(D, e)
<1>1. PICK X : X = {m \in Name : D[d][m] # NULL}
  OBVIOUS
<1>2. {m \in Name : E[d][m] # NULL} = X \cup {n}
  BY <1>1 DEF OnlyAt
<1>3. n \notin X /\ IsFiniteSet(X)
  <2>1. X \subseteq Name /\ n \notin X
    BY <1>1
  <2> QED BY <2>1, Constants, FS_Subset
<1>4. Cardinality(X \cup {n}) = Cardinality(X) + 1
  BY <1>3, FS_AddElement
<1>5. ASSUME NEW e \in Dict, e # d PROVE Size(E, e) = Size(D, e)
  <2>1. {m \in Name : E[e][m] # NULL} = {m \in Name : D[e][m] # NULL}
    BY <1>5 DEF OnlyAt
  <2> QED BY <2>1 DEF Size
<1> QED BY <1>1, <1>2, <1>4, <1>5 DEF Size

\* A root gets an attribute, with the next number.
LEMMA SymbolsGrow ==
  ASSUME NEW D, D \in Dicts, NEW E, E \in Dicts, NEW L, SymbolsOK(D, L),
         NEW ro \in {Root, Proto}, ro \in L,
         NEW k \in Kind, NEW n \in Name, OnlyAt(D, E, <<ro, k>>, n),
         D[<<ro, k>>][n] = NULL, E[<<ro, k>>][n] # NULL,
         E[<<ro, k>>][n].id = Size(D, <<ro, k>>)
  PROVE  SymbolsOK(E, L)
<1>1. PICK d : d = <<ro, k>>
  OBVIOUS
<1>2. d \in Dict /\ ro \in Graph
  BY <1>1, Constants, DictDomain
<1>3. Size(E, d) = Size(D, d) + 1 /\ Size(D, d) \in Nat /\ \A e \in Dict : e # d => Size(E, e) = Size(D, e)
  BY <1>1, <1>2, SizeGrows, SizeType
<1>4. \A e \in Dict, m \in Name : E[e][m] # NULL => E[e][m].id \in Nat
  BY DEF Dicts, Sym
<1>5. \A e \in Dict, m \in Name : D[e][m] # NULL => D[e][m].id \in Nat
  BY DEF Dicts, Sym
<1>6. Numbered(E, d)
  <2>1. Numbered(D, d)
    BY <1>1 DEF SymbolsOK
  <2>2. \A m \in Name : m # n => E[d][m] = D[d][m]
    BY <1>1, <1>2 DEF OnlyAt
  <2>3. \A m \in Name : E[d][m] # NULL => E[d][m].id < Size(E, d)
    <3> TAKE m \in Name
    <3> SUFFICES ASSUME E[d][m] # NULL PROVE E[d][m].id < Size(E, d)
      OBVIOUS
    <3>1. CASE m = n
      BY <1>1, <1>3, <3>1
    <3>2. CASE m # n
      <4>1. D[d][m].id < Size(D, d) /\ D[d][m].id \in Nat /\ E[d][m] = D[d][m]
        BY <1>2, <1>5, <2>1, <2>2, <3>2 DEF Numbered
      <4> QED BY <1>3, <4>1
    <3> QED BY <3>1, <3>2
  <2>4. \A i \in 0 .. Size(E, d) - 1 : \E m \in Name : E[d][m] # NULL /\ E[d][m].id = i
    <3> TAKE i \in 0 .. Size(E, d) - 1
    <3>1. CASE i = Size(D, d)
      BY <1>1, <3>1
    <3>2. CASE i # Size(D, d)
      <4>1. i \in 0 .. Size(D, d) - 1
        BY <1>3, <3>2
      <4>2. PICK m \in Name : D[d][m] # NULL /\ D[d][m].id = i
        BY <2>1, <4>1 DEF Numbered
      <4>3. m # n
        BY <1>1, <4>2
      <4> QED BY <2>2, <4>2, <4>3
    <3> QED BY <3>1, <3>2
  <2>5. \A m, p \in Name : E[d][m] # NULL /\ E[d][p] # NULL /\ E[d][m].id = E[d][p].id => m = p
    <3>1. \A m \in Name : m # n /\ E[d][m] # NULL => E[d][m].id # E[d][n].id
      <4> TAKE m \in Name
      <4> SUFFICES ASSUME m # n, E[d][m] # NULL PROVE E[d][m].id # E[d][n].id
        OBVIOUS
      <4>1. D[d][m].id < Size(D, d) /\ D[d][m].id \in Nat /\ E[d][m] = D[d][m]
        BY <1>2, <1>5, <2>1, <2>2 DEF Numbered
      <4> QED BY <1>1, <1>3, <4>1
    <3> QED BY <2>1, <2>2, <3>1 DEF Numbered
  <2> QED BY <2>3, <2>4, <2>5 DEF Numbered
<1>7. ASSUME NEW r \in {Root, Proto}, NEW l \in Kind PROVE Numbered(E, <<r, l>>)
  <2>1. PICK e : e = <<r, l>>
    OBVIOUS
  <2>2. e \in Dict
    BY <2>1, Constants, DictDomain
  <2>3. CASE e = d
    BY <1>6, <2>1, <2>3
  <2>4. CASE e # d
    <3>1. \A m \in Name : E[e][m] = D[e][m]
      BY <1>1, <2>2, <2>4 DEF OnlyAt
    <3>2. Numbered(D, e) /\ Size(E, e) = Size(D, e)
      BY <1>3, <2>1, <2>2, <2>4 DEF SymbolsOK
    <3>3. Numbered(E, e)
      BY <3>1, <3>2 DEF Numbered
    <3> QED BY <2>1, <3>3
  <2> QED BY <2>3, <2>4
<1>8. ASSUME NEW h \in Graph \ L, NEW l \in Kind, NEW m \in Name PROVE E[<<h, l>>][m] = NULL
  <2>1. D[<<h, l>>][m] = NULL /\ h # ro
    BY DEF SymbolsOK
  <2>2. PICK e : e = <<h, l>>
    OBVIOUS
  <2>3. e \in Dict /\ e # d
    BY <1>1, <2>1, <2>2, DictDomain
  <2> QED BY <1>1, <2>1, <2>2, <2>3 DEF OnlyAt
<1>9. ASSUME NEW h \in L \cap Graph, NEW l \in Kind, NEW m \in Name, E[<<h, l>>][m] # NULL
      PROVE  E[Top(h, l)][m] # NULL /\ E[Top(h, l)][m].id = E[<<h, l>>][m].id
  <2>1. PICK e, t : e = <<h, l>> /\ t = Top(h, l)
    OBVIOUS
  <2>2. e \in Dict /\ t \in Dict /\ (e = d => t = d)
    <3>1. e = d => h = ro /\ l = k
      BY <1>1, <2>1
    <3>2. h = ro /\ l = k => t = d
      BY <1>1, <2>1, Roots DEF Top
    <3> QED BY <2>1, <3>1, <3>2, DictDomain
  <2>3. CASE e = d
    BY <1>9, <2>1, <2>2, <2>3
  <2>4. CASE e # d
    <3>1. E[e][m] = D[e][m]
      BY <1>1, <2>2, <2>4 DEF OnlyAt
    <3>2. D[t][m] # NULL /\ D[t][m].id = D[e][m].id
      BY <1>9, <2>1, <3>1 DEF SymbolsOK
    <3>3. <<t, m>> # <<d, n>>
      BY <1>1, <3>2
    <3>4. E[t][m] = D[t][m]
      BY <1>1, <2>2, <3>3 DEF OnlyAt
    <3> QED BY <2>1, <3>1, <3>2, <3>4
  <2> QED BY <2>3, <2>4
<1> QED BY <1>7, <1>8, <1>9 DEF SymbolsOK

LEMMA TakersAll ==
  ASSUME NEW o, NEW objs, NEW v, NEW r, NEW u
  PROVE  Takers(o, [e \in objs |-> v], r, u) = Sharing(objs, RootOf(o), v, r, u)
<1>1. PICK text : text = [e \in objs |-> v]
  OBVIOUS
<1>2. DOMAIN text = objs /\ \A e \in objs : text[e] = v
  BY <1>1
<1>3. Takers(o, text, r, u) = Sharing(objs, RootOf(o), v, r, u)
  BY <1>2 DEF Takers, Sharing
<1> QED BY <1>1, <1>3

\* x is w after its root has got attribute n.
GlobalNew(w, L, ro, k, n, v, b, x) ==
  /\ Good(x, L)
  /\ OnlyAt(w.dict, x.dict, <<ro, k>>, n)
  /\ x.dict[<<ro, k>>][n] # NULL
  /\ x.dict[<<ro, k>>][n].def = v
  /\ x.dict[<<ro, k>>][n].id = Size(w.dict, <<ro, k>>)
  /\ x.str = Longer(w.str, {o \in L : TopDict(o) = <<ro, k>>}, v)
  /\ x.bad = Also(w.bad, Dangling(More(w.ref, ro, n), ro, v, b))

LEMMA NewGlobalIs ==
  ASSUME NEW w, NEW L, Good(w, L), L \subseteq Object, NEW g \in Graph,
         NEW ro, ro = RootOf(g), ro \in L, NEW k \in Kind, NEW n \in Name,
         w.dict[<<ro, k>>][n] = NULL, NEW v \in Text, NEW b \in BOOLEAN,
         Visited(g, k) = {o \in L : TopDict(o) = <<ro, k>>}
  PROVE  GlobalNew(w, L, ro, k, n, v, b, NewGlobal(w, g, k, n, v, b))
<1>1. PICK top, objs, id : /\ top = <<ro, k>> /\ objs = Visited(g, k)
                           /\ id = Size(w.dict, top)
  OBVIOUS
<1>2. /\ top \in Dict /\ top[1] = ro /\ ro \in {Root, Proto} /\ RootOf(ro) = ro /\ ro \in Graph
      /\ id \in Nat
  BY <1>1, Roots, Constants, DictDomain, SizeType
<1>3. /\ w \in Worlds /\ Counted(w.dict, w.str, w.ref) /\ w.str \in Strs /\ w.room \in Rooms
      /\ w.dict \in Dicts /\ SymbolsOK(w.dict, L) /\ ValuesOK(w.dict, w.str, w.room, L)
  BY DEF Good, Worlds, Strs, Rooms, Dicts
<1>4. PICK w1 : w1 = Insert(w, top, n, id, v, b)
  OBVIOUS
<1>5. /\ w1 \in Worlds /\ w1.dict = SetDict(w.dict, top, n, Symbol(id, v))
      /\ w1.bad = Also(w.bad, Dangling(More(w.ref, ro, n), ro, v, b))
      /\ w1.str = w.str /\ w1.room = w.room /\ w1.view = w.view /\ w1.nview = w.nview
      /\ Counted(w1.dict, w.str, w1.ref)
  BY <1>1, <1>2, <1>3, <1>4, InsertFields
<1>6. PICK E : E = w1.dict
  OBVIOUS
<1>7. /\ E \in Dicts /\ OnlyAt(w.dict, E, top, n)
      /\ E[top][n] # NULL /\ E[top][n].def = v /\ E[top][n].id = id
  BY <1>2, <1>3, <1>5, <1>6, SymbolIs, SetDictIs
<1>8. PICK text : text = [o \in objs |-> v]
  OBVIOUS
<1>9. objs \subseteq Object /\ IsFiniteSet(objs) /\ DOMAIN text = objs
  <2>1. objs \subseteq Object
    BY <1>1
  <2> QED BY <1>8, <2>1, Sizes, FS_Subset
<1>10. PICK w2 : w2 = AgstrdupAll(w1, g, text, FALSE)
  OBVIOUS
<1>11. Recounted(w1, Added(w1.ref, g, text), Also(w1.bad, AnyDangling(w1.ref, g, text, FALSE)), w2)
  BY <1>5, <1>9, <1>10, DupAllIs
<1>12. /\ w2 \in Worlds /\ w2.ref = Added(w1.ref, g, text) /\ w2.bad = w1.bad
       /\ w2.dict = E /\ w2.str = w.str /\ w2.room = w.room
       /\ w2.view = w.view /\ w2.nview = w.nview
  <2>1. w1.bad \in BOOLEAN
    BY <1>5 DEF Worlds
  <2> QED BY <1>5, <1>6, <1>11, <2>1 DEF Recounted, Also, AnyDangling
<1>13. PICK S, R, c : /\ S = Longer(w.str, objs, v)
                      /\ R = [o \in Object |-> IF o \in objs THEN Resized(id, w.room[o]) ELSE w.room[o]]
                      /\ c = Also(w1.bad, \E o \in objs : id # Len(w.str[o]) \/ id >= Resized(id, w.room[o]))
  OBVIOUS
<1>14. PICK x : x = NewGlobal(w, g, k, n, v, b)
  OBVIOUS
<1>15. x = [w2 EXCEPT !.room = R, !.str = S, !.bad = c]
  <2>1. x = [w2 EXCEPT !.room = [o \in Object |-> IF o \in objs THEN Resized(id, @[o]) ELSE @[o]],
                       !.str = [o \in Object |-> IF o \in objs THEN Append(@[o], v) ELSE @[o]],
                       !.bad = @ \/ \E o \in objs : id # Len(w.str[o]) \/ id >= Resized(id, w.room[o])]
    BY <1>1, <1>4, <1>8, <1>10, <1>14, DictSizeIs DEF NewGlobal
  <2>2. [o \in Object |-> IF o \in objs THEN Resized(id, w2.room[o]) ELSE w2.room[o]] = R
    BY <1>12, <1>13
  <2>3. [o \in Object |-> IF o \in objs THEN Append(w2.str[o], v) ELSE w2.str[o]] = S
    BY <1>12, <1>13 DEF Longer
  <2>4. (w2.bad \/ \E o \in objs : id # Len(w.str[o]) \/ id >= Resized(id, w.room[o])) = c
    BY <1>12, <1>13 DEF Also
  <2> QED BY <2>1, <2>2, <2>3, <2>4
<1>16. /\ S \in Strs
       /\ \A o \in Object \ objs : S[o] = w.str[o]
       /\ \A o \in objs : Len(S[o]) = Len(w.str[o]) + 1
  BY <1>3, <1>9, <1>13, LongerIs
<1>17. /\ R \in Rooms
       /\ \A o \in objs : R[o] \in Nat /\ R[o] > id /\ R[o] >= MinAttr
       /\ \A o \in Object \ objs : R[o] = w.room[o]
  <2>1. \A o \in objs : o \in Object /\ w.room[o] \in Nat /\ w.room[o] >= MinAttr
    BY <1>1, <1>3, <1>9 DEF ValuesOK, Rooms
  <2>2. \A o \in objs : /\ Resized(id, w.room[o]) \in Nat /\ Resized(id, w.room[o]) > id
                        /\ Resized(id, w.room[o]) >= MinAttr
    BY <1>2, <2>1, Constants DEF Resized
  <2> QED BY <1>3, <1>13, <2>1, <2>2 DEF Rooms
<1>18. \A o \in objs : Len(w.str[o]) = id /\ o \in L
  BY <1>1, <1>3 DEF ValuesOK
<1>19. c = w1.bad
  <2>1. w1.bad \in BOOLEAN
    BY <1>5 DEF Worlds
  <2>2. \A o \in objs : Resized(id, w.room[o]) = R[o]
    BY <1>9, <1>13
  <2>3. \A o \in objs : ~(id # Len(w.str[o]) \/ id >= Resized(id, w.room[o]))
    BY <1>2, <1>17, <1>18, <2>2
  <2> QED BY <1>13, <2>1, <2>3 DEF Also
<1>20. /\ x \in Worlds /\ x.str = S /\ x.room = R /\ x.bad = w1.bad
       /\ x.dict = E /\ x.ref = Added(w1.ref, g, text) /\ x.view = w.view /\ x.nview = w.nview
  <2>1. c \in BOOLEAN
    BY <1>5, <1>19 DEF Worlds
  <2>2. Arrayed(w2, S, R, c, x)
    BY <1>12, <1>15, <1>16, <1>17, <2>1, Arrays
  <2> QED BY <1>12, <1>19, <2>2 DEF Arrayed
<1>21. Size(E, top) = id + 1 /\ \A e \in Dict : e # top => Size(E, e) = Size(w.dict, e)
  <2>1. w.dict[top][n] = NULL
    BY <1>1
  <2>2. PICK D : D = w.dict
    OBVIOUS
  <2>3. /\ Size(E, top) = Size(D, top) + 1
        /\ \A e \in Dict : e # top => Size(E, e) = Size(D, e)
    BY <1>2, <1>7, <2>1, <2>2, SizeGrows
  <2> QED BY <1>1, <2>2, <2>3
<1>22. SymbolsOK(E, L)
  BY <1>1, <1>2, <1>3, <1>7, SymbolsGrow
<1>23. ValuesOK(E, S, R, L)
  <2>1. ASSUME NEW o \in L
        PROVE  Len(S[o]) = Size(E, TopDict(o)) /\ Len(S[o]) <= R[o] /\ MinAttr <= R[o]
    <3>1. CASE o \in objs
      <4>1. Len(S[o]) = id + 1 /\ TopDict(o) = top
        BY <1>1, <1>16, <1>18, <3>1
      <4>2. R[o] \in Nat /\ R[o] > id
        BY <1>17, <3>1
      <4> QED BY <1>2, <1>17, <1>21, <3>1, <4>1, <4>2
    <3>2. CASE o \notin objs
      <4>1. o \in Object \ objs /\ TopDict(o) # top /\ TopDict(o) \in Dict
        BY <1>1, <3>2, Roots
      <4>2. S[o] = w.str[o] /\ R[o] = w.room[o] /\ Size(E, TopDict(o)) = Size(w.dict, TopDict(o))
        BY <1>16, <1>17, <1>21, <4>1
      <4> QED BY <1>3, <4>2 DEF ValuesOK
    <3> QED BY <3>1, <3>2
  <2>2. ASSUME NEW o \in Object \ L PROVE S[o] = <<>>
    <3>1. o \in Object \ objs
      BY <1>18
    <3> QED BY <1>3, <1>16, <3>1 DEF ValuesOK
  <2> QED BY <2>1, <2>2 DEF ValuesOK
<1>24. Counted(E, S, x.ref)
  <2> SUFFICES ASSUME NEW r \in {Root, Proto}, NEW u \in String
               PROVE  x.ref[<<r, u>>] = Uses(E, S, r, u)
    BY DEF Counted
  <2>1. w1.ref[<<r, u>>] = Uses(E, w.str, r, u)
    BY <1>5, <1>6 DEF Counted
  <2>2. x.ref[<<r, u>>] = w1.ref[<<r, u>>] + Cardinality(Takers(g, text, r, u))
    <3>1. w1.ref \in Counts
      BY <1>5 DEF Worlds, Counts
    <3> QED BY <1>9, <1>20, <3>1, AddedIs
  <2>3. Takers(g, text, r, u) = Sharing(objs, ro, v, r, u)
    BY <1>8, TakersAll
  <2>4. \A o \in objs : RootOf(o) = ro /\ Len(w.str[o]) + 1 <= Cardinality(Name)
    <3> TAKE o \in objs
    <3>1. TopDict(o) = top /\ Len(w.str[o]) = id
      BY <1>1, <1>18
    <3>2. id + 1 <= Cardinality(Name)
      BY <1>21, SizeType
    <3> QED BY <1>1, <3>1, <3>2, Roots
  <2>5. Cardinality(Val(S, r, u))
          = Cardinality(Val(w.str, r, u)) + Cardinality(Sharing(objs, ro, v, r, u))
    BY <1>3, <1>9, <1>13, <2>4, ValGrows
  <2>6. /\ Uses(E, S, r, u) = Cardinality(Val(S, r, u))
               + Cardinality(Def(E, r, u)) + Cardinality(Nam(E, r, u))
        /\ Uses(E, w.str, r, u) = Cardinality(Val(w.str, r, u))
               + Cardinality(Def(E, r, u)) + Cardinality(Nam(E, r, u))
    BY UsesSum
  <2>7. /\ Cardinality(Val(w.str, r, u)) \in Nat /\ Cardinality(Val(S, r, u)) \in Nat
        /\ Cardinality(Def(E, r, u)) \in Nat /\ Cardinality(Nam(E, r, u)) \in Nat
        /\ Cardinality(Sharing(objs, ro, v, r, u)) \in Nat
    <3>1. Sharing(objs, ro, v, r, u) \subseteq objs
      BY DEF Sharing
    <3> QED BY <1>9, <3>1, UsesFinite, FS_Subset, FS_CardinalityType
  <2> QED BY <2>1, <2>2, <2>3, <2>5, <2>6, <2>7
<1>25. Good(x, L)
  BY <1>20, <1>22, <1>23, <1>24 DEF Good
<1> QED BY <1>1, <1>5, <1>7, <1>13, <1>14, <1>20, <1>25 DEF GlobalNew

-----------------------------------------------------------------------------
(* The graphs below one.                                                   *)

LEMMA BelowSelf == ASSUME NEW g \in Graph PROVE g \in Below(g)
BY ReachStart DEF Below

LEMMA BelowGraphs == ASSUME NEW g PROVE Below(g) \subseteq Graph
BY ReachIn DEF Below

LEMMA BelowDown ==
  ASSUME attached \subseteq Graph, NEW g, NEW h \in attached, NEW p \in Below(g), p = Parent[h]
  PROVE  h \in Below(g)
<1>1. PICK step : step = {x \in Graph \X attached : x[1] = Parent[x[2]]}
  OBVIOUS
<1>2. PICK start : start = {g}
  OBVIOUS
<1>3. p \in Reach(Graph, start, step) /\ p \in Graph
  BY <1>1, <1>2, BelowGraphs DEF Below
<1>4. <<p, h>> \in step /\ h \in Graph
  BY <1>1, <1>3
<1>5. h \in Reach(Graph, start, step)
  BY <1>3, <1>4, ReachClosed
<1> QED BY <1>1, <1>2, <1>5 DEF Below

LEMMA BelowWithin ==
  ASSUME attached \subseteq Graph, NEW g \in Graph, NEW T, g \in T,
         \A h \in attached : Parent[h] \in T => h \in T
  PROVE  Below(g) \subseteq T
<1>1. PICK step : step = {x \in Graph \X attached : x[1] = Parent[x[2]]}
  OBVIOUS
<1>2. PICK start : start = {g}
  OBVIOUS
<1>3. step \in SUBSET (Graph \X Graph) /\ start \in SUBSET Graph /\ start \subseteq T
  BY <1>1, <1>2
<1>4. \A x \in step : x[1] \in T => x[2] \in T
  BY <1>1
<1>5. Reach(Graph, start, step) \subseteq T
  BY <1>3, <1>4, ReachLeast
<1> QED BY <1>1, <1>2, <1>5 DEF Below

\* What is found below a graph that the way up from h comes through, h itself.
LEMMA BelowAll ==
  ASSUME Tree(live, attached), NEW g \in Graph, Outside(live, attached) \subseteq {g},
         NEW h, NEW q, Ancestry(live, q, h), NEW j \in 1 .. Len(q), q[j] \in Below(g)
  PROVE  h \in Below(g)
<1>1. /\ q \in Seq(Graph) /\ Len(q) \in Nat /\ q[1] = h
      /\ \A i \in 1 .. Len(q) : q[i] \in live /\ q[i] \in Graph
      /\ \A i \in 1 .. Len(q) - 1 : q[i] \notin {Root, Proto} /\ Parent[q[i]] = q[i + 1]
  BY DEF Ancestry
<1>2. PICK I : I = {i \in 1 .. Len(q) : q[i] \in Below(g)}
  OBVIOUS
<1>3. I \in SUBSET Nat /\ I # {}
  BY <1>1, <1>2
<1>4. PICK i \in I : \A l \in I : i <= l
  BY <1>3, NatLeast
<1>5. i \in 1 .. Len(q) /\ q[i] \in Below(g)
  BY <1>2, <1>4
<1>6. CASE i = 1
  BY <1>1, <1>5, <1>6
<1>7. CASE i # 1
  <2>1. i - 1 \in 1 .. Len(q) /\ i - 1 \in 1 .. Len(q) - 1 /\ (i - 1) + 1 = i /\ ~(i <= i - 1)
    BY <1>1, <1>5, <1>7
  <2>2. i - 1 \notin I
    BY <1>4, <2>1
  <2>3. PICK e : e = q[i - 1]
    OBVIOUS
  <2>4. e \in live /\ e \in Graph /\ e \notin {Root, Proto} /\ Parent[e] = q[i]
    BY <1>1, <2>1, <2>3
  <2>5. e \notin Below(g)
    BY <1>2, <2>1, <2>2, <2>3
  <2>6. e # g
    BY <2>5, BelowSelf
  <2>7. e \in attached /\ attached \subseteq Graph
    BY <2>4, <2>6 DEF Outside, Tree
  <2>8. e \in Below(g)
    BY <1>5, <2>4, <2>7, BelowDown
  <2> QED BY <2>5, <2>8
<1> QED BY <1>6, <1>7

LEMMA BelowRoot ==
  ASSUME Tree(live, attached), Outside(live, attached) = {}, NEW r \in {Root, Proto}, r \in live
  PROVE  Below(r) = {h \in live \cap Graph : RootOf(h) = r}
<1>1. attached \subseteq (live \cap Graph) \ {Root, Proto} /\ r \in Graph /\ attached \subseteq Graph
  BY Constants DEF Tree
<1>2. ASSUME NEW h \in live \cap Graph, RootOf(h) = r PROVE h \in Below(r)
  <2>1. PICK q : Ancestry(live, q, h)
    BY DEF Tree, Rooted
  <2>2. PICK j : j = Len(q)
    OBVIOUS
  <2>3. j \in 1 .. Len(q) /\ q[j] = r
    <3>1. Len(q) \in Nat /\ Len(q) >= 1
      BY <2>1 DEF Ancestry
    <3> QED BY <1>2, <2>1, <2>2, <3>1 DEF Ancestry
  <2>4. q[j] \in Below(r)
    BY <1>1, <2>3, BelowSelf
  <2> QED BY <1>1, <2>1, <2>3, <2>4, BelowAll
<1>3. Below(r) \subseteq {h \in live \cap Graph : RootOf(h) = r}
  <2>1. PICK T : T = {h \in live \cap Graph : RootOf(h) = r}
    OBVIOUS
  <2>2. r \in T
    BY <1>1, <2>1, Roots
  <2>3. ASSUME NEW h \in attached, Parent[h] \in T PROVE h \in T
    <3>1. RootOf(h) = Root /\ h \in live \cap Graph
      BY <1>1 DEF RootOf
    <3>2. Parent[h] # Proto
      BY <1>1, Constants
    <3>3. r = Root
      BY <2>1, <2>3, <3>2, Roots
    <3> QED BY <2>1, <3>1, <3>3
  <2> QED BY <1>1, <2>1, <2>2, <2>3, BelowWithin
<1> QED BY <1>2, <1>3

LEMMA VisitedIs ==
  ASSUME Tree(live, attached), Outside(live, attached) = {},
         NEW g \in live \cap Graph, NEW k \in Kind
  PROVE  /\ Visited(g, k) = {o \in live : TopDict(o) = <<RootOf(g), k>>}
         /\ RootOf(g) \in live
<1>1. PICK r \in {Root, Proto} : r = RootOf(g)
  BY Roots
<1>2. r \in live
  <2>1. PICK q : Ancestry(live, q, g)
    BY DEF Tree, Rooted
  <2>2. Len(q) \in 1 .. Len(q)
    BY <2>1 DEF Ancestry
  <2> QED BY <1>1, <2>1, <2>2 DEF Ancestry
<1>3. \A o : TopDict(o) = <<r, k>> <=> RootOf(o) = r /\ KindOf(o) = k
  BY Roots
<1>4. live \subseteq Object
  BY DEF Tree
<1>5. CASE k = "node"
  <2>1. \A o \in live : KindOf(o) = "node" <=> o \in Node
    BY <1>4, Constants DEF KindOf, Object
  <2>2. \A o \in Node : RootOf(o) = Root
    BY Roots
  <2>3. Visited(g, k) = IF g = Proto THEN {} ELSE Node \cap live
    BY <1>5 DEF Visited
  <2>4. r = Root <=> g # Proto
    BY <1>1, Roots, Constants
  <2>5. CASE g = Proto
    <3>1. \A o \in live : ~(RootOf(o) = r /\ KindOf(o) = k)
      BY <1>5, <2>1, <2>2, <2>4, <2>5
    <3> QED BY <1>1, <1>2, <1>3, <2>3, <2>5, <3>1
  <2>6. CASE g # Proto
    <3>1. \A o \in live : RootOf(o) = r /\ KindOf(o) = k <=> o \in Node
      BY <1>5, <2>1, <2>2, <2>4, <2>6
    <3> QED BY <1>1, <1>2, <1>3, <2>3, <2>6, <3>1
  <2> QED BY <2>5, <2>6
<1>6. CASE k = "graph"
  <2>1. \A o \in live : KindOf(o) = "graph" <=> o \in Graph
    BY <1>4, Constants DEF KindOf, Object
  <2>2. Visited(g, k) = Below(r)
    BY <1>1, <1>6 DEF Visited
  <2>3. Below(r) = {h \in live \cap Graph : RootOf(h) = r}
    BY <1>2, BelowRoot
  <2>4. \A o \in live : TopDict(o) = <<r, k>> <=> o \in Graph /\ RootOf(o) = r
    BY <1>3, <1>6, <2>1
  <2> QED BY <1>1, <1>2, <2>2, <2>3, <2>4
<1> QED BY <1>5, <1>6 DEF Kind

-----------------------------------------------------------------------------
(* agattr with a value.                                                    *)

LEMMA LocalElse ==
  ASSUME NEW w, NEW L, Good(w, L), NEW E, SameTops(w.dict, E),
         NEW g \in Graph, NEW k \in Kind, NEW n \in Name, OnlyAt(w.dict, E, <<g, k>>, n),
         LocalBut(w.dict, w.str, {})
  PROVE  /\ LocalBut(E, w.str, {<<g, n>>})
         /\ k = "node" => LocalBut(E, w.str, {})
<1>1. ASSUME NEW h \in Graph, NEW m \in Name, <<<<h, "graph">>, m>> # <<<<g, k>>, n>>
      PROVE  Agrees(E, w.str, h, m)
  <2> SUFFICES ASSUME E[<<h, "graph">>][m] # NULL
               PROVE  E[<<h, "graph">>][m].def = w.str[h][Index(E, h, m)]
    BY DEF Agrees
  <2>1. <<h, "graph">> \in Dict
    BY DictDomain DEF Kind
  <2>2. E[<<h, "graph">>][m] = w.dict[<<h, "graph">>][m]
    BY <1>1, <2>1 DEF OnlyAt
  <2>3. Agrees(w.dict, w.str, h, m)
    BY LocalButIs
  <2>4. w.dict[TopDict(h)][m] # NULL
    BY <2>2, OwnDeclared
  <2>5. Index(E, h, m) = Index(w.dict, h, m)
    BY <2>4, SameTopsIndex
  <2> QED BY <2>2, <2>3, <2>5 DEF Agrees
<1>2. LocalBut(E, w.str, {<<g, n>>})
  <2>1. \A h \in Graph, m \in Name : <<h, m>> \notin {<<g, n>>} => Agrees(E, w.str, h, m)
    BY <1>1
  <2> QED BY <2>1, LocalButIs
<1>3. ASSUME k = "node" PROVE LocalBut(E, w.str, {})
  <2>1. \A h \in Graph, m \in Name : Agrees(E, w.str, h, m)
    BY <1>1, <1>3
  <2> QED BY <2>1, LocalButIs
<1> QED BY <1>2, <1>3

\* Of what a new attribute does, what is needed afterwards.
LEMMA LocalNew ==
  ASSUME NEW w, NEW L, Good(w, L), L \subseteq Object, NEW ro \in {Root, Proto}, ro \in L,
         NEW k \in Kind, NEW n \in Name, w.dict[<<ro, k>>][n] = NULL, NEW v \in Text,
         NEW b, NEW x, GlobalNew(w, L, ro, k, n, v, b, x), LocalBut(w.dict, w.str, {})
  PROVE  LocalBut(x.dict, x.str, {})
<1> SUFFICES ASSUME NEW h \in Graph, NEW m \in Name, x.dict[<<h, "graph">>][m] # NULL
             PROVE  x.dict[<<h, "graph">>][m].def = x.str[h][Index(x.dict, h, m)]
  BY LocalButIs DEF Agrees
<1>1. PICK top, D, E, S, objs : /\ top = <<ro, k>> /\ D = w.dict /\ E = x.dict /\ S = w.str
                                /\ objs = {o \in L : TopDict(o) = top}
  OBVIOUS
<1>2. /\ OnlyAt(D, E, top, n) /\ E[top][n] # NULL /\ E[top][n].def = v
      /\ E[top][n].id = Size(D, top) /\ x.str = Longer(S, objs, v)
  BY <1>1 DEF GlobalNew
<1>3. S \in Strs /\ "graph" \in Kind /\ ValuesOK(D, S, w.room, L)
  BY <1>1 DEF Good, Worlds, Strs, Kind
<1>4. PICK d : d = <<h, "graph">>
  OBVIOUS
<1>5. d \in Dict /\ h \in Object
  BY <1>3, <1>4, DictDomain DEF Object
<1>6. CASE <<d, m>> = <<top, n>>
  <2>1. h = ro /\ m = n /\ TopDict(h) = top /\ h \in objs /\ h \in L
    BY <1>1, <1>4, <1>5, <1>6, Roots
  <2>2. Index(E, h, m) = Size(D, top) + 1 /\ Len(S[h]) = Size(D, top)
    BY <1>2, <1>3, <2>1 DEF Index, ValuesOK
  <2>3. x.str[h][Len(S[h]) + 1] = v
    BY <1>2, <1>3, <1>5, <2>1, LongerIs
  <2> QED BY <1>1, <1>2, <1>4, <1>6, <2>2, <2>3
<1>7. CASE <<d, m>> # <<top, n>>
  <2>1. E[d][m] = D[d][m]
    BY <1>2, <1>5, <1>7 DEF OnlyAt
  <2>2. h \in L /\ D[TopDict(h)][m] # NULL
    BY <1>1, <1>4, <2>1, OwnDeclared
  <2>3. PICK t \in Dict : t = TopDict(h)
    BY Roots
  <2>4. <<t, m>> # <<top, n>>
    BY <1>1, <2>2, <2>3
  <2>5. E[t][m] = D[t][m]
    BY <1>2, <2>3, <2>4 DEF OnlyAt
  <2>6. Index(E, h, m) = Index(D, h, m)
    BY <2>3, <2>5 DEF Index
  <2>7. PICK i : i = Index(D, h, m)
    OBVIOUS
  <2>8. i \in 1 .. Len(S[h])
    BY <1>1, <2>2, <2>7, IndexIs
  <2>9. x.str[h][i] = S[h][i]
    BY <1>2, <1>3, <1>5, <2>8, LongerIs
  <2>10. D[d][m] # NULL => D[d][m].def = S[h][i]
    BY <1>1, <1>4, <2>7, LocalButIs DEF Agrees
  <2> QED BY <1>1, <1>4, <2>1, <2>6, <2>7, <2>9, <2>10
<1> QED BY <1>6, <1>7

\* The symbol is set, and the value of g, for an attribute of graphs, is not yet.
Ready(w, L, A, g, k, n, v) ==
  /\ Almost(w, L, A, g, n)
  /\ k = "node" => LocalBut(w.dict, w.str, {})
  /\ k = "graph" =>
       /\ w.dict[TopDict(g)][n] # NULL
       /\ \E h \in Graph : /\ RootOf(h) = RootOf(g) /\ w.dict[<<h, "graph">>][n] # NULL
                           /\ w.dict[<<h, "graph">>][n].def = v

LEMMA ReadyRedefined ==
  ASSUME NEW w, NEW L, NEW A, Sound(w, L, A), NEW g \in L \cap Graph, NEW k \in Kind,
         NEW n \in Name, w.dict[<<g, k>>][n] # NULL, NEW v \in Text, NEW b \in BOOLEAN,
         ~PassesOwn /\ b => w.ref[<<RootOf(g), v>>] > One(v = w.dict[<<g, k>>][n].def)
  PROVE  Ready(Redefine(w, <<g, k>>, n, v, b), L, A, g, k, n, v)
<1>1. PICK d, s, x : d = <<g, k>> /\ s = w.dict[d][n].def /\ x = Redefine(w, d, n, v, b)
  OBVIOUS
<1>2. d \in Dict /\ d[1] = g
  BY <1>1, DictDomain
<1>3. Good(w, L) /\ Tree(L, A) /\ LocalBut(w.dict, w.str, {}) /\ w.ref \in Counts
  BY DEF Sound, Good, Worlds, Counts
<1>4. /\ Good(x, L) /\ SameShape(w.dict, x.dict) /\ OnlyAt(w.dict, x.dict, d, n)
      /\ x.dict[d][n].def = v /\ x.str = w.str
      /\ x.bad = Also(w.bad, Dangling(Less(w.ref, g, s), g, v, b))
  BY <1>1, <1>2, <1>3, RedefineIs
<1>5. SameTops(w.dict, x.dict)
  BY <1>4, ShapeTops
<1>6. LocalBut(x.dict, x.str, {<<g, n>>}) /\ (k = "node" => LocalBut(x.dict, x.str, {}))
  BY <1>1, <1>3, <1>4, <1>5, LocalElse
<1>7. s \in String /\ v \in String
  BY <1>1, <1>3, DefHeld DEF String
<1>8. ~PassesOwn => ~x.bad
  <2> SUFFICES ASSUME ~PassesOwn PROVE ~x.bad
    OBVIOUS
  <2>1. ~Dangling(Less(w.ref, g, s), g, v, b)
    <3>1. CASE b
      <4>1. w.ref[<<RootOf(g), v>>] > One(v = s)
        BY <1>1, <3>1
      <4> QED BY <1>3, <1>7, <4>1, HeldTwice
    <3>2. CASE ~b
      BY <3>2 DEF Dangling
    <3> QED BY <3>1, <3>2
  <2> QED BY <1>4, <2>1 DEF Sound, Also
<1>9. x.dict[d][n] # NULL
  BY <1>1, <1>2, <1>4 DEF SameShape
<1>10. k = "graph" => x.dict[TopDict(g)][n] # NULL
  BY <1>1, <1>4, <1>9, OwnDeclared
<1> QED BY <1>1, <1>3, <1>4, <1>6, <1>8, <1>9, <1>10 DEF Ready, Almost

LEMMA ReadyInserted ==
  ASSUME NEW w, NEW L, NEW A, Sound(w, L, A),
         NEW g \in (L \cap Graph) \ {Root, Proto}, NEW k \in Kind,
         NEW n \in Name, w.dict[<<g, k>>][n] = NULL, w.dict[Top(g, k)][n] # NULL,
         NEW i, i = w.dict[Top(g, k)][n].id, NEW v \in Text, NEW b \in BOOLEAN,
         b => w.ref[<<RootOf(g), v>>] > 0
  PROVE  Ready(Insert(w, <<g, k>>, n, i, v, b), L, A, g, k, n, v)
<1>1. PICK d, x : d = <<g, k>> /\ x = Insert(w, d, n, i, v, b)
  OBVIOUS
<1>2. d \in Dict /\ d[1] = g
  BY <1>1, DictDomain
<1>3. Good(w, L) /\ Tree(L, A) /\ LocalBut(w.dict, w.str, {}) /\ w.ref \in Counts
  BY DEF Sound, Good, Worlds, Counts
<1>4. /\ Good(x, L) /\ OnlyAt(w.dict, x.dict, d, n) /\ x.dict[d][n] # NULL
      /\ x.dict[d][n].def = v /\ x.str = w.str
      /\ x.bad = Also(w.bad, Dangling(More(w.ref, g, n), g, v, b))
  BY <1>1, <1>3, InsertIs
<1>5. SameTops(w.dict, x.dict)
  BY <1>1, <1>4, BelowTops
<1>6. LocalBut(x.dict, x.str, {<<g, n>>}) /\ (k = "node" => LocalBut(x.dict, x.str, {}))
  BY <1>1, <1>3, <1>4, <1>5, LocalElse
<1>7. n \in String /\ v \in String
  BY DEF String
<1>8. ~PassesOwn => ~x.bad
  <2> SUFFICES ASSUME ~PassesOwn PROVE ~x.bad
    OBVIOUS
  <2>1. ~Dangling(More(w.ref, g, n), g, v, b)
    <3>1. CASE b
      BY <1>3, <1>7, <3>1, HeldMore
    <3>2. CASE ~b
      BY <3>2 DEF Dangling
    <3> QED BY <3>1, <3>2
  <2> QED BY <1>4, <2>1 DEF Sound, Also
<1>9. ASSUME k = "graph" PROVE x.dict[TopDict(g)][n] # NULL
  <2>1. x.dict[<<g, "graph">>][n] # NULL
    BY <1>1, <1>4, <1>9
  <2> QED BY <1>4, <2>1, OwnDeclared
<1> QED BY <1>1, <1>3, <1>4, <1>6, <1>8, <1>9 DEF Ready, Almost

LEMMA ReadyNew ==
  ASSUME NEW w, NEW L, NEW A, Sound(w, L, A), NEW g \in L \cap Graph, NEW k \in Kind,
         NEW ro, ro = RootOf(g), ro \in L,
         NEW n \in Name, w.dict[<<ro, k>>][n] = NULL, NEW v \in Text, NEW b \in BOOLEAN,
         Visited(g, k) = {o \in L : TopDict(o) = <<ro, k>>},
         b => w.ref[<<ro, v>>] > 0
  PROVE  Ready(NewGlobal(w, g, k, n, v, b), L, A, g, k, n, v)
<1>1. PICK x : x = NewGlobal(w, g, k, n, v, b)
  OBVIOUS
<1>2. ro \in {Root, Proto} /\ ro \in Graph /\ RootOf(ro) = ro
  BY Roots, Constants
<1>3. Good(w, L) /\ Tree(L, A) /\ LocalBut(w.dict, w.str, {}) /\ w.ref \in Counts
      /\ L \subseteq Object
  BY DEF Sound, Tree, Good, Worlds, Counts
<1>4. GlobalNew(w, L, ro, k, n, v, b, x)
  BY <1>1, <1>3, NewGlobalIs
<1>5. /\ Good(x, L) /\ x.dict[<<ro, k>>][n] # NULL /\ x.dict[<<ro, k>>][n].def = v
      /\ x.bad = Also(w.bad, Dangling(More(w.ref, ro, n), ro, v, b))
  BY <1>4 DEF GlobalNew
<1>6. LocalBut(x.dict, x.str, {})
  BY <1>2, <1>3, <1>4, LocalNew
<1>7. n \in String /\ v \in String
  BY DEF String
<1>8. ~PassesOwn => ~x.bad
  <2> SUFFICES ASSUME ~PassesOwn PROVE ~x.bad
    OBVIOUS
  <2>1. ~Dangling(More(w.ref, ro, n), ro, v, b)
    <3>1. CASE b
      BY <1>2, <1>3, <1>7, <3>1, HeldMore
    <3>2. CASE ~b
      BY <3>2 DEF Dangling
    <3> QED BY <3>1, <3>2
  <2> QED BY <1>5, <2>1 DEF Sound, Also
<1>9. k = "graph" => TopDict(g) = <<ro, k>>
  BY Roots
<1>10. LocalBut(x.dict, x.str, {<<g, n>>})
  BY <1>6 DEF LocalBut
<1> QED BY <1>1, <1>2, <1>3, <1>5, <1>6, <1>8, <1>9, <1>10 DEF Ready, Almost

LEMMA ReadySet ==
  ASSUME NEW w, NEW L, NEW A, NEW g \in L \cap Graph, NEW k \in Kind, NEW n \in Name,
         NEW v \in Text, NEW b \in BOOLEAN, Ready(w, L, A, g, k, n, v)
  PROVE  Sound(IF k = "graph" THEN SetValue(w, g, n, v, b) ELSE w, L, A)
<1>1. Almost(w, L, A, g, n) /\ Good(w, L) /\ L \subseteq Object
  BY DEF Ready, Almost, Tree
<1>2. CASE k = "graph"
  <2>1. w.dict[TopDict(g)][n] # NULL
    BY <1>2 DEF Ready
  <2>2. PICK h \in Graph : /\ RootOf(h) = RootOf(g) /\ w.dict[<<h, "graph">>][n] # NULL
                           /\ w.dict[<<h, "graph">>][n].def = v
    BY <1>2 DEF Ready
  <2>3. PICK r, i, s : r = RootOf(g) /\ i = Index(w.dict, g, n) /\ s = w.str[g][i]
    OBVIOUS
  <2>4. r \in {Root, Proto} /\ i \in 1 .. Len(w.str[g]) /\ v \in String
    BY <1>1, <2>1, <2>3, Roots, IndexIs DEF String
  <2>5. <<g, i>> \in Val(w.str, r, s)
    BY <1>1, <2>3, <2>4, ValueHeld
  <2>6. <<<<h, "graph">>, n>> \in Def(w.dict, r, v)
    BY <1>1, <2>2, <2>3, DefHeld DEF Kind
  <2>7. /\ w.ref[<<r, v>>] = Cardinality(Val(w.str, r, v)) + Cardinality(Def(w.dict, r, v))
                               + Cardinality(Nam(w.dict, r, v))
        /\ Cardinality(Val(w.str, r, v)) \in Nat /\ IsFiniteSet(Val(w.str, r, v))
        /\ Cardinality(Def(w.dict, r, v)) \in Nat /\ IsFiniteSet(Def(w.dict, r, v))
        /\ Cardinality(Nam(w.dict, r, v)) \in Nat
    BY <1>1, <2>4, CountIs
  <2>8. Cardinality(Def(w.dict, r, v)) > 0
    BY <2>6, <2>7, CountOne
  <2>9. w.ref[<<r, v>>] > One(v = s)
    <3>1. CASE v = s
      <4>1. Cardinality(Val(w.str, r, v)) > 0
        BY <2>5, <2>7, <3>1, CountOne
      <4> QED BY <2>7, <2>8, <3>1, <4>1 DEF One
    <3>2. CASE v # s
      BY <2>7, <2>8, <3>2 DEF One
    <3> QED BY <3>1, <3>2
  <2>10. Sound(SetValue(w, g, n, v, b), L, A)
    BY <1>1, <2>1, <2>3, <2>9, SetStep
  <2> QED BY <1>2, <2>10
<1>3. CASE k # "graph"
  <2>1. k = "node"
    BY <1>3 DEF Kind
  <2>2. Sound(w, L, A)
    BY <1>1, <2>1 DEF Ready, Almost, Sound
  <2> QED BY <1>3, <2>2
<1> QED BY <1>2, <1>3

LEMMA SetattrIs ==
  ASSUME Inv, Outside(live, attached) = {}, NEW g \in live \cap Graph, NEW k \in Kind,
         NEW n \in Name, NEW v \in Text, NEW b \in BOOLEAN,
         b => ref[<<RootOf(g), v>>] > 0,
         ~PassesOwn /\ b /\ dict[<<g, k>>][n] # NULL =>
           ref[<<RootOf(g), v>>] > One(v = dict[<<g, k>>][n].def)
  PROVE  Sound(Setattr(g, k, n, v, b), live, attached)
<1>1. PICK w, L, A, d, ro : w = World /\ L = live /\ A = attached /\ d = <<g, k>> /\ ro = RootOf(g)
  OBVIOUS
<1>2. /\ Sound(w, L, A) /\ w.dict = dict /\ w.ref = ref /\ g \in L \cap Graph
      /\ b => w.ref[<<ro, v>>] > 0
  BY <1>1, WorldFields DEF Inv
<1>3. /\ w \in Worlds /\ L \subseteq Object /\ Rooted(L) /\ Looking(w.view, w.nview, L)
      /\ SymbolsOK(w.dict, L)
  BY <1>2 DEF Sound, Tree, Good
<1>4. Local(w, d) = w
  BY <1>1, <1>2, <1>3, LocalIs
<1>5. /\ ro \in L /\ Visited(g, k) = {o \in L : TopDict(o) = <<ro, k>>}
  <2>1. Tree(live, attached)
    BY <1>1, <1>2 DEF Sound
  <2> QED BY <1>1, <2>1, VisitedIs
<1>6. PICK up : up = Search(w, d, n)
  OBVIOUS
<1>7. /\ up = NULL <=> w.dict[Top(g, k)][n] = NULL
      /\ up # NULL => up.id = w.dict[Top(g, k)][n].id
  <2>1. Seen(w.view, L)
    BY <1>3, LookingSeen
  <2> QED BY <1>1, <1>2, <1>3, <1>6, <2>1, SearchIs
<1>8. PICK w2 : w2 = IF w.dict[d][n] # NULL THEN Redefine(w, d, n, v, b)
                     ELSE IF up # NULL THEN Insert(w, d, n, up.id, v, b)
                     ELSE NewGlobal(w, g, k, n, v, b)
  OBVIOUS
<1>9. Setattr(g, k, n, v, b) = IF k = "graph" THEN SetValue(w2, g, n, v, b) ELSE w2
  BY <1>1, <1>4, <1>6, <1>8 DEF Setattr
<1>10. Top(g, k) = <<ro, k>>
  BY <1>1 DEF Top
<1>11. Ready(w2, L, A, g, k, n, v)
  <2>1. CASE w.dict[d][n] # NULL
    <3>1. ~PassesOwn /\ b => w.ref[<<RootOf(g), v>>] > One(v = w.dict[<<g, k>>][n].def)
      BY <1>1, <1>2, <2>1
    <3>2. w2 = Redefine(w, <<g, k>>, n, v, b) /\ w.dict[<<g, k>>][n] # NULL
      BY <1>1, <1>8, <2>1
    <3> QED BY <1>2, <3>1, <3>2, ReadyRedefined
  <2>2. CASE w.dict[d][n] = NULL /\ up # NULL
    <3>1. g \notin {Root, Proto}
      BY <1>1, <1>7, <1>10, <2>2, Roots
    <3>2. w2 = Insert(w, <<g, k>>, n, up.id, v, b) /\ w.dict[<<g, k>>][n] = NULL
      BY <1>1, <1>8, <2>2
    <3>3. PICK i : i = up.id
      OBVIOUS
    <3>4. i = w.dict[Top(g, k)][n].id /\ w.dict[Top(g, k)][n] # NULL
      BY <1>7, <2>2, <3>3
    <3> QED BY <1>1, <1>2, <3>1, <3>2, <3>3, <3>4, ReadyInserted
  <2>3. CASE w.dict[d][n] = NULL /\ up = NULL
    <3>1. w2 = NewGlobal(w, g, k, n, v, b)
      BY <1>8, <2>3
    <3>2. w.dict[<<ro, k>>][n] = NULL
      BY <1>7, <1>10, <2>3
    <3> QED BY <1>1, <1>2, <1>5, <3>1, <3>2, ReadyNew
  <2> QED BY <2>1, <2>2, <2>3
<1>12. Sound(IF k = "graph" THEN SetValue(w2, g, n, v, b) ELSE w2, L, A)
  BY <1>2, <1>11, ReadySet
<1> QED BY <1>1, <1>9, <1>12

-----------------------------------------------------------------------------
(* The values of a new object.                                             *)

\* Each attribute has a value, the default that is seen for it.
Filled(D, o, sym, values) ==
  /\ values \in Seq(Text) /\ Len(values) = Size(D, TopDict(o))
  /\ \A n \in Name : D[TopDict(o)][n] # NULL => values[Index(D, o, n)] = sym[n].def

\* The names that are declared in a dictionary.
NamesIn(D, d) == {n \in Name : D[d][n] # NULL}

\* o is given its values.
GiveStr(S, o, values) == [S EXCEPT ![o] = values]

\* The defaults of symbols.
DefsOf(sym) == [n \in DOMAIN sym |-> sym[n].def]

\* What the values add to the uses of a string.
FillsBy(S, o, sym, values, r, u) ==
  Cardinality(Val(GiveStr(S, o, values), r, u))
    = Cardinality(Val(S, r, u)) + Cardinality(Takers(o, DefsOf(sym), r, u))

LEMMA ValFilled ==
  ASSUME NEW D \in Dicts, NEW S \in Strs, NEW o \in Object, S[o] = <<>>,
         Numbered(D, TopDict(o)),
         NEW sym, DOMAIN sym = NamesIn(D, TopDict(o)),
         NEW values, Filled(D, o, sym, values), NEW r, NEW u
  PROVE  FillsBy(S, o, sym, values, r, u)
<1> DEFINE I == Takers(o, DefsOf(sym), r, u)
<1>1. PICK T, top : /\ T = GiveStr(S, o, values) /\ T = [S EXCEPT ![o] = values]
                    /\ top = TopDict(o) /\ DOMAIN sym = {n \in Name : D[top][n] # NULL}
  BY DEF GiveStr, NamesIn
<1>2. S \in Strs /\ top \in Dict /\ Numbered(D, top)
  BY <1>1, Roots
<1>3. T[o] = values /\ \A e \in Object : e # o => T[e] = S[e]
  BY <1>1, <1>2 DEF Strs
<1>4. \A n \in DOMAIN sym : n \in Name /\ D[top][n] \in Sym /\ D[top][n] # NULL
  BY <1>1, <1>2 DEF Dicts
<1>5. \A n \in DOMAIN sym : D[top][n].id \in Nat
  BY <1>4 DEF Sym
<1>6. Len(values) = Size(D, top) /\ Size(D, top) \in Nat /\ Size(D, top) <= Cardinality(Name)
      /\ Cardinality(Name) \in Nat
  BY <1>1, SizeType, Sizes DEF Filled
<1>7. \A n \in DOMAIN sym : /\ Index(D, o, n) \in 1 .. Size(D, top)
                            /\ values[Index(D, o, n)] = sym[n].def
  <2> TAKE n \in DOMAIN sym
  <2>1. D[top][n].id < Size(D, top)
    BY <1>2, <1>4 DEF Numbered
  <2> QED BY <1>1, <1>4, <1>5, <1>6, <2>1 DEF Index, Filled
<1>8. I = {n \in DOMAIN sym : r = RootOf(o) /\ sym[n].def = u}
  BY DEF Takers, DefsOf
<1>9. IsFiniteSet(I)
  <2>1. I \subseteq Name
    BY <1>4, <1>8
  <2> QED BY <2>1, Constants, FS_Subset
<1>10. PICK f : f = [n \in I |-> <<o, Index(D, o, n)>>]
  OBVIOUS
<1>11. ASSUME NEW n \in I PROVE f[n] \in Val(T, r, u) \ Val(S, r, u)
  <2>1. n \in DOMAIN sym /\ r = RootOf(o) /\ sym[n].def = u /\ f[n] = <<o, Index(D, o, n)>>
    BY <1>8, <1>10
  <2>2. Index(D, o, n) \in 1 .. Cardinality(Name) /\ Index(D, o, n) <= Len(values)
    BY <1>6, <1>7, <2>1
  <2>3. f[n] \in Val(T, r, u)
    BY <1>3, <1>7, <2>1, <2>2 DEF Val, Places, Of
  <2>4. ~(Index(D, o, n) <= Len(S[o]))
    BY <1>1, <1>6, <1>7, <2>1
  <2>5. f[n] \notin Val(S, r, u)
    BY <2>1, <2>4 DEF Val
  <2> QED BY <2>3, <2>5
<1>12. ASSUME NEW x \in Val(S, r, u) PROVE x \in Val(T, r, u)
  <2>1. PICK e \in Object, i \in 1 .. Cardinality(Name) : x = <<e, i>> /\ RootOf(e) = r
    BY DEF Val, Places, Of
  <2>2. i <= Len(S[e]) /\ S[e][i] = u
    BY <2>1 DEF Val
  <2>3. e # o
    BY <1>1, <1>6, <2>1, <2>2
  <2> QED BY <1>3, <2>1, <2>2, <2>3 DEF Val, Places, Of
<1>13. ASSUME NEW x \in Val(T, r, u) \ Val(S, r, u) PROVE \E n \in I : x = f[n]
  <2>1. PICK e \in Object, i \in 1 .. Cardinality(Name) : x = <<e, i>> /\ RootOf(e) = r
    BY DEF Val, Places, Of
  <2>2. i <= Len(T[e]) /\ T[e][i] = u /\ ~(i <= Len(S[e]) /\ S[e][i] = u)
    BY <2>1 DEF Val, Places, Of
  <2>3. e = o
    BY <1>3, <2>2
  <2>4. i - 1 \in 0 .. Size(D, top) - 1
    BY <1>3, <1>6, <2>2, <2>3
  <2>5. PICK n \in Name : D[top][n] # NULL /\ D[top][n].id = i - 1
    BY <1>2, <2>4 DEF Numbered
  <2>6. n \in DOMAIN sym /\ Index(D, o, n) = i
    BY <1>1, <2>4, <2>5 DEF Index
  <2>7. n \in I
    BY <1>3, <1>7, <1>8, <2>1, <2>2, <2>3, <2>6
  <2> QED BY <1>10, <2>1, <2>3, <2>6, <2>7
<1>14. ASSUME NEW m \in I, NEW n \in I, f[m] = f[n] PROVE m = n
  <2>1. m \in DOMAIN sym /\ n \in DOMAIN sym /\ Index(D, o, m) = Index(D, o, n)
    BY <1>8, <1>10, <1>14
  <2>2. D[top][m].id = D[top][n].id
    BY <1>1, <1>5, <2>1 DEF Index
  <2> QED BY <1>2, <1>4, <2>1, <2>2 DEF Numbered
<1>15. IsFiniteSet(Val(S, r, u)) /\ Val(S, r, u) \subseteq Val(T, r, u)
  BY <1>12, UsesFinite
<1> HIDE DEF I
<1>16. Cardinality(Val(T, r, u)) = Cardinality(Val(S, r, u)) + Cardinality(I)
  BY ONLY <1>9, <1>11, <1>13, <1>14, <1>15, Gains
<1> QED BY <1>1, <1>16 DEF I, FillsBy

\* The symbols that a search in d finds.
Syms(w, d) == [n \in {m \in Name : Search(w, d, m) # NULL} |-> Search(w, d, n)]

With(w, d, i) == {n \in DOMAIN Syms(w, d) : Syms(w, d)[n].id = i}

Defaults(w, d, size) ==
  [i \in 1 .. size |-> IF With(w, d, i - 1) = {} THEN NULL
                       ELSE Syms(w, d)[CHOOSE n \in With(w, d, i - 1) : TRUE].def]

\* What a dictionary has of its own is what is found.
Kept(D, d, sym) == \A n \in Name : D[d][n] # NULL => sym[n] = D[d][n]

\* Each default is one that a dictionary of the same root holds.
Sourced(D, o, sym) ==
  \A n \in DOMAIN sym :
    /\ sym[n].def \in Text
    /\ \E h \in Graph : /\ RootOf(h) = RootOf(o) /\ D[<<h, KindOf(o)>>][n] # NULL
                       /\ D[<<h, KindOf(o)>>][n].def = sym[n].def

LEMMA DefaultsFill ==
  ASSUME NEW w \in Worlds, NEW L, L \subseteq Object, Rooted(L), SymbolsOK(w.dict, L),
         Seen(w.view, L), NEW c \in L \cap Graph, NEW o, RootOf(c) = RootOf(o),
         NEW d, d = <<c, KindOf(o)>>
  PROVE  /\ DOMAIN Syms(w, d) = NamesIn(w.dict, TopDict(o))
         /\ Filled(w.dict, o, Syms(w, d), Defaults(w, d, Size(w.dict, TopDict(o))))
         /\ Kept(w.dict, d, Syms(w, d))
         /\ Sourced(w.dict, o, Syms(w, d))
<1>1. PICK k, D, top, sym, size, values :
         /\ k = KindOf(o) /\ top = TopDict(o) /\ D = w.dict /\ sym = Syms(w, d)
         /\ size = Size(w.dict, top) /\ values = Defaults(w, d, size)
  OBVIOUS
<1>2. k \in Kind /\ top \in Dict /\ Top(c, k) = top /\ d = <<c, k>>
  BY <1>1, Roots DEF Top
<1>3. ASSUME NEW n \in Name
      PROVE  /\ Search(w, d, n) = NULL <=> D[top][n] = NULL
             /\ D[d][n] # NULL => Search(w, d, n) = D[d][n]
             /\ Search(w, d, n) # NULL =>
                  /\ Search(w, d, n) \in Sym /\ Search(w, d, n).id = D[top][n].id
                  /\ \E h \in L \cap Graph : /\ RootOf(h) = RootOf(c)
                                             /\ Search(w, d, n) = D[<<h, k>>][n]
  BY <1>1, <1>2, SearchIs
<1>4. DOMAIN sym = {n \in Name : D[top][n] # NULL}
  BY <1>1, <1>3 DEF Syms
<1>5. ASSUME NEW n \in DOMAIN sym
      PROVE  /\ n \in Name /\ sym[n] \in Sym /\ sym[n] = Search(w, d, n) /\ sym[n] # NULL
             /\ sym[n].id = D[top][n].id
  BY <1>1, <1>3 DEF Syms
<1>6. ASSUME NEW n \in Name, D[d][n] # NULL PROVE sym[n] = D[d][n]
  <2>1. Search(w, d, n) = D[d][n]
    BY <1>3, <1>6
  <2>2. n \in DOMAIN sym
    BY <1>1, <1>6, <2>1 DEF Syms
  <2> QED BY <1>5, <2>1, <2>2
<1>7. ASSUME NEW n \in DOMAIN sym
      PROVE  /\ sym[n].def \in Text
             /\ \E h \in Graph : /\ RootOf(h) = RootOf(o) /\ D[<<h, k>>][n] # NULL
                                 /\ D[<<h, k>>][n].def = sym[n].def
  <2>1. sym[n] \in Sym /\ sym[n] = Search(w, d, n) /\ n \in Name /\ sym[n] # NULL
    BY <1>5
  <2>2. PICK h \in L \cap Graph : RootOf(h) = RootOf(c) /\ sym[n] = D[<<h, k>>][n]
    BY <1>3, <2>1
  <2> QED BY <2>1, <2>2 DEF Sym
<1>8. size = Size(D, top) /\ values = Defaults(w, d, size)
  BY <1>1
<1>9. Numbered(D, top) /\ size \in Nat
  BY <1>1, <1>8, Roots, SizeType DEF SymbolsOK
<1>10. ASSUME NEW i \in 1 .. size
       PROVE  \E n \in DOMAIN sym : /\ D[top][n].id = i - 1 /\ values[i] = sym[n].def
  <2>1. i - 1 \in 0 .. Size(D, top) - 1
    BY <1>8, <1>9
  <2>2. PICK m \in Name : D[top][m] # NULL /\ D[top][m].id = i - 1
    BY <1>9, <2>1 DEF Numbered
  <2>3. PICK W : W = With(w, d, i - 1)
    OBVIOUS
  <2>4. m \in DOMAIN sym
    BY <1>4, <2>2
  <2>5. m \in W
    BY <1>1, <1>5, <2>2, <2>3, <2>4 DEF With
  <2>6. PICK n : n = CHOOSE y \in W : TRUE
    OBVIOUS
  <2>7. n \in W
    BY <2>5, <2>6
  <2>8. n \in DOMAIN sym /\ sym[n].id = i - 1
    BY <1>1, <2>3, <2>7 DEF With
  <2>9. values[i] = sym[n].def
    BY <1>1, <1>8, <2>3, <2>5, <2>6 DEF Defaults
  <2> QED BY <1>5, <2>8, <2>9
<1>11. \A i \in 1 .. size : values[i] \in Text
  BY <1>7, <1>10
<1>12. values \in Seq(Text) /\ Len(values) = size
  <2>1. DOMAIN values = 1 .. size /\ values = [i \in 1 .. size |-> values[i]]
    BY <1>8 DEF Defaults
  <2> QED BY <1>9, <1>11, <2>1
<1>13. ASSUME NEW n \in Name, D[top][n] # NULL PROVE values[Index(D, o, n)] = sym[n].def
  <2>1. D[top][n].id < size /\ D[top][n] \in Sym
    BY <1>1, <1>2, <1>8, <1>9, <1>13 DEF Numbered, Worlds
  <2>2. D[top][n].id \in Nat
    BY <2>1 DEF Sym
  <2>3. PICK i : i = Index(D, o, n)
    OBVIOUS
  <2>4. i \in 1 .. size /\ i - 1 = D[top][n].id
    BY <1>1, <1>9, <2>1, <2>2, <2>3 DEF Index
  <2>5. PICK m \in DOMAIN sym : D[top][m].id = i - 1 /\ values[i] = sym[m].def
    BY <1>10, <2>4
  <2>6. m = n
    BY <1>4, <1>9, <1>13, <2>4, <2>5 DEF Numbered
  <2> QED BY <2>3, <2>5, <2>6
<1>14. Filled(D, o, sym, values)
  BY <1>1, <1>8, <1>12, <1>13 DEF Filled
<1>15. Sourced(D, o, sym)
  BY <1>1, <1>7 DEF Sourced
<1>16. DOMAIN sym = NamesIn(D, top) /\ Kept(D, d, sym)
  BY <1>4, <1>6 DEF NamesIn, Kept
<1> QED BY <1>1, <1>14, <1>15, <1>16

\* x is w after agmakeattrs.
Fresh(w, L, o, d, x) ==
  /\ Good(x, L \cup {o})
  /\ x.dict = w.dict /\ x.bad = w.bad
  /\ \E values : /\ x.str = [w.str EXCEPT ![o] = values]
                 /\ Filled(w.dict, o, Syms(w, d), values)

LEMMA MakeattrsIs ==
  ASSUME NEW w \in Worlds, NEW L, NEW o, o \notin L, L \cup {o} \subseteq Object,
         Rooted(L \cup {o}), Looking(w.view, w.nview, L \cup {o}), SymbolsOK(w.dict, L \cup {o}),
         ValuesOK(w.dict, w.str, w.room, L), Counted(w.dict, w.str, w.ref),
         NEW c \in (L \cup {o}) \cap Graph, RootOf(c) = RootOf(o)
  PROVE  Fresh(w, L, o, <<c, KindOf(o)>>, Makeattrs(w, c, o))
<1>1. PICK K, d, top, size : /\ K = L \cup {o} /\ d = <<c, KindOf(o)>> /\ top = TopDict(o)
                             /\ size = Size(w.dict, top)
  OBVIOUS
<1>2. /\ K \subseteq Object /\ Rooted(K) /\ SymbolsOK(w.dict, K) /\ Seen(w.view, K)
      /\ Looking(w.view, w.nview, K) /\ c \in K \cap Graph /\ o \in Object /\ o \in K
      /\ w.str \in Strs /\ w.room \in Rooms /\ w.ref \in Counts /\ w.bad \in BOOLEAN
  BY <1>1, LookingSeen DEF Worlds, Strs, Rooms, Counts
<1>3. PICK sym, values, text : /\ sym = Syms(w, d) /\ values = Defaults(w, d, size)
                               /\ text = DefsOf(sym)
  OBVIOUS
<1>4. /\ DOMAIN sym = NamesIn(w.dict, top)
      /\ Filled(w.dict, o, sym, values)
      /\ Sourced(w.dict, o, sym)
  BY <1>1, <1>2, <1>3, DefaultsFill
<1>5. DOMAIN text = DOMAIN sym /\ IsFiniteSet(DOMAIN text)
  <2>1. DOMAIN text = DOMAIN sym /\ DOMAIN sym \subseteq Name
    BY <1>3, <1>4 DEF DefsOf, NamesIn
  <2> QED BY <2>1, Constants, FS_Subset
<1>6. PICK w1 : w1 = AgstrdupAll(w, o, text, TRUE)
  OBVIOUS
<1>7. Recounted(w, Added(w.ref, o, text), Also(w.bad, AnyDangling(w.ref, o, text, TRUE)), w1)
  BY <1>5, <1>6, DupAllIs
<1>8. ~AnyDangling(w.ref, o, text, TRUE)
  <2> SUFFICES ASSUME NEW n \in DOMAIN text PROVE w.ref[Shared(o, text[n])] # 0
    BY DEF AnyDangling
  <2>1. PICK r, u : r = RootOf(o) /\ u = text[n]
    OBVIOUS
  <2>2. n \in DOMAIN sym /\ u = sym[n].def /\ u \in String /\ r \in {Root, Proto} /\ n \in Name
    BY <1>3, <1>4, <1>5, <2>1, Roots DEF String, Sourced, DefsOf, NamesIn
  <2>3. PICK h \in Graph : /\ RootOf(h) = r /\ w.dict[<<h, KindOf(o)>>][n] # NULL
                           /\ w.dict[<<h, KindOf(o)>>][n].def = u
    BY <1>4, <2>1, <2>2 DEF Sourced
  <2>4. <<<<h, KindOf(o)>>, n>> \in Def(w.dict, r, u)
    <3>1. <<<<h, KindOf(o)>>, n>> \in Entries(r)
      BY <2>2, <2>3, Roots DEF Entries, Of, Object
    <3> QED BY <2>3, <3>1 DEF Def
  <2>5. Cardinality(Def(w.dict, r, u)) > 0
    BY <2>4, UsesFinite, CountOne
  <2>6. w.ref[<<r, u>>] = Uses(w.dict, w.str, r, u)
    BY <2>2 DEF Counted
  <2>7. Uses(w.dict, w.str, r, u) # 0
    BY <2>5, UsesSum, UsesFinite
  <2> QED BY <2>1, <2>6, <2>7 DEF Shared
<1>9. /\ w1 \in Worlds /\ w1.ref = Added(w.ref, o, text) /\ w1.bad = w.bad
      /\ w1.dict = w.dict /\ w1.str = w.str /\ w1.room = w.room
      /\ w1.view = w.view /\ w1.nview = w.nview
  BY <1>2, <1>7, <1>8 DEF Recounted, Also
<1>10. PICK S, R : /\ S = [w.str EXCEPT ![o] = values]
                   /\ R = [w.room EXCEPT ![o] = IF size < MinAttr THEN MinAttr ELSE size]
  OBVIOUS
<1>11. size \in Nat /\ MinAttr \in Nat /\ values \in Seq(Text) /\ Len(values) = size
  BY <1>1, <1>4, SizeType, Constants DEF Filled
<1>12. S \in Strs /\ S[o] = values /\ \A e \in Object : e # o => S[e] = w.str[e]
  BY <1>2, <1>10, <1>11 DEF Strs
<1>13. /\ R \in Rooms /\ R[o] >= size /\ R[o] >= MinAttr
       /\ \A e \in Object : e # o => R[e] = w.room[e]
  BY <1>2, <1>10, <1>11 DEF Rooms
<1>14. PICK x : x = Makeattrs(w, c, o)
  OBVIOUS
<1>15. x = [w1 EXCEPT !.str = S, !.room = R]
  <2>1. x = [w1 EXCEPT !.str[o] = values, !.room[o] = IF size < MinAttr THEN MinAttr ELSE size]
    <3>1. DictSize(w, top) = size
      BY <1>1, DictSizeIs
    <3> QED BY ONLY <1>1, <1>3, <1>6, <1>14, <3>1 DEF Makeattrs, Syms, Defaults, With, DefsOf
  <2> QED BY <1>9, <1>10, <2>1
<1>16. Arrayed(w1, S, R, w1.bad, x)
  <2>1. w1.bad \in BOOLEAN
    BY <1>9 DEF Worlds
  <2> QED BY <1>9, <1>12, <1>13, <1>15, <2>1, Arrays
<1>17. /\ x \in Worlds /\ x.str = S /\ x.room = R /\ x.bad = w.bad /\ x.dict = w.dict
       /\ x.ref = Added(w.ref, o, text) /\ x.view = w.view /\ x.nview = w.nview
  BY <1>9, <1>16 DEF Arrayed
<1>18. ValuesOK(w.dict, S, R, K)
  BY <1>1, <1>11, <1>12, <1>13 DEF ValuesOK
<1>19. Counted(w.dict, S, x.ref)
  <2> SUFFICES ASSUME NEW r \in {Root, Proto}, NEW u \in String
               PROVE  x.ref[<<r, u>>] = Uses(w.dict, S, r, u)
    BY DEF Counted
  <2>1. w.ref[<<r, u>>] = Uses(w.dict, w.str, r, u)
    BY DEF Counted
  <2>2. x.ref[<<r, u>>] = w.ref[<<r, u>>] + Cardinality(Takers(o, text, r, u))
    BY <1>2, <1>5, <1>17, AddedIs
  <2>3. Cardinality(Val(S, r, u)) = Cardinality(Val(w.str, r, u)) + Cardinality(Takers(o, text, r, u))
    <3>1. w.str[o] = <<>>
      BY <1>2 DEF ValuesOK
    <3>2. Numbered(w.dict, TopDict(o)) /\ w.dict \in Dicts /\ S = GiveStr(w.str, o, values)
      BY <1>1, <1>2, <1>10, Roots DEF GiveStr, SymbolsOK, Worlds, Dicts
    <3>3. FillsBy(w.str, o, sym, values, r, u)
      BY <1>1, <1>2, <1>4, <3>1, <3>2, ValFilled
    <3> QED BY <1>3, <3>2, <3>3 DEF FillsBy
  <2>4. Uses(w.dict, S, r, u) = Cardinality(Val(S, r, u))
           + Cardinality(Def(w.dict, r, u)) + Cardinality(Nam(w.dict, r, u))
        /\ Uses(w.dict, w.str, r, u) = Cardinality(Val(w.str, r, u))
           + Cardinality(Def(w.dict, r, u)) + Cardinality(Nam(w.dict, r, u))
    BY UsesSum
  <2>5. /\ Cardinality(Val(w.str, r, u)) \in Nat /\ Cardinality(Def(w.dict, r, u)) \in Nat
        /\ Cardinality(Nam(w.dict, r, u)) \in Nat
        /\ Cardinality(Takers(o, text, r, u)) \in Nat
    <3>1. Takers(o, text, r, u) \subseteq DOMAIN text
      BY DEF Takers
    <3> QED BY <1>5, <3>1, UsesFinite, FS_Subset, FS_CardinalityType
  <2> QED BY <2>1, <2>2, <2>3, <2>4, <2>5
<1>20. Good(x, K)
  BY <1>2, <1>17, <1>18, <1>19 DEF Good
<1> QED BY <1>1, <1>3, <1>4, <1>10, <1>14, <1>17, <1>20 DEF Fresh
\* A default of a graph's own is its value, if the graph is not o.
LocalApart(D, S, o) ==
  \A g \in Graph, n \in Name :
    g # o /\ D[<<g, "graph">>][n] # NULL =>
      D[<<g, "graph">>][n].def = S[g][D[<<RootOf(g), "graph">>][n].id + 1]

LEMMA FreshSound ==
  ASSUME NEW w \in Worlds, NEW L, NEW A, NEW o \in Object, NEW d, NEW x, Fresh(w, L, o, d, x),
         SymbolsOK(w.dict, L \cup {o}), LocalApart(w.dict, w.str, o),
         o \in Graph => Kept(w.dict, <<o, "graph">>, Syms(w, d)),
         Tree(L \cup {o}, A), ~PassesOwn => ~w.bad
  PROVE  Sound(x, L \cup {o}, A)
<1>1. PICK D, S, sym, values : /\ D = w.dict /\ S = w.str /\ sym = Syms(w, d)
                               /\ x.str = [S EXCEPT ![o] = values] /\ Filled(D, o, sym, values)
  BY DEF Fresh
<1>2. PICK T : T = x.str
  OBVIOUS
<1>3. T[o] = values /\ \A e \in Object : e # o => T[e] = S[e]
  BY <1>1, <1>2 DEF Worlds
<1>4. ASSUME NEW g \in Graph, NEW n \in Name, D[<<g, "graph">>][n] # NULL
      PROVE  D[<<g, "graph">>][n].def = T[g][D[<<RootOf(g), "graph">>][n].id + 1]
  <2>1. CASE g # o
    <3>1. T[g] = S[g]
      BY <1>3, <2>1 DEF Object
    <3> QED BY <1>1, <1>4, <2>1, <3>1 DEF LocalApart
  <2>2. CASE g = o
    <3>1. TopDict(o) = <<RootOf(g), "graph">> /\ Top(g, "graph") = TopDict(o)
      BY <2>2, Roots DEF Top
    <3>2. D[TopDict(o)][n] # NULL
      <4>1. g \in (L \cup {o}) \cap Graph /\ "graph" \in Kind
        BY <2>2 DEF Kind
      <4> QED BY <1>1, <1>4, <3>1, <4>1 DEF SymbolsOK
    <3>3. values[Index(D, o, n)] = sym[n].def
      BY <1>1, <3>2 DEF Filled
    <3>4. sym[n] = D[<<g, "graph">>][n]
      BY <1>1, <1>4, <2>2 DEF Kept
    <3>5. Index(D, o, n) = D[<<RootOf(g), "graph">>][n].id + 1
      BY <3>1 DEF Index
    <3> QED BY <1>3, <2>2, <3>3, <3>4, <3>5
  <2> QED BY <2>1, <2>2
<1>5. LocalBut(D, T, {})
  BY <1>4 DEF LocalBut
<1>6. Good(x, L \cup {o}) /\ x.dict = D /\ x.bad = w.bad
  BY <1>1 DEF Fresh
<1> QED BY <1>2, <1>5, <1>6 DEF Sound

-----------------------------------------------------------------------------
(* agnode.                                                                 *)

\* What depends on the graphs that are live only.
LEMMA GraphsOnly ==
  ASSUME NEW L, NEW K, L \cap Graph = K \cap Graph
  PROVE  /\ Rooted(L) => Rooted(K)
         /\ \A A : Outside(L, A) = Outside(K, A)
         /\ \A V, N : Looking(V, N, L) => Looking(V, N, K)
         /\ \A D : SymbolsOK(D, L) => SymbolsOK(D, K)
<1>1. \A e \in Graph : e \in L <=> e \in K
  OBVIOUS
<1>2. ASSUME NEW q, NEW g, Ancestry(L, q, g) PROVE Ancestry(K, q, g)
  <2>1. \A i \in 1 .. Len(q) : q[i] \in Graph
    BY <1>2 DEF Ancestry
  <2> QED BY <1>1, <1>2, <2>1 DEF Ancestry
<1>3. Rooted(L) => Rooted(K)
  BY <1>2 DEF Rooted
<1>4. \A A : Outside(L, A) = Outside(K, A)
  BY DEF Outside
<1>5. \A d \in Dict : ViewOf(L, d) = ViewOf(K, d)
  BY <1>1 DEF ViewOf, Dict
<1>6. \A V, N : Looking(V, N, L) => Looking(V, N, K)
  BY <1>5 DEF Looking
<1>7. \A D : SymbolsOK(D, L) => SymbolsOK(D, K)
  <2>1. Graph \ L = Graph \ K
    OBVIOUS
  <2> QED BY <2>1 DEF SymbolsOK
<1> QED BY <1>3, <1>4, <1>6, <1>7

LEMMA AgnodeIs ==
  ASSUME NEW w, NEW L, NEW A, Sound(w, L, A), NEW g \in (L \cap Graph) \ {Proto},
         NEW n \in Node, n \notin L
  PROVE  Sound(Makeattrs(w, g, n), L \cup {n}, A)
<1>1. PICK K : K = L \cup {n}
  OBVIOUS
<1>2. Tree(L, A) /\ Good(w, L) /\ LocalBut(w.dict, w.str, {}) /\ (~PassesOwn => ~w.bad)
  BY DEF Sound
<1>3. n \in Object /\ n \notin Graph /\ RootOf(n) = Root /\ RootOf(g) = Root /\ KindOf(n) = "node"
  BY Roots, Constants DEF Object
<1>4. K \cap Graph = L \cap Graph /\ K \subseteq Object
  BY <1>1, <1>2, <1>3 DEF Tree
<1>5. Rooted(K) /\ Looking(w.view, w.nview, K) /\ SymbolsOK(w.dict, K)
      /\ Outside(K, A) = Outside(L, A)
  BY <1>2, <1>4, GraphsOnly DEF Tree, Good
<1>6. Tree(K, A)
  <2>1. Root \in L
    BY <1>2 DEF Tree
  <2> QED BY <1>1, <1>2, <1>4, <1>5, <2>1 DEF Tree
<1>7. PICK d, x : d = <<g, KindOf(n)>> /\ x = Makeattrs(w, g, n)
  OBVIOUS
<1>8. Fresh(w, L, n, d, x)
  <2>1. w \in Worlds /\ ValuesOK(w.dict, w.str, w.room, L) /\ Counted(w.dict, w.str, w.ref)
    BY <1>2 DEF Good
  <2>2. g \in K \cap Graph /\ RootOf(g) = RootOf(n) /\ K \subseteq Object
    BY <1>1, <1>3, <1>4
  <2> QED BY <1>1, <1>5, <1>7, <2>1, <2>2, MakeattrsIs
<1>9. LocalApart(w.dict, w.str, n)
  BY <1>2 DEF LocalBut, LocalApart
<1>10. w \in Worlds
  BY <1>2 DEF Good
<1> QED BY <1>1, <1>2, <1>3, <1>5, <1>6, <1>7, <1>8, <1>9, <1>10, FreshSound
-----------------------------------------------------------------------------
(* What a deletion gives back.                                             *)

Emptied(S, objs) == [o \in Object |-> IF o \in objs THEN <<>> ELSE S[o]]
Cleared(D, gs) == [d \in Dict |-> IF d \in gs \X Kind THEN [n \in Name |-> NULL] ELSE D[d]]

\* No object of objs has more values than its root has attributes.
Held(w, objs) ==
  /\ objs \subseteq Object /\ Proto \notin objs
  /\ \A o \in objs : Len(w.str[o]) = Size(w.dict, TopDict(o))

LEMMA ValEmptied ==
  ASSUME NEW w \in Worlds, NEW objs, Held(w, objs), NEW u
  PROVE  /\ Cardinality(Val(Emptied(w.str, objs), Root, u))
              = Cardinality(Val(w.str, Root, u)) - Cardinality(AsValue(w, objs, u))
         /\ Cardinality(AsValue(w, objs, u)) \in Nat
         /\ Val(Emptied(w.str, objs), Proto, u) = Val(w.str, Proto, u)
<1>1. PICK S, T, X : S = w.str /\ T = Emptied(w.str, objs) /\ X = AsValue(w, objs, u)
  OBVIOUS
<1>2. \A o \in Object : (o \in objs => T[o] = <<>>) /\ (o \notin objs => T[o] = S[o])
  BY <1>1 DEF Emptied
<1>3. \A o \in objs : o \in Object /\ RootOf(o) = Root /\ Len(S[o]) = DictSize(w, TopDict(o))
  BY <1>1, Roots, DictSizeIs DEF Held
<1>4. X \subseteq Val(S, Root, u)
  <2> SUFFICES ASSUME NEW p \in X PROVE p \in Val(S, Root, u)
    OBVIOUS
  <2>1. /\ p \in objs \X (1 .. Cardinality(Name)) /\ p[2] <= Len(S[p[1]]) /\ S[p[1]][p[2]] = u
    BY <1>1 DEF AsValue
  <2> QED BY <1>3, <2>1 DEF Val, Places, Of
<1>5. ASSUME NEW r, NEW o, NEW i
      PROVE  <<o, i>> \in Val(T, r, u) <=> <<o, i>> \in Val(S, r, u) /\ o \notin objs
  <2>1. CASE o \in objs
    <3>1. <<o, i>> \in Val(T, r, u) => i \in Nat /\ i >= 1 /\ i <= Len(<<>>)
      BY <1>2, <1>3, <2>1, Sizes DEF Val, Places
    <3>2. Len(<<>>) = 0
      OBVIOUS
    <3> QED BY <2>1, <3>1, <3>2
  <2>2. CASE o \notin objs
    BY <1>2, <2>2 DEF Val, Places, Of
  <2> QED BY <2>1, <2>2
<1>6. ASSUME NEW o \in objs, NEW i, <<o, i>> \in Val(S, Root, u) PROVE <<o, i>> \in X
  <2>1. i \in 1 .. Cardinality(Name) /\ i <= Len(S[o]) /\ S[o][i] = u
    BY <1>6 DEF Val, Places
  <2>2. i <= DictSize(w, TopDict(o))
    BY <1>3, <2>1
  <2> QED BY <1>1, <2>1, <2>2 DEF AsValue
<1>7. Val(T, Root, u) = Val(S, Root, u) \ X
  <2>1. ASSUME NEW p \in Val(T, Root, u) PROVE p \in Val(S, Root, u) \ X
    <3>1. PICK o, i : p = <<o, i>>
      BY <2>1 DEF Val, Places
    <3>2. p \in Val(S, Root, u) /\ o \notin objs
      BY <1>5, <2>1, <3>1
    <3>3. p \notin X
      BY <1>1, <3>1, <3>2 DEF AsValue
    <3> QED BY <3>2, <3>3
  <2>2. ASSUME NEW p \in Val(S, Root, u) \ X PROVE p \in Val(T, Root, u)
    <3>1. PICK o, i : p = <<o, i>>
      BY <2>2 DEF Val, Places
    <3>2. o \notin objs
      BY <1>6, <2>2, <3>1
    <3> QED BY <1>5, <2>2, <3>1, <3>2
  <2> QED BY <2>1, <2>2
<1>8. Val(T, Proto, u) = Val(S, Proto, u)
  <2>1. ASSUME NEW p \in Val(T, Proto, u) PROVE p \in Val(S, Proto, u)
    <3>1. PICK o, i : p = <<o, i>>
      BY <2>1 DEF Val, Places
    <3> QED BY <1>5, <2>1, <3>1
  <2>2. ASSUME NEW p \in Val(S, Proto, u) PROVE p \in Val(T, Proto, u)
    <3>1. PICK o, i : p = <<o, i>> /\ RootOf(o) = Proto
      BY <2>2 DEF Val, Places, Of
    <3>2. o \notin objs
      BY <3>1, Roots DEF Held
    <3> QED BY <1>5, <2>2, <3>1, <3>2
  <2> QED BY <2>1, <2>2
<1>9. IsFiniteSet(Val(S, Root, u))
  BY UsesFinite
<1>10. Cardinality(Val(S, Root, u) \ X) = Cardinality(Val(S, Root, u)) - Cardinality(X)
       /\ Cardinality(X) \in Nat
  BY <1>4, <1>9, Loses
<1> QED BY <1>1, <1>7, <1>8, <1>10

\* The symbols of a root's graphs.
LEMMA EntryIs ==
  ASSUME NEW r, NEW p \in Entries(r)
  PROVE  \E g \in Graph, k \in Kind, n \in Name : p = <<<<g, k>>, n>> /\ RootOf(g) = r
BY DEF Entries, Of

LEMMA DefCleared ==
  ASSUME NEW w \in Worlds, NEW objs, Held(w, objs), NEW gs, gs = objs \cap Graph, NEW u
  PROVE  /\ Cardinality(Def(Cleared(w.dict, gs), Root, u))
              = Cardinality(Def(w.dict, Root, u)) - Cardinality(AsDefault(w, objs, u))
         /\ Cardinality(Nam(Cleared(w.dict, gs), Root, u))
              = Cardinality(Nam(w.dict, Root, u)) - Cardinality(AsName(w, objs, u))
         /\ Cardinality(AsDefault(w, objs, u)) \in Nat /\ Cardinality(AsName(w, objs, u)) \in Nat
         /\ Def(Cleared(w.dict, gs), Proto, u) = Def(w.dict, Proto, u)
         /\ Nam(Cleared(w.dict, gs), Proto, u) = Nam(w.dict, Proto, u)
<1>1. PICK D, E, X, Y : /\ D = w.dict /\ E = Cleared(w.dict, gs)
                        /\ X = AsDefault(w, objs, u) /\ Y = AsName(w, objs, u)
  OBVIOUS
<1>2. ASSUME NEW g \in Graph, NEW k \in Kind, NEW n \in Name
      PROVE  /\ g \in gs => E[<<g, k>>][n] = NULL
             /\ g \notin gs => E[<<g, k>>] = D[<<g, k>>]
  <2>1. <<g, k>> \in Dict
    BY DEF Dict
  <2> QED BY <1>1, <2>1 DEF Cleared
<1>3. \A g \in gs : g \in Graph /\ RootOf(g) = Root
  BY Roots DEF Held
<1>4. ASSUME NEW r, NEW g \in Graph, NEW k \in Kind, NEW n \in Name
      PROVE  /\ <<<<g, k>>, n>> \in Def(E, r, u) <=> <<<<g, k>>, n>> \in Def(D, r, u) /\ g \notin gs
             /\ <<<<g, k>>, n>> \in Nam(E, r, u) <=> <<<<g, k>>, n>> \in Nam(D, r, u) /\ g \notin gs
  BY <1>2 DEF Def, Nam
<1>5. ASSUME NEW g \in Graph, NEW k \in Kind, NEW n \in Name
      PROVE  /\ <<<<g, k>>, n>> \in X <=> <<<<g, k>>, n>> \in Def(D, Root, u) /\ g \in gs
             /\ <<<<g, k>>, n>> \in Y <=> <<<<g, k>>, n>> \in Nam(D, Root, u) /\ g \in gs
  <2>1. g \in gs => <<<<g, k>>, n>> \in Entries(Root)
    BY <1>3 DEF Entries, Of, Object
  <2>2. <<<<g, k>>, n>> \in Symbols(w, objs) <=> g \in gs /\ D[<<g, k>>][n] # NULL
    BY <1>1 DEF Symbols
  <2> QED BY <1>1, <2>1, <2>2 DEF AsDefault, AsName, Def, Nam
<1>6. ASSUME NEW p, p \in X \/ p \in Y
      PROVE  \E g \in Graph, k \in Kind, n \in Name : p = <<<<g, k>>, n>>
  BY <1>1, <1>6 DEF AsDefault, AsName, Symbols
<1>7. ASSUME NEW r, NEW p, p \in Def(D, r, u) \/ p \in Nam(D, r, u) \/ p \in Def(E, r, u)
                             \/ p \in Nam(E, r, u)
      PROVE  \E g \in Graph, k \in Kind, n \in Name : p = <<<<g, k>>, n>> /\ RootOf(g) = r
  <2>1. p \in Entries(r)
    BY <1>7 DEF Def, Nam
  <2> QED BY <2>1, EntryIs
<1>8. X \subseteq Def(D, Root, u) /\ Def(E, Root, u) = Def(D, Root, u) \ X
  <2>1. ASSUME NEW p \in X PROVE p \in Def(D, Root, u)
    BY <1>5, <1>6
  <2>2. ASSUME NEW p PROVE p \in Def(E, Root, u) <=> p \in Def(D, Root, u) \ X
    BY <1>4, <1>5, <1>7
  <2> QED BY <2>1, <2>2
<1>9. Y \subseteq Nam(D, Root, u) /\ Nam(E, Root, u) = Nam(D, Root, u) \ Y
  <2>1. ASSUME NEW p \in Y PROVE p \in Nam(D, Root, u)
    BY <1>5, <1>6
  <2>2. ASSUME NEW p PROVE p \in Nam(E, Root, u) <=> p \in Nam(D, Root, u) \ Y
    BY <1>4, <1>5, <1>7
  <2> QED BY <2>1, <2>2
<1>10. \A g \in Graph : RootOf(g) = Proto => g \notin gs
  BY <1>3, Constants
<1>11. Def(E, Proto, u) = Def(D, Proto, u) /\ Nam(E, Proto, u) = Nam(D, Proto, u)
  <2>1. ASSUME NEW p PROVE /\ p \in Def(E, Proto, u) <=> p \in Def(D, Proto, u)
                           /\ p \in Nam(E, Proto, u) <=> p \in Nam(D, Proto, u)
    BY <1>4, <1>7, <1>10
  <2> QED BY <2>1
<1>12. IsFiniteSet(Def(D, Root, u)) /\ IsFiniteSet(Nam(D, Root, u))
  BY UsesFinite
<1>13. /\ Cardinality(Def(D, Root, u) \ X) = Cardinality(Def(D, Root, u)) - Cardinality(X)
       /\ Cardinality(X) \in Nat
  BY <1>8, <1>12, Loses
<1>14. /\ Cardinality(Nam(D, Root, u) \ Y) = Cardinality(Nam(D, Root, u)) - Cardinality(Y)
       /\ Cardinality(Y) \in Nat
  BY <1>9, <1>12, Loses
<1> QED BY <1>1, <1>8, <1>9, <1>11, <1>13, <1>14

\* What objs hold of a string of r.
Taken(w, objs, r, u) == IF r = Root THEN GiveBack(w, objs, u) ELSE 0

LEMMA FreeCounts ==
  ASSUME NEW w \in Worlds, NEW objs, Held(w, objs), NEW gs, gs = objs \cap Graph,
         NEW r \in {Root, Proto}, NEW u
  PROVE  /\ Taken(w, objs, r, u) \in Nat
         /\ Uses(Cleared(w.dict, gs), Emptied(w.str, objs), r, u)
              = Uses(w.dict, w.str, r, u) - Taken(w, objs, r, u)
<1>1. PICK D, S, E, T : /\ D = w.dict /\ S = w.str /\ E = Cleared(w.dict, gs)
                        /\ T = Emptied(w.str, objs)
  OBVIOUS
<1>2. /\ Cardinality(Val(T, Root, u)) = Cardinality(Val(S, Root, u)) - Cardinality(AsValue(w, objs, u))
      /\ Cardinality(AsValue(w, objs, u)) \in Nat
      /\ Val(T, Proto, u) = Val(S, Proto, u)
  BY <1>1, ValEmptied
<1>3. /\ Cardinality(Def(E, Root, u)) = Cardinality(Def(D, Root, u)) - Cardinality(AsDefault(w, objs, u))
      /\ Cardinality(Nam(E, Root, u)) = Cardinality(Nam(D, Root, u)) - Cardinality(AsName(w, objs, u))
      /\ Cardinality(AsDefault(w, objs, u)) \in Nat /\ Cardinality(AsName(w, objs, u)) \in Nat
      /\ Def(E, Proto, u) = Def(D, Proto, u) /\ Nam(E, Proto, u) = Nam(D, Proto, u)
  BY <1>1, DefCleared
<1>4. /\ Uses(E, T, r, u) = Cardinality(Val(T, r, u)) + Cardinality(Def(E, r, u)) + Cardinality(Nam(E, r, u))
      /\ Uses(D, S, r, u) = Cardinality(Val(S, r, u)) + Cardinality(Def(D, r, u)) + Cardinality(Nam(D, r, u))
  BY UsesSum
<1>5. /\ Cardinality(Val(S, r, u)) \in Nat /\ Cardinality(Def(D, r, u)) \in Nat
      /\ Cardinality(Nam(D, r, u)) \in Nat
  BY UsesFinite
<1>6. CASE r = Root
  <2>1. Taken(w, objs, r, u) = Cardinality(AsValue(w, objs, u)) + Cardinality(AsDefault(w, objs, u))
                                 + Cardinality(AsName(w, objs, u))
    BY <1>6 DEF Taken, GiveBack, Holds
  <2>2. Cardinality(Val(T, r, u)) = Cardinality(Val(S, r, u)) - Cardinality(AsValue(w, objs, u))
    BY <1>2, <1>6
  <2>3. /\ Cardinality(Def(E, r, u)) = Cardinality(Def(D, r, u)) - Cardinality(AsDefault(w, objs, u))
        /\ Cardinality(Nam(E, r, u)) = Cardinality(Nam(D, r, u)) - Cardinality(AsName(w, objs, u))
    BY <1>3, <1>6
  <2>4. Taken(w, objs, r, u) \in Nat
    BY <1>2, <1>3, <2>1
  <2>5. Uses(E, T, r, u) = Uses(D, S, r, u) - Taken(w, objs, r, u)
    BY <1>2, <1>3, <1>4, <1>5, <2>1, <2>2, <2>3
  <2> QED BY <1>1, <2>4, <2>5
<1>7. CASE r = Proto
  <2>1. Taken(w, objs, r, u) = 0
    BY <1>7, Constants DEF Taken
  <2>2. Uses(E, T, r, u) = Uses(D, S, r, u)
    BY <1>2, <1>3, <1>4, <1>7
  <2>3. Uses(D, S, r, u) \in Nat
    BY UsesSum
  <2> QED BY <1>1, <2>1, <2>2, <2>3
<1> QED BY <1>6, <1>7
\* x is w after the values, symbols and names of objs, whose graphs are gs, are given back.
Gone(w, objs, gs, x) ==
  /\ x \in Worlds
  /\ x.dict = Cleared(w.dict, gs) /\ x.str = Emptied(w.str, objs)
  /\ \A o \in Object \ objs : x.room[o] = w.room[o]
  /\ \A r \in {Root, Proto}, u \in String :
       x.ref[<<r, u>>] = w.ref[<<r, u>>] - Taken(w, objs, r, u)

Parted(K, gs) == \A o \in K : RootOf(o) \notin gs

LEMMA ClearedAt ==
  ASSUME NEW D \in Dicts, NEW gs, NEW g \in Graph, NEW k \in Kind
  PROVE  /\ g \in gs => \A n \in Name : Cleared(D, gs)[<<g, k>>][n] = NULL
         /\ g \notin gs => Cleared(D, gs)[<<g, k>>] = D[<<g, k>>]
         /\ g \notin gs => Size(Cleared(D, gs), <<g, k>>) = Size(D, <<g, k>>)
<1>1. <<g, k>> \in Dict
  BY DEF Dict
<1>2. PICK E : E = Cleared(D, gs)
  OBVIOUS
<1>3. g \in gs => \A n \in Name : E[<<g, k>>][n] = NULL
  BY <1>1, <1>2 DEF Cleared
<1>4. g \notin gs => E[<<g, k>>] = D[<<g, k>>]
  BY <1>1, <1>2 DEF Cleared
<1>5. g \notin gs => Size(E, <<g, k>>) = Size(D, <<g, k>>)
  BY <1>4 DEF Size
<1> QED BY <1>2, <1>3, <1>4, <1>5

LEMMA ClearedSymbols ==
  ASSUME NEW D \in Dicts, NEW L, L \subseteq Object, SymbolsOK(D, L), NEW gs, NEW K,
         K \cap Graph = (L \cap Graph) \ gs, Parted(K, gs)
  PROVE  SymbolsOK(Cleared(D, gs), K)
<1>1. PICK E : E = Cleared(D, gs)
  OBVIOUS
<1>2. ASSUME NEW g \in Graph \ K, NEW k \in Kind, NEW n \in Name PROVE E[<<g, k>>][n] = NULL
  <2>1. CASE g \in gs
    BY <1>1, <2>1, ClearedAt
  <2>2. CASE g \notin gs
    <3>1. g \in Graph \ L
      BY <2>2
    <3> QED BY <1>1, <2>2, <3>1, ClearedAt DEF SymbolsOK
  <2> QED BY <2>1, <2>2
<1>3. ASSUME NEW g \in K \cap Graph, NEW k \in Kind, NEW n \in Name, E[<<g, k>>][n] # NULL
      PROVE  E[Top(g, k)][n] # NULL /\ E[Top(g, k)][n].id = E[<<g, k>>][n].id
  <2>1. g \in L \cap Graph /\ g \notin gs /\ RootOf(g) \in Graph /\ RootOf(g) \notin gs
    BY Roots, Constants DEF Parted
  <2>2. E[<<g, k>>] = D[<<g, k>>] /\ E[Top(g, k)] = D[Top(g, k)]
    BY <1>1, <2>1, ClearedAt DEF Top
  <2> QED BY <1>3, <2>1, <2>2 DEF SymbolsOK
<1>4. ASSUME NEW r \in {Root, Proto}, NEW k \in Kind PROVE Numbered(E, <<r, k>>)
  <2>1. r \in Graph
    BY Constants
  <2>2. CASE r \in gs
    <3>1. \A n \in Name : E[<<r, k>>][n] = NULL
      BY <1>1, <2>1, <2>2, ClearedAt
    <3>2. Size(E, <<r, k>>) = 0
      <4>1. {n \in Name : E[<<r, k>>][n] # NULL} = {}
        BY <3>1
      <4> QED BY <4>1, FS_EmptySet DEF Size
    <3> QED BY <3>1, <3>2 DEF Numbered
  <2>3. CASE r \notin gs
    <3>1. E[<<r, k>>] = D[<<r, k>>] /\ Size(E, <<r, k>>) = Size(D, <<r, k>>)
      BY <1>1, <2>1, <2>3, ClearedAt
    <3>2. Numbered(D, <<r, k>>)
      BY DEF SymbolsOK
    <3> QED BY <3>1, <3>2 DEF Numbered
  <2> QED BY <2>2, <2>3
<1> QED BY <1>1, <1>2, <1>3, <1>4 DEF SymbolsOK

\* Objects of L that are given back together.
Leaving(L, objs, gs) ==
  /\ objs \subseteq L /\ Proto \notin objs /\ gs = objs \cap Graph
  /\ Parted(L \ objs, gs)

LEMMA GoneIs ==
  ASSUME NEW w, NEW L, L \subseteq Object, Good(w, L), LocalBut(w.dict, w.str, {}),
         NEW objs, NEW gs, Leaving(L, objs, gs), NEW x, Gone(w, objs, gs, x),
         Looking(x.view, x.nview, L \ objs)
  PROVE  Good(x, L \ objs) /\ LocalBut(x.dict, x.str, {})
<1>1. PICK K, D, S : K = L \ objs /\ D = w.dict /\ S = w.str
  OBVIOUS
<1>2. /\ w \in Worlds /\ D \in Dicts /\ SymbolsOK(D, L) /\ ValuesOK(D, S, w.room, L)
      /\ Counted(D, S, w.ref) /\ w.ref \in Counts
  BY <1>1 DEF Good, Worlds, Dicts, Counts
<1>3. /\ K \cap Graph = (L \cap Graph) \ gs /\ Parted(K, gs)
      /\ objs \subseteq L /\ Proto \notin objs /\ gs = objs \cap Graph
  BY <1>1 DEF Leaving
<1>4. /\ x \in Worlds /\ x.dict = Cleared(D, gs) /\ x.str = Emptied(S, objs)
      /\ \A o \in Object \ objs : x.room[o] = w.room[o]
      /\ \A r \in {Root, Proto}, u \in String :
           x.ref[<<r, u>>] = w.ref[<<r, u>>] - Taken(w, objs, r, u)
  BY <1>1 DEF Gone
<1>5. SymbolsOK(x.dict, K)
  BY <1>2, <1>3, <1>4, ClearedSymbols
<1>6. \A o \in Object : (o \in objs => x.str[o] = <<>>) /\ (o \notin objs => x.str[o] = S[o])
  BY <1>4 DEF Emptied
<1>7. ValuesOK(x.dict, x.str, x.room, K)
  <2>1. ASSUME NEW o \in K
        PROVE  /\ Len(x.str[o]) = Size(x.dict, TopDict(o)) /\ Len(x.str[o]) <= x.room[o]
               /\ MinAttr <= x.room[o]
    <3>1. o \in L /\ o \in Object /\ o \notin objs
      BY <1>1
    <3>2. RootOf(o) \in Graph /\ RootOf(o) \notin gs /\ KindOf(o) \in Kind
      BY <1>3, Roots, Constants DEF Parted
    <3>3. Size(x.dict, TopDict(o)) = Size(D, TopDict(o))
      BY <1>2, <1>4, <3>2, ClearedAt, Roots
    <3>4. x.str[o] = S[o] /\ x.room[o] = w.room[o]
      BY <1>4, <1>6, <3>1
    <3> QED BY <1>2, <3>1, <3>3, <3>4 DEF ValuesOK
  <2>2. ASSUME NEW o \in Object \ K PROVE x.str[o] = <<>>
    <3>1. o \in objs \/ o \in Object \ L
      BY <1>1
    <3> QED BY <1>2, <1>6, <3>1 DEF ValuesOK
  <2> QED BY <2>1, <2>2 DEF ValuesOK
<1>8. Held(w, objs)
  BY <1>1, <1>2, <1>3 DEF Held, ValuesOK
<1>9. Counted(x.dict, x.str, x.ref)
  <2> SUFFICES ASSUME NEW r \in {Root, Proto}, NEW u \in String
               PROVE  x.ref[<<r, u>>] = Uses(x.dict, x.str, r, u)
    BY DEF Counted
  <2>1. Uses(Cleared(w.dict, gs), Emptied(w.str, objs), r, u)
              = Uses(w.dict, w.str, r, u) - Taken(w, objs, r, u)
    BY <1>2, <1>3, <1>8, FreeCounts
  <2>2. w.ref[<<r, u>>] = Uses(w.dict, w.str, r, u)
    BY <1>1, <1>2 DEF Counted
  <2> QED BY <1>1, <1>4, <2>1, <2>2
<1>10. LocalBut(x.dict, x.str, {})
  <2> SUFFICES ASSUME NEW g \in Graph, NEW n \in Name, x.dict[<<g, "graph">>][n] # NULL
               PROVE  x.dict[<<g, "graph">>][n].def
                        = x.str[g][x.dict[<<RootOf(g), "graph">>][n].id + 1]
    BY DEF LocalBut
  <2>1. "graph" \in Kind
    BY DEF Kind
  <2>2. g \in K
    BY <1>5, <2>1 DEF SymbolsOK
  <2>3. g \notin gs /\ g \notin objs /\ RootOf(g) \in Graph /\ RootOf(g) \notin gs /\ g \in Object
    BY <1>1, <1>3, <2>2, Roots, Constants DEF Parted, Object
  <2>4. /\ x.dict[<<g, "graph">>] = D[<<g, "graph">>]
        /\ x.dict[<<RootOf(g), "graph">>] = D[<<RootOf(g), "graph">>] /\ x.str[g] = S[g]
    BY <1>2, <1>4, <1>6, <2>1, <2>3, ClearedAt
  <2> QED BY <1>1, <2>4 DEF LocalBut
<1>11. Good(x, K)
  BY <1>1, <1>4, <1>5, <1>7, <1>9 DEF Good
<1> QED BY <1>1, <1>10, <1>11

\* x is w after freeattr and freesym.
Freed(w, objs, x) ==
  /\ x \in Worlds
  /\ x.dict = w.dict /\ x.view = w.view /\ x.nview = w.nview /\ x.bad = w.bad
  /\ x.str = Emptied(w.str, objs)
  /\ \A o \in Object \ objs : x.room[o] = w.room[o]
  /\ \A r \in {Root, Proto}, u \in String :
       x.ref[<<r, u>>] = w.ref[<<r, u>>] - Taken(w, objs, r, u)

\* x is w but for the counts, the values and their arrays.
Lighter(w, C, S, R, x) ==
  /\ x \in Worlds /\ x.ref = C /\ x.str = S /\ x.room = R
  /\ x.dict = w.dict /\ x.view = w.view /\ x.nview = w.nview /\ x.bad = w.bad

LEMMA FreedFields ==
  ASSUME NEW w \in Worlds, NEW C \in Counts, NEW S \in Strs, NEW R \in Rooms
  PROVE  Lighter(w, C, S, R, [w EXCEPT !.ref = C, !.str = S, !.room = R])
BY DEF Worlds, Counts, Strs, Rooms, Lighter

LEMMA FreedIs ==
  ASSUME NEW w \in Worlds, NEW objs, Held(w, objs)
  PROVE  Freed(w, objs, Free(w, objs))
<1>1. PICK C, S, R :
        /\ C = [y \in DOMAIN w.ref |-> w.ref[y] - IF y[1] = Root THEN GiveBack(w, objs, y[2]) ELSE 0]
        /\ S = [o \in Object |-> IF o \in objs THEN <<>> ELSE w.str[o]]
        /\ R = [o \in Object |-> IF o \in objs THEN 0 ELSE w.room[o]]
  OBVIOUS
<1>2. PICK x : x = Free(w, objs)
  OBVIOUS
<1>3. x = [w EXCEPT !.ref = C, !.str = S, !.room = R]
  BY <1>1, <1>2 DEF Free
<1>4. w.ref \in Counts /\ w.str \in Strs /\ w.room \in Rooms
  BY DEF Worlds, Counts, Strs, Rooms
<1>5. \A r \in {Root, Proto}, u \in String : C[<<r, u>>] = w.ref[<<r, u>>] - Taken(w, objs, r, u)
  BY <1>1, <1>4 DEF Counts, Taken
<1>6. C \in Counts
  <2>1. DOMAIN C = {Root, Proto} \X String /\ C = [y \in {Root, Proto} \X String |-> C[y]]
    BY <1>1, <1>4 DEF Counts
  <2>2. ASSUME NEW y \in {Root, Proto} \X String PROVE C[y] \in Int
    <3>1. PICK r \in {Root, Proto}, u \in String : y = <<r, u>>
      OBVIOUS
    <3>2. Taken(w, objs, r, u) \in Nat
      BY FreeCounts
    <3>3. w.ref[<<r, u>>] \in Int
      BY <1>4 DEF Counts
    <3> QED BY <1>5, <3>1, <3>2, <3>3
  <2> QED BY <2>1, <2>2 DEF Counts
<1>7. S \in Strs /\ R \in Rooms
  BY <1>1, <1>4 DEF Strs, Rooms
<1>8. /\ x \in Worlds /\ x.ref = C /\ x.str = S /\ x.room = R
      /\ x.dict = w.dict /\ x.view = w.view /\ x.nview = w.nview /\ x.bad = w.bad
  <2>1. Lighter(w, C, S, R, [w EXCEPT !.ref = C, !.str = S, !.room = R])
    BY <1>6, <1>7, FreedFields
  <2> QED BY <1>3, <2>1 DEF Lighter
<1>9. S = Emptied(w.str, objs) /\ \A o \in Object \ objs : R[o] = w.room[o]
  BY <1>1 DEF Emptied
<1> QED BY <1>2, <1>5, <1>8, <1>9 DEF Freed

-----------------------------------------------------------------------------
(* agdelnode.                                                              *)

LEMMA AgdelnodeIs ==
  ASSUME NEW w, NEW L, NEW A, Sound(w, L, A), NEW n \in Node, n \in L
  PROVE  Sound(Free(w, {n}), L \ {n}, A)
<1>1. PICK K, x, objs, gs : K = L \ objs /\ objs = {n} /\ gs = {} /\ x = Free(w, {n})
  OBVIOUS
<1>2. Tree(L, A) /\ Good(w, L) /\ LocalBut(w.dict, w.str, {}) /\ (~PassesOwn => ~w.bad)
  BY DEF Sound
<1>3. L \subseteq Object /\ n \notin Graph /\ Proto \in Graph /\ Root \in Graph
  BY <1>2, Constants DEF Tree
<1>4. Leaving(L, objs, gs)
  BY <1>1, <1>3 DEF Leaving, Parted
<1>5. w \in Worlds /\ Held(w, objs)
  BY <1>1, <1>2, <1>3 DEF Good, Held, ValuesOK
<1>6. Freed(w, objs, x)
  BY <1>1, <1>5, FreedIs
<1>7. Cleared(w.dict, gs) = w.dict
  <2>1. w.dict = [d \in Dict |-> w.dict[d]]
    BY <1>5 DEF Worlds
  <2> QED BY <1>1, <2>1 DEF Cleared
<1>8. Gone(w, objs, gs, x)
  BY <1>6, <1>7 DEF Freed, Gone
<1>9. K \cap Graph = L \cap Graph
  BY <1>1, <1>3
<1>10. Rooted(K) /\ Looking(x.view, x.nview, K) /\ Outside(K, A) = Outside(L, A)
  BY <1>2, <1>6, <1>9, GraphsOnly DEF Tree, Good, Freed
<1>11. Good(x, K) /\ LocalBut(x.dict, x.str, {})
  BY <1>1, <1>2, <1>3, <1>4, <1>8, <1>10, GoneIs
<1>12. Tree(K, A)
  <2>1. Root \in L => Root \in K
    BY <1>1, <1>3
  <2>2. L # {Proto}
    BY <1>3
  <2>3. Root \in K /\ Proto \in K /\ K \subseteq Object
    BY <1>1, <1>2, <1>3, <2>1, <2>2 DEF Tree
  <2> QED BY <1>2, <1>9, <1>10, <2>3 DEF Tree
<1>13. ~PassesOwn => ~x.bad
  BY <1>2, <1>6 DEF Freed
<1> QED BY <1>1, <1>11, <1>12, <1>13 DEF Sound
-----------------------------------------------------------------------------
(* agclose.                                                                *)

Unviewed(V, gs) == [d \in Dict |-> IF d \in gs \X Kind THEN NULL ELSE V[d]]
Lookers(V, gs, d) == {e \in gs \X Kind : V[e] = d}
Fewer(V, N, gs) ==
  [d \in Dict |-> IF d \in gs \X Kind THEN 0 ELSE N[d] - Cardinality(Lookers(V, gs, d))]
Caught(V, N, gs) == \E d \in gs \X Kind : N[d] # Cardinality(Lookers(V, gs, d))

\* x is w after agdtclose.
Shutting(w, gs, x) ==
  /\ x \in Worlds
  /\ x.dict = Cleared(w.dict, gs)
  /\ x.view = Unviewed(w.view, gs) /\ x.nview = Fewer(w.view, w.nview, gs)
  /\ x.bad = Caught(w.view, w.nview, gs)
  /\ x.str = w.str /\ x.room = w.room /\ x.ref = w.ref

ShutWith(w, D, V, N, b) == [w EXCEPT !.dict = D, !.view = V, !.nview = N, !.bad = b]

\* x is w but for the dictionaries, their views and bad.
Redone(w, D, V, N, b, x) ==
  /\ x \in Worlds /\ x.dict = D /\ x.view = V /\ x.nview = N /\ x.bad = b
  /\ x.str = w.str /\ x.room = w.room /\ x.ref = w.ref

LEMMA ShutFields ==
  ASSUME NEW w \in Worlds, NEW D \in Dicts, NEW V \in [Dict -> Dict \cup {NULL}],
         NEW N \in [Dict -> Int], NEW b \in BOOLEAN
  PROVE  Redone(w, D, V, N, b, ShutWith(w, D, V, N, b))
BY DEF Worlds, Dicts, ShutWith, Redone

LEMMA LookersFinite ==
  ASSUME NEW gs, gs \subseteq Graph, NEW V, NEW d
  PROVE  IsFiniteSet(Lookers(V, gs, d)) /\ Cardinality(Lookers(V, gs, d)) \in Nat
<1>1. Lookers(V, gs, d) \subseteq Dict
  BY DEF Lookers, Dict
<1> QED BY <1>1, Sizes, FS_Subset, FS_CardinalityType

LEMMA ShutIs ==
  ASSUME NEW w \in Worlds, NEW gs, gs \subseteq Graph
  PROVE  Shutting(w, gs, Shut(w, gs))
<1>1. PICK D, V, N, b, x : /\ D = Cleared(w.dict, gs) /\ V = Unviewed(w.view, gs)
                           /\ N = Fewer(w.view, w.nview, gs) /\ b = Caught(w.view, w.nview, gs)
                           /\ x = Shut(w, gs)
  OBVIOUS
<1>2. x = ShutWith(w, D, V, N, b)
  BY <1>1 DEF Shut, ShutWith, Cleared, Unviewed, Fewer, Caught, Lookers
<1>3. w.dict \in Dicts /\ w.view \in [Dict -> Dict \cup {NULL}] /\ w.nview \in [Dict -> Int]
  BY DEF Worlds, Dicts
<1>4. D \in Dicts
  <2>1. [n \in Name |-> NULL] \in [Name -> Sym \cup {NULL}]
    OBVIOUS
  <2> QED BY <1>1, <1>3, <2>1 DEF Dicts, Cleared
<1>5. V \in [Dict -> Dict \cup {NULL}] /\ b \in BOOLEAN
  BY <1>1, <1>3 DEF Unviewed, Caught
<1>6. N \in [Dict -> Int]
  <2>1. \A d \in Dict : Cardinality(Lookers(w.view, gs, d)) \in Nat
    BY LookersFinite
  <2>2. \A d \in Dict : w.nview[d] - Cardinality(Lookers(w.view, gs, d)) \in Int
    BY <1>3, <2>1
  <2> QED BY <1>1, <2>2 DEF Fewer
<1>7. Redone(w, D, V, N, b, x)
  BY <1>2, <1>4, <1>5, <1>6, ShutFields
<1> QED BY <1>1, <1>7 DEF Redone, Shutting

\* With a graph go the graphs below it.
DownClosed(L, gs) == \A h \in (L \cap Graph) \ {Root, Proto} : Parent[h] \in gs => h \in gs

LEMMA ShutLooking ==
  ASSUME NEW V, NEW N, NEW L, Looking(V, N, L), NEW gs, gs \subseteq Graph, DownClosed(L, gs),
         NEW K, K \cap Graph = (L \cap Graph) \ gs
  PROVE  Looking(Unviewed(V, gs), Fewer(V, N, gs), K) /\ ~Caught(V, N, gs)
<1>1. PICK U, M : U = Unviewed(V, gs) /\ M = Fewer(V, N, gs)
  OBVIOUS
<1>2. \A d \in Dict : V[d] = ViewOf(L, d) /\ N[d] = Cardinality(Viewers(V, d))
  BY DEF Looking
<1>3. \A d \in Dict : d \in gs \X Kind <=> d[1] \in gs
  BY DEF Dict
<1>4. ASSUME NEW d \in Dict PROVE U[d] = ViewOf(K, d)
  <2>1. d[1] \in Graph
    BY DEF Dict
  <2>2. CASE d[1] \in gs
    <3>1. U[d] = NULL /\ d[1] \notin K
      BY <1>1, <1>3, <2>1, <2>2 DEF Unviewed
    <3> QED BY <3>1 DEF ViewOf
  <2>3. CASE d[1] \notin gs
    <3>1. U[d] = V[d] /\ (d[1] \in K <=> d[1] \in L)
      BY <1>1, <1>3, <2>1, <2>3 DEF Unviewed
    <3> QED BY <1>2, <3>1 DEF ViewOf
  <2> QED BY <2>2, <2>3
<1>5. ASSUME NEW d \in Dict
      PROVE  /\ IsFiniteSet(Viewers(V, d)) /\ Lookers(V, gs, d) \subseteq Viewers(V, d)
             /\ Viewers(U, d) = Viewers(V, d) \ Lookers(V, gs, d)
  <2>1. IsFiniteSet(Viewers(V, d))
    <3>1. Viewers(V, d) \subseteq Dict
      BY DEF Viewers
    <3> QED BY <3>1, Sizes, FS_Subset
  <2>2. Lookers(V, gs, d) \subseteq Viewers(V, d)
    BY DEF Lookers, Viewers, Dict
  <2>3. \A e \in Dict : (e \in gs \X Kind => U[e] = NULL) /\ (e \notin gs \X Kind => U[e] = V[e])
    BY <1>1 DEF Unviewed
  <2>4. d # NULL
    BY Constants
  <2>5. Viewers(U, d) = Viewers(V, d) \ Lookers(V, gs, d)
    BY <2>3, <2>4 DEF Viewers, Lookers
  <2> QED BY <2>1, <2>2, <2>5
<1>6. ASSUME NEW d \in Dict, d \in gs \X Kind PROVE Viewers(V, d) = Lookers(V, gs, d)
  <2>1. ASSUME NEW e \in Viewers(V, d) PROVE e \in gs \X Kind
    <3>1. e \in Dict /\ V[e] = d /\ d # NULL /\ d[1] \in gs
      BY <1>3, <1>6, <2>1, Constants DEF Viewers
    <3>2. e[1] \in (L \cap Graph) \ {Root, Proto} /\ d = <<Parent[e[1]], e[2]>>
      BY <1>2, <3>1 DEF ViewOf, Dict
    <3>3. e[1] \in gs
      BY <3>1, <3>2 DEF DownClosed
    <3> QED BY <1>3, <3>1, <3>3
  <2> QED BY <2>1 DEF Viewers, Lookers, Dict
<1>7. ~Caught(V, N, gs)
  <2>1. \A d \in gs \X Kind : d \in Dict
    BY DEF Dict
  <2> QED BY <1>2, <1>6, <2>1 DEF Caught
<1>8. ASSUME NEW d \in Dict PROVE M[d] = Cardinality(Viewers(U, d))
  <2>1. CASE d \in gs \X Kind
    <3>1. M[d] = 0
      BY <1>1, <2>1 DEF Fewer
    <3>2. Viewers(U, d) = {}
      BY <1>5, <1>6, <2>1
    <3> QED BY <3>1, <3>2, FS_EmptySet
  <2>2. CASE d \notin gs \X Kind
    <3>1. M[d] = N[d] - Cardinality(Lookers(V, gs, d))
      BY <1>1, <2>2 DEF Fewer
    <3>2. Cardinality(Viewers(V, d) \ Lookers(V, gs, d))
             = Cardinality(Viewers(V, d)) - Cardinality(Lookers(V, gs, d))
      BY <1>5, Loses
    <3> QED BY <1>2, <1>5, <3>1, <3>2
  <2> QED BY <2>1, <2>2
<1>9. Looking(U, M, K)
  BY <1>4, <1>8 DEF Looking
<1> QED BY <1>1, <1>7, <1>9

LEMMA RootedWithout ==
  ASSUME NEW L, Rooted(L), NEW gs, DownClosed(L, gs), NEW K, K \subseteq L,
         K \cap Graph = (L \cap Graph) \ gs
  PROVE  Rooted(K)
<1> SUFFICES ASSUME NEW g \in K \cap Graph PROVE \E q : Ancestry(K, q, g)
  BY DEF Rooted
<1>1. PICK q : Ancestry(L, q, g)
  BY DEF Rooted
<1>2. /\ q \in Seq(Graph) /\ Len(q) \in Nat /\ q[1] = g
      /\ \A i \in 1 .. Len(q) : q[i] \in L /\ q[i] \in Graph
      /\ \A i \in 1 .. Len(q) - 1 : q[i] \notin {Root, Proto} /\ Parent[q[i]] = q[i + 1]
  BY <1>1 DEF Ancestry
<1>3. ASSUME NEW j \in 1 .. Len(q), q[j] \in gs PROVE FALSE
  <2>1. PICK I : I = {i \in 1 .. Len(q) : q[i] \in gs}
    OBVIOUS
  <2>2. I \in SUBSET Nat /\ I # {}
    BY <1>2, <1>3, <2>1
  <2>3. PICK i \in I : \A l \in I : i <= l
    BY <2>2, NatLeast
  <2>4. i \in 1 .. Len(q) /\ q[i] \in gs /\ i # 1
    BY <1>2, <2>1, <2>3
  <2>5. i - 1 \in 1 .. Len(q) /\ i - 1 \in 1 .. Len(q) - 1 /\ (i - 1) + 1 = i /\ ~(i <= i - 1)
    BY <1>2, <2>4
  <2>6. i - 1 \notin I
    BY <2>3, <2>5
  <2>7. PICK e : e = q[i - 1]
    OBVIOUS
  <2>8. e \in (L \cap Graph) \ {Root, Proto} /\ Parent[e] = q[i] /\ e \notin gs
    BY <1>2, <2>1, <2>5, <2>6, <2>7
  <2> QED BY <2>4, <2>8 DEF DownClosed
<1>4. \A i \in 1 .. Len(q) : q[i] \in K
  BY <1>2, <1>3
<1>5. Ancestry(K, q, g)
  BY <1>1, <1>4 DEF Ancestry
<1> QED BY <1>5

LEMMA CloseIs ==
  ASSUME NEW w, NEW L, NEW A, Sound(w, L, A), NEW objs, NEW gs, Leaving(L, objs, gs),
         DownClosed(L, gs)
  PROVE  Sound(Shut(Free(w, objs), gs), L \ objs, A \ gs)
<1>1. PICK K, y, x : K = L \ objs /\ y = Free(w, objs) /\ x = Shut(y, gs)
  OBVIOUS
<1>2. Tree(L, A) /\ Good(w, L) /\ LocalBut(w.dict, w.str, {})
  BY DEF Sound
<1>3. L \subseteq Object /\ objs \subseteq L /\ Proto \notin objs /\ gs = objs \cap Graph
      /\ gs \subseteq Graph /\ Parted(K, gs) /\ K \cap Graph = (L \cap Graph) \ gs
  BY <1>1, <1>2 DEF Tree, Leaving
<1>4. w \in Worlds /\ Held(w, objs) /\ Looking(w.view, w.nview, L)
  BY <1>2, <1>3 DEF Good, Held, ValuesOK
<1>5. Freed(w, objs, y)
  BY <1>1, <1>4, FreedIs
<1>6. Shutting(y, gs, x)
  <2>1. y \in Worlds
    BY <1>5 DEF Freed
  <2> QED BY <1>1, <1>3, <2>1, ShutIs
<1>7. Gone(w, objs, gs, x) /\ x.view = Unviewed(w.view, gs) /\ x.nview = Fewer(w.view, w.nview, gs)
      /\ x.bad = Caught(w.view, w.nview, gs)
  BY <1>5, <1>6 DEF Freed, Shutting, Gone
<1>8. Looking(x.view, x.nview, K) /\ ~x.bad
  BY <1>3, <1>4, <1>7, ShutLooking
<1>9. Good(x, K) /\ LocalBut(x.dict, x.str, {})
  BY <1>1, <1>2, <1>3, <1>7, <1>8, GoneIs
<1>10. Rooted(K)
  BY <1>1, <1>2, <1>3, RootedWithout DEF Tree
<1>11. Root \in K \/ K = {Proto}
  <2>1. Proto \in K /\ (Root \in L \/ L = {Proto})
    BY <1>1, <1>2, <1>3 DEF Tree
  <2>2. CASE Root \in objs
    <3>1. Root \in gs
      BY <1>3, <2>2, Constants
    <3>2. \A o \in K : o = Proto
      BY <1>3, <3>1, Roots DEF Parted
    <3> QED BY <2>1, <3>2
  <2>3. CASE Root \notin objs
    BY <1>1, <2>1, <2>3
  <2> QED BY <2>2, <2>3
<1>12. Tree(K, A \ gs)
  <2>1. Outside(K, A \ gs) \subseteq Outside(L, A)
    BY <1>1, <1>3 DEF Outside
  <2>2. \A g, h \in Outside(K, A \ gs) : g = h
    BY <1>2, <2>1 DEF Tree
  <2>3. A \ gs \subseteq (K \cap Graph) \ {Root, Proto}
    BY <1>2, <1>3 DEF Tree
  <2> QED BY <1>1, <1>2, <1>3, <1>10, <1>11, <2>2, <2>3 DEF Tree
<1> QED BY <1>1, <1>8, <1>9, <1>12 DEF Sound

\* What agclose closes.
Closed(g) == Below(g) \cup IF g = Root THEN Node \cap live ELSE {}

LEMMA ClosedIs ==
  ASSUME Tree(live, attached), NEW g \in (live \cap Graph) \ {Proto},
         Outside(live, attached) \subseteq {g}
  PROVE  Leaving(live, Closed(g), Below(g)) /\ DownClosed(live, Below(g))
<1>1. attached \subseteq (live \cap Graph) \ {Root, Proto} /\ attached \subseteq Graph
      /\ live \subseteq Object
  BY DEF Tree
<1>2. PICK gs, objs : gs = Below(g) /\ objs = Closed(g)
  OBVIOUS
<1>3. gs \subseteq (live \cap Graph) \ {Proto} /\ (g # Root => Root \notin gs)
  <2>1. PICK T : T = {h \in (live \cap Graph) \ {Proto} : g # Root => h # Root}
    OBVIOUS
  <2>2. g \in T /\ \A h \in attached : h \in T
    BY <1>1, <2>1
  <2>3. Below(g) \subseteq T
    BY <1>1, <2>2, BelowWithin
  <2> QED BY <1>2, <2>1, <2>3
<1>4. objs \subseteq live /\ Proto \notin objs /\ gs = objs \cap Graph
  BY <1>2, <1>3, Constants DEF Closed
<1>5. DownClosed(live, gs)
  <2> SUFFICES ASSUME NEW h \in (live \cap Graph) \ {Root, Proto}, Parent[h] \in gs PROVE h \in gs
    BY DEF DownClosed
  <2>1. CASE h \in attached
    BY <1>1, <1>2, <2>1, BelowDown
  <2>2. CASE h \notin attached
    <3>1. h = g
      BY <2>2 DEF Outside
    <3> QED BY <1>2, <3>1, BelowSelf
  <2> QED BY <2>1, <2>2
<1>6. Parted(live \ objs, gs)
  <2>1. CASE g # Root
    <3>1. Root \notin gs /\ Proto \notin gs
      BY <1>3, <2>1
    <3> QED BY <3>1, Roots DEF Parted
  <2>2. CASE g = Root
    <3>1. Outside(live, attached) = {}
      BY <2>2 DEF Outside
    <3>2. gs = {h \in live \cap Graph : RootOf(h) = Root}
      BY <1>2, <2>2, <3>1, BelowRoot
    <3>3. \A o \in live \ objs : o \in Graph /\ RootOf(o) # Root
      BY <1>1, <1>2, <2>2, <3>2 DEF Closed, Object
    <3>4. \A o \in live \ objs : RootOf(o) = Proto
      BY <3>3, Roots
    <3> QED BY <1>3, <3>4 DEF Parted
  <2> QED BY <2>1, <2>2
<1> QED BY <1>2, <1>4, <1>5, <1>6 DEF Leaving
-----------------------------------------------------------------------------
(* agsubg.                                                                 *)

\* nview counts the dictionaries that look into one.
Tallied(V, N) == \A e \in Dict : N[e] = Cardinality(Viewers(V, e))

LEMMA LinkedTallied ==
  ASSUME NEW w \in Worlds, NEW d \in Dict, NEW v, NEW x, Linked(w, d, v, x), Tallied(w.view, w.nview)
  PROVE  Tallied(x.view, x.nview)
<1> SUFFICES ASSUME NEW e \in Dict PROVE x.nview[e] = Cardinality(Viewers(x.view, e))
  BY DEF Tallied
<1>1. PICK S, T : S = Viewers(w.view, e) /\ T = Viewers(x.view, e)
  OBVIOUS
<1>2. /\ x.view = [w.view EXCEPT ![d] = v] /\ DOMAIN w.view = Dict
      /\ x.nview[e] = w.nview[e] - One(e = w.view[d]) + One(e = v)
  BY DEF Linked, Worlds
<1>3. \A f : f # d => (f \in S <=> f \in T)
  BY <1>1, <1>2 DEF Viewers
<1>4. IsFiniteSet(S)
  <2>1. S \subseteq Dict
    BY <1>1 DEF Viewers
  <2> QED BY <2>1, Sizes, FS_Subset
<1>5. Cardinality(T) = Cardinality(S) - One(d \in S) + One(d \in T)
  BY <1>3, <1>4, Moved
<1>6. (d \in S <=> e = w.view[d]) /\ (d \in T <=> e = v)
  BY <1>1, <1>2 DEF Viewers
<1>7. One(d \in S) = One(e = w.view[d]) /\ One(d \in T) = One(e = v)
  BY <1>6 DEF One
<1>8. w.nview[e] = Cardinality(S)
  BY <1>1 DEF Tallied
<1> QED BY <1>1, <1>2, <1>5, <1>7, <1>8

LEMMA JoinIs ==
  ASSUME NEW w \in Worlds, NEW L, L \subseteq Object, Rooted(L), Seen(w.view, L),
         NEW g \in Graph \ L, NEW p \in L \cap Graph, NEW k \in Kind
  PROVE  /\ Linked(w, <<g, k>>, <<p, k>>, Dtview(w, <<g, k>>, <<p, k>>))
         /\ Seen(Dtview(w, <<g, k>>, <<p, k>>).view, L)
<1>1. PICK d, v, x : d = <<g, k>> /\ v = <<p, k>> /\ x = Dtview(w, d, v)
  OBVIOUS
<1>2. d \in Dict /\ v \in Dict
  BY <1>1 DEF Dict
<1>3. NoWay(w, v, d)
  <2>1. \E q : Through(w, L, p, k, q)
    BY PathGraphs
  <2>2. PICK q : Ancestry(L, q, p) /\ Path(w, v) = [i \in 1 .. Len(q) |-> <<q[i], k>>]
    BY <1>1, <2>1 DEF Through
  <2>3. Range(Path(w, v)) = {<<q[i], k>> : i \in 1 .. Len(q)}
    BY <2>2 DEF Range
  <2>4. \A i \in 1 .. Len(q) : q[i] # g
    BY <2>2 DEF Ancestry
  <2>5. d \notin Range(Path(w, v))
    BY <1>1, <2>3, <2>4
  <2> QED BY <2>5 DEF NoWay
<1>4. Linked(w, d, v, x)
  BY <1>1, <1>2, <1>3, DtviewIs
<1>5. Seen(x.view, L)
  <2>1. x.view = [w.view EXCEPT ![d] = v] /\ DOMAIN w.view = Dict
    BY <1>4 DEF Linked, Worlds
  <2>2. \A h \in L \cap Graph, j \in Kind : <<h, j>> \in Dict /\ <<h, j>> # d
    BY <1>1 DEF Dict
  <2> QED BY <2>1, <2>2 DEF Seen
<1> QED BY <1>1, <1>4, <1>5

LEMMA AncestryMore ==
  ASSUME NEW L, NEW K, L \subseteq K, NEW q, NEW g, Ancestry(L, q, g)
  PROVE  Ancestry(K, q, g)
BY DEF Ancestry

LEMMA AncestryOf ==
  ASSUME NEW K, NEW p, NEW q, Ancestry(K, q, p), NEW g \in Graph \ {Root, Proto}, g \in K,
         Parent[g] = p, p # Proto, \A i \in 1 .. Len(q) : q[i] # g
  PROVE  Ancestry(K, <<g>> \o q, g)
<1>1. PICK s : s = <<g>> \o q
  OBVIOUS
<1>2. /\ q \in Seq(Graph) /\ q # <<>> /\ Len(q) \in Nat /\ Len(q) >= 1
      /\ q[1] = p /\ q[Len(q)] = RootOf(p)
      /\ \A i \in 1 .. Len(q) : q[i] \in K /\ RootOf(q[i]) = RootOf(p)
      /\ \A i \in 1 .. Len(q) - 1 : q[i] \notin {Root, Proto} /\ Parent[q[i]] = q[i + 1]
      /\ \A i, j \in 1 .. Len(q) : q[i] = q[j] => i = j
  BY DEF Ancestry
<1>3. RootOf(p) = Root /\ RootOf(g) = Root
  BY DEF RootOf
<1>4. /\ s \in Seq(Graph) /\ Len(s) = Len(q) + 1 /\ s # <<>> /\ s[1] = g
      /\ \A i \in 1 .. Len(q) : s[i + 1] = q[i]
  BY <1>1, <1>2
<1>5. \A i \in 1 .. Len(s) : i # 1 => i - 1 \in 1 .. Len(q) /\ s[i] = q[i - 1]
  <2> TAKE i \in 1 .. Len(s)
  <2> HAVE i # 1
  <2>1. i - 1 \in 1 .. Len(q) /\ (i - 1) + 1 = i
    BY <1>2, <1>4
  <2> QED BY <1>4, <2>1
<1>6. s[Len(s)] = RootOf(g)
  <2>1. Len(q) \in 1 .. Len(q) /\ s[Len(q) + 1] = q[Len(q)]
    BY <1>2, <1>4
  <2> QED BY <1>2, <1>3, <1>4, <2>1
<1>7. \A i \in 1 .. Len(s) : s[i] \in K /\ RootOf(s[i]) = RootOf(g)
  <2> TAKE i \in 1 .. Len(s)
  <2>1. CASE i = 1
    BY <1>4, <2>1
  <2>2. CASE i # 1
    BY <1>2, <1>3, <1>5, <2>2
  <2> QED BY <2>1, <2>2
<1>8. \A i \in 1 .. Len(s) - 1 : s[i] \notin {Root, Proto} /\ Parent[s[i]] = s[i + 1]
  <2> TAKE i \in 1 .. Len(s) - 1
  <2>1. i \in 1 .. Len(q) /\ i \in 1 .. Len(s) /\ s[i + 1] = q[i]
    BY <1>2, <1>4
  <2>2. CASE i = 1
    BY <1>2, <1>4, <2>1, <2>2
  <2>3. CASE i # 1
    <3>1. i - 1 \in 1 .. Len(q) - 1 /\ (i - 1) + 1 = i /\ s[i] = q[i - 1]
      BY <1>2, <1>5, <2>1, <2>3
    <3> QED BY <1>2, <2>1, <3>1
  <2> QED BY <2>2, <2>3
<1>9. \A i, j \in 1 .. Len(s) : s[i] = s[j] => i = j
  <2> SUFFICES ASSUME NEW i \in 1 .. Len(s), NEW j \in 1 .. Len(s), s[i] = s[j] PROVE i = j
    OBVIOUS
  <2>1. CASE i = 1 \/ j = 1
    BY <1>4, <1>5, <2>1
  <2>2. CASE i # 1 /\ j # 1
    <3>1. i - 1 \in 1 .. Len(q) /\ j - 1 \in 1 .. Len(q) /\ q[i - 1] = q[j - 1]
      BY <1>5, <2>2
    <3>2. i - 1 = j - 1
      BY <1>2, <3>1
    <3>3. i \in Int /\ j \in Int
      BY <1>2, <1>4
    <3> QED BY <3>2, <3>3
  <2> QED BY <2>1, <2>2
<1>10. Ancestry(K, s, g)
  BY <1>4, <1>6, <1>7, <1>8, <1>9 DEF Ancestry
<1> QED BY <1>1, <1>10

LEMMA AgsubgIs ==
  ASSUME NEW w, NEW L, NEW A, Sound(w, L, A), NEW g \in Graph \ L, Parent[g] \in L
  PROVE  Sound(Makeattrs(Makedatadict(w, g), Parent[g], g), L \cup {g}, A \cup {g})
<1>1. PICK K, p : K = L \cup {g} /\ p = Parent[g]
  OBVIOUS
<1>2. /\ Tree(L, A) /\ Good(w, L) /\ LocalBut(w.dict, w.str, {}) /\ (~PassesOwn => ~w.bad)
      /\ L \subseteq Object /\ Rooted(L) /\ Looking(w.view, w.nview, L) /\ SymbolsOK(w.dict, L)
      /\ w \in Worlds /\ ValuesOK(w.dict, w.str, w.room, L) /\ Counted(w.dict, w.str, w.ref)
  BY DEF Sound, Tree, Good
<1>3. /\ g \in Graph \ {Root, Proto} /\ p \in L \cap Graph /\ p # Proto /\ p # g
      /\ RootOf(g) = Root /\ RootOf(p) = Root /\ g \in Object
  <2>1. p # NULL
    BY <1>1, <1>2, Constants DEF Object
  <2>2. p \in Graph /\ p # Proto /\ g # Root /\ g # Proto
    BY <1>1, <2>1, Constants
  <2> QED BY <1>1, <2>2 DEF RootOf, Object
<1>4. PICK w1, w2 : /\ w1 = Dtview(w, <<g, "node">>, <<p, "node">>)
                    /\ w2 = Dtview(w1, <<g, "graph">>, <<p, "graph">>)
  OBVIOUS
<1>5. "node" \in Kind /\ "graph" \in Kind /\ \A k \in Kind : k = "node" \/ k = "graph"
  BY DEF Kind
<1>6. Linked(w, <<g, "node">>, <<p, "node">>, w1) /\ Seen(w1.view, L)
  <2>1. Seen(w.view, L)
    BY <1>2, LookingSeen
  <2> QED BY <1>2, <1>3, <1>4, <1>5, <2>1, JoinIs
<1>7. w1 \in Worlds
  BY <1>6 DEF Linked
<1>8. Linked(w1, <<g, "graph">>, <<p, "graph">>, w2)
  BY <1>2, <1>3, <1>4, <1>5, <1>6, <1>7, JoinIs
<1>9. /\ w2 \in Worlds /\ w2.dict = w.dict /\ w2.str = w.str /\ w2.room = w.room
      /\ w2.ref = w.ref /\ w2.bad = w.bad
      /\ w1.view = [w.view EXCEPT ![<<g, "node">>] = <<p, "node">>]
      /\ w2.view = [w1.view EXCEPT ![<<g, "graph">>] = <<p, "graph">>]
  BY <1>6, <1>8 DEF Linked
<1>10. Looking(w2.view, w2.nview, K)
  <2>1. <<g, "node">> \in Dict /\ <<g, "graph">> \in Dict
    BY <1>5 DEF Dict
  <2>2. Tallied(w.view, w.nview)
    BY <1>2 DEF Looking, Tallied
  <2>3. Tallied(w1.view, w1.nview)
    BY <1>2, <1>6, <2>1, <2>2, LinkedTallied
  <2>4. Tallied(w2.view, w2.nview)
    BY <1>7, <1>8, <2>1, <2>3, LinkedTallied
  <2>5. ASSUME NEW h \in Graph, NEW k \in Kind PROVE w2.view[<<h, k>>] = ViewOf(K, <<h, k>>)
    <3>1. <<h, k>> \in Dict /\ DOMAIN w.view = Dict /\ DOMAIN w1.view = Dict
      BY <1>2, <1>7 DEF Dict, Worlds
    <3>2. CASE h = g
      <4>1. ViewOf(K, <<h, k>>) = <<p, k>>
        BY <1>1, <1>3, <3>2 DEF ViewOf
      <4>2. CASE k = "node"
        BY <1>9, <3>1, <3>2, <4>1, <4>2
      <4>3. CASE k = "graph"
        BY <1>9, <3>1, <3>2, <4>1, <4>3
      <4> QED BY <1>5, <4>2, <4>3
    <3>3. CASE h # g
      <4>1. w2.view[<<h, k>>] = w.view[<<h, k>>]
        BY <1>9, <3>1, <3>3
      <4>2. ViewOf(K, <<h, k>>) = ViewOf(L, <<h, k>>)
        BY <1>1, <3>3 DEF ViewOf
      <4>3. w.view[<<h, k>>] = ViewOf(L, <<h, k>>)
        BY <1>2, <3>1 DEF Looking
      <4> QED BY <4>1, <4>2, <4>3
    <3> QED BY <3>2, <3>3
  <2>6. \A d \in Dict : w2.view[d] = ViewOf(K, d)
    BY <2>5 DEF Dict
  <2> QED BY <2>4, <2>6 DEF Looking, Tallied
<1>11. SymbolsOK(w2.dict, K)
  <2>1. \A k \in Kind, n \in Name : w.dict[<<g, k>>][n] = NULL
    BY <1>2 DEF SymbolsOK
  <2> QED BY <1>1, <1>2, <1>9, <2>1 DEF SymbolsOK
<1>12. Rooted(K)
  <2> SUFFICES ASSUME NEW h \in K \cap Graph PROVE \E q : Ancestry(K, q, h)
    BY DEF Rooted
  <2>1. L \subseteq K /\ g \in K
    BY <1>1
  <2>2. CASE h \in L
    <3>1. PICK q : Ancestry(L, q, h)
      BY <1>2, <2>2 DEF Rooted
    <3> QED BY <2>1, <3>1, AncestryMore
  <2>3. CASE h = g
    <3>1. PICK q : Ancestry(L, q, p)
      BY <1>2, <1>3 DEF Rooted
    <3>2. Ancestry(K, q, p) /\ \A i \in 1 .. Len(q) : q[i] # g
      BY <2>1, <3>1, AncestryMore DEF Ancestry
    <3>3. Ancestry(K, <<g>> \o q, g)
      BY <1>1, <1>3, <2>1, <3>2, AncestryOf
    <3> QED BY <2>3, <3>3
  <2> QED BY <1>1, <2>2, <2>3
<1>13. Tree(K, A \cup {g})
  <2>1. Outside(K, A \cup {g}) \subseteq Outside(L, A)
    BY <1>1 DEF Outside
  <2>2. \A e, f \in Outside(K, A \cup {g}) : e = f
    BY <1>2, <2>1 DEF Tree
  <2>3. Root \in L
    BY <1>2, <1>3 DEF Tree
  <2> QED BY <1>1, <1>2, <1>3, <1>12, <2>2, <2>3 DEF Tree
<1>14. PICK d, x : d = <<p, KindOf(g)>> /\ x = Makeattrs(w2, p, g)
  OBVIOUS
<1>15. Fresh(w2, L, g, d, x)
  <2>1. /\ K \subseteq Object /\ p \in K \cap Graph /\ RootOf(p) = RootOf(g) /\ g \notin L
        /\ ValuesOK(w2.dict, w2.str, w2.room, L) /\ Counted(w2.dict, w2.str, w2.ref)
    BY <1>1, <1>2, <1>3, <1>9
  <2> QED BY <1>1, <1>9, <1>10, <1>11, <1>12, <1>14, <2>1, MakeattrsIs
<1>16. LocalApart(w2.dict, w2.str, g) /\ Kept(w2.dict, <<g, "graph">>, Syms(w2, d))
  <2>1. \A n \in Name : w2.dict[<<g, "graph">>][n] = NULL
    BY <1>2, <1>5, <1>9 DEF SymbolsOK
  <2> QED BY <1>2, <1>9, <2>1 DEF LocalBut, LocalApart, Kept
<1>17. Sound(x, K, A \cup {g})
  <2>1. ~PassesOwn => ~w2.bad
    BY <1>2, <1>9
  <2> QED BY <1>1, <1>3, <1>9, <1>11, <1>13, <1>15, <1>16, <2>1, FreshSound
<1>18. Makedatadict(w, g) = w2
  BY <1>1, <1>4 DEF Makedatadict
<1> QED BY <1>1, <1>14, <1>17, <1>18
-----------------------------------------------------------------------------
(* agopen.                                                                 *)

\* E is D with the symbols of ProtoGraph in the root's dictionary too.
CopyOf(D, E, k) ==
  /\ E \in Dicts /\ E[<<Root, k>>] = D[<<Proto, k>>]
  /\ \A d \in Dict : d # <<Root, k>> => E[d] = D[d]

\* The root has no symbols of a kind.
Unset(D, k) == \A n \in Name : D[<<Root, k>>][n] = NULL

\* The names of symbols, each for itself.
NamesOf(D, d) == [n \in NamesIn(D, d) |-> n]
TextsOf(D, d) == [n \in NamesIn(D, d) |-> D[d][n].def]

CopyGains(D, E, k, r, u) ==
  /\ Cardinality(Nam(E, r, u))
       = Cardinality(Nam(D, r, u)) + Cardinality(Takers(Root, NamesOf(D, <<Proto, k>>), r, u))
  /\ Cardinality(Def(E, r, u))
       = Cardinality(Def(D, r, u)) + Cardinality(Takers(Root, TextsOf(D, <<Proto, k>>), r, u))

LEMMA CopyCounts ==
  ASSUME NEW D \in Dicts, NEW E, NEW k \in Kind, CopyOf(D, E, k), Unset(D, k), NEW r, NEW u
  PROVE  CopyGains(D, E, k, r, u)
<1>1. PICK d, from, has, I, J, f :
        /\ d = <<Root, k>> /\ from = <<Proto, k>> /\ has = NamesIn(D, from)
        /\ I = Takers(Root, NamesOf(D, from), r, u) /\ J = Takers(Root, TextsOf(D, from), r, u)
        /\ f = [n \in Name |-> <<d, n>>]
  OBVIOUS
<1>2. d \in Dict /\ from \in Dict /\ RootOf(Root) = Root /\ Root \in Graph
  BY <1>1, Roots, Constants DEF Dict
<1>3. has = {n \in Name : D[from][n] # NULL}
  BY <1>1 DEF NamesIn
<1>4. I = {n \in has : r = Root /\ n = u} /\ J = {n \in has : r = Root /\ D[from][n].def = u}
  BY <1>1, <1>2 DEF Takers, NamesOf, TextsOf
<1>5. IsFiniteSet(I) /\ IsFiniteSet(J)
  <2>1. I \subseteq Name /\ J \subseteq Name
    BY <1>3, <1>4
  <2> QED BY <2>1, Constants, FS_Subset
<1>6. \A m, n \in Name : f[m] = f[n] => m = n
  BY <1>1
<1>7. /\ E[d] = D[from] /\ \A e \in Dict : e # d => E[e] = D[e]
      /\ \A n \in Name : D[d][n] = NULL
  BY <1>1 DEF CopyOf, Unset
<1>8. \A n \in Name : r = Root <=> <<d, n>> \in Entries(r)
  BY <1>1, <1>2, Constants DEF Entries, Of, Object
<1>9. ASSUME NEW n \in Name
      PROVE  /\ <<d, n>> \notin Nam(D, r, u) /\ <<d, n>> \notin Def(D, r, u)
             /\ <<d, n>> \in Nam(E, r, u) <=> n \in I
             /\ <<d, n>> \in Def(E, r, u) <=> n \in J
  <2>1. <<d, n>> \notin Nam(D, r, u) /\ <<d, n>> \notin Def(D, r, u)
    BY <1>7 DEF Nam, Def
  <2>2. <<d, n>> \in Nam(E, r, u) <=> n \in I
    BY <1>3, <1>4, <1>7, <1>8 DEF Nam
  <2>3. <<d, n>> \in Def(E, r, u) <=> n \in J
    BY <1>3, <1>4, <1>7, <1>8 DEF Def
  <2> QED BY <2>1, <2>2, <2>3
<1>10. ASSUME NEW e \in Dict, NEW n \in Name, e # d
       PROVE  /\ <<e, n>> \in Nam(E, r, u) <=> <<e, n>> \in Nam(D, r, u)
              /\ <<e, n>> \in Def(E, r, u) <=> <<e, n>> \in Def(D, r, u)
  <2>1. E[e] = D[e]
    BY <1>7, <1>10
  <2> QED BY <2>1 DEF Nam, Def
<1>11. ASSUME NEW p, p \in Nam(D, r, u) \/ p \in Nam(E, r, u) \/ p \in Def(D, r, u) \/ p \in Def(E, r, u)
       PROVE  \E e \in Dict, n \in Name : p = <<e, n>>
  <2>1. p \in Entries(r)
    BY <1>11 DEF Nam, Def
  <2>2. PICK g \in Graph, j \in Kind, n \in Name : p = <<<<g, j>>, n>>
    BY <2>1, EntryIs
  <2> QED BY <2>2 DEF Dict
<1>12. I \subseteq Name /\ J \subseteq Name /\ \A n \in Name : f[n] = <<d, n>>
  BY <1>1, <1>3, <1>4
<1>13. Cardinality(Nam(E, r, u)) = Cardinality(Nam(D, r, u)) + Cardinality(I)
  <2>1. PICK S, T : S = Nam(D, r, u) /\ T = Nam(E, r, u)
    OBVIOUS
  <2>2. S \subseteq T
    BY <1>9, <1>10, <1>11, <2>1
  <2>3. \A i \in I : f[i] \in T \ S
    BY <1>9, <1>12, <2>1
  <2>4. \A x \in T \ S : \E i \in I : x = f[i]
    BY <1>9, <1>10, <1>11, <1>12, <2>1
  <2>5. \A i, j \in I : f[i] = f[j] => i = j
    BY <1>6, <1>12
  <2>6. IsFiniteSet(S)
    BY <2>1, UsesFinite
  <2>7. Cardinality(T) = Cardinality(S) + Cardinality(I)
    BY ONLY <1>5, <2>2, <2>3, <2>4, <2>5, <2>6, Gains
  <2> QED BY <2>1, <2>7
<1>14. Cardinality(Def(E, r, u)) = Cardinality(Def(D, r, u)) + Cardinality(J)
  <2>1. PICK S, T : S = Def(D, r, u) /\ T = Def(E, r, u)
    OBVIOUS
  <2>2. S \subseteq T
    BY <1>9, <1>10, <1>11, <2>1
  <2>3. \A i \in J : f[i] \in T \ S
    BY <1>9, <1>12, <2>1
  <2>4. \A x \in T \ S : \E i \in J : x = f[i]
    BY <1>9, <1>10, <1>11, <1>12, <2>1
  <2>5. \A i, j \in J : f[i] = f[j] => i = j
    BY <1>6, <1>12
  <2>6. IsFiniteSet(S)
    BY <2>1, UsesFinite
  <2>7. Cardinality(T) = Cardinality(S) + Cardinality(J)
    BY ONLY <1>5, <2>2, <2>3, <2>4, <2>5, <2>6, Gains
  <2> QED BY <2>1, <2>7
<1> QED BY <1>1, <1>13, <1>14 DEF CopyGains

\* x is w after agcopydict.
Copies(w, k, x) ==
  /\ x \in Worlds
  /\ CopyOf(w.dict, x.dict, k)
  /\ x.view = w.view /\ x.nview = w.nview /\ x.str = w.str /\ x.room = w.room /\ x.bad = w.bad
  /\ Counted(x.dict, x.str, x.ref)

LEMMA CopydictIs ==
  ASSUME NEW w \in Worlds, Counted(w.dict, w.str, w.ref), NEW k \in Kind, Unset(w.dict, k)
  PROVE  Copies(w, k, Copydict(w, k))
<1>1. PICK d, from, t1, t2 : /\ d = <<Root, k>> /\ from = <<Proto, k>>
                             /\ t1 = NamesOf(w.dict, from) /\ t2 = TextsOf(w.dict, from)
  OBVIOUS
<1>2. PICK w1, w2 : w1 = AgstrdupAll(w, Root, t1, FALSE) /\ w2 = AgstrdupAll(w1, Root, t2, FALSE)
  OBVIOUS
<1>3. IsFiniteSet(DOMAIN t1) /\ IsFiniteSet(DOMAIN t2)
  <2>1. DOMAIN t1 = NamesIn(w.dict, from) /\ DOMAIN t2 = NamesIn(w.dict, from)
    BY <1>1 DEF NamesOf, TextsOf
  <2>2. NamesIn(w.dict, from) \subseteq Name
    BY DEF NamesIn
  <2> QED BY <2>1, <2>2, Constants, FS_Subset
<1>4. Recounted(w, Added(w.ref, Root, t1), Also(w.bad, AnyDangling(w.ref, Root, t1, FALSE)), w1)
  BY <1>2, <1>3, DupAllIs
<1>5. /\ w1 \in Worlds /\ w1.ref = Added(w.ref, Root, t1) /\ w1.bad = w.bad
      /\ w1.dict = w.dict /\ w1.str = w.str /\ w1.room = w.room
      /\ w1.view = w.view /\ w1.nview = w.nview
  BY <1>4 DEF Recounted, Also, AnyDangling, Worlds
<1>6. Recounted(w1, Added(w1.ref, Root, t2), Also(w1.bad, AnyDangling(w1.ref, Root, t2, FALSE)), w2)
  BY <1>2, <1>3, <1>5, DupAllIs
<1>7. /\ w2 \in Worlds /\ w2.ref = Added(w1.ref, Root, t2) /\ w2.bad = w.bad
      /\ w2.dict = w.dict /\ w2.str = w.str /\ w2.room = w.room
      /\ w2.view = w.view /\ w2.nview = w.nview
  BY <1>5, <1>6 DEF Recounted, Also, AnyDangling, Worlds
<1>8. PICK D, E : D = w.dict /\ E = [D EXCEPT ![d] = D[from]]
  OBVIOUS
<1>9. D \in Dicts /\ d \in Dict /\ from \in Dict
  BY <1>1, <1>8, Constants DEF Worlds, Dicts, Dict
<1>10. E \in Dicts /\ CopyOf(D, E, k)
  BY <1>1, <1>8, <1>9 DEF Dicts, CopyOf
<1>11. PICK x : x = Copydict(w, k)
  OBVIOUS
<1>12. x = [w2 EXCEPT !.dict = E]
  <2>1. x = [w2 EXCEPT !.dict[d] = D[from]]
    BY <1>1, <1>2, <1>8, <1>11 DEF Copydict, NamesOf, TextsOf, NamesIn
  <2> QED BY <1>7, <1>8, <2>1
<1>13. Defined(w2, E, x)
  BY <1>7, <1>10, <1>12, DictOnly
<1>14. /\ x \in Worlds /\ x.dict = E /\ x.ref = Added(w1.ref, Root, t2) /\ x.bad = w.bad
       /\ x.str = w.str /\ x.room = w.room /\ x.view = w.view /\ x.nview = w.nview
  BY <1>7, <1>13 DEF Defined
<1>15. Counted(x.dict, x.str, x.ref)
  <2> SUFFICES ASSUME NEW r \in {Root, Proto}, NEW u \in String
               PROVE  x.ref[<<r, u>>] = Uses(E, w.str, r, u)
    BY <1>14 DEF Counted
  <2>1. CopyGains(D, E, k, r, u)
    BY <1>8, <1>9, <1>10, CopyCounts
  <2>2. w.ref \in Counts /\ w1.ref \in Counts
    BY <1>5 DEF Worlds, Counts
  <2>3. w1.ref[<<r, u>>] = w.ref[<<r, u>>] + Cardinality(Takers(Root, t1, r, u))
    BY <1>3, <1>5, <2>2, AddedIs
  <2>4. x.ref[<<r, u>>] = w1.ref[<<r, u>>] + Cardinality(Takers(Root, t2, r, u))
    BY <1>3, <1>14, <2>2, AddedIs
  <2>5. w.ref[<<r, u>>] = Uses(D, w.str, r, u)
    BY <1>8 DEF Counted
  <2>6. /\ Cardinality(Nam(E, r, u)) = Cardinality(Nam(D, r, u)) + Cardinality(Takers(Root, t1, r, u))
        /\ Cardinality(Def(E, r, u)) = Cardinality(Def(D, r, u)) + Cardinality(Takers(Root, t2, r, u))
    BY <1>1, <1>8, <2>1 DEF CopyGains
  <2>7. /\ Uses(E, w.str, r, u) = Cardinality(Val(w.str, r, u)) + Cardinality(Def(E, r, u))
                                    + Cardinality(Nam(E, r, u))
        /\ Uses(D, w.str, r, u) = Cardinality(Val(w.str, r, u)) + Cardinality(Def(D, r, u))
                                    + Cardinality(Nam(D, r, u))
    BY UsesSum
  <2>8. /\ Cardinality(Val(w.str, r, u)) \in Nat /\ Cardinality(Def(D, r, u)) \in Nat
        /\ Cardinality(Nam(D, r, u)) \in Nat
    BY UsesFinite
  <2>9. Cardinality(Takers(Root, t1, r, u)) \in Nat /\ Cardinality(Takers(Root, t2, r, u)) \in Nat
    <3>1. Takers(Root, t1, r, u) \subseteq DOMAIN t1 /\ Takers(Root, t2, r, u) \subseteq DOMAIN t2
      BY DEF Takers
    <3> QED BY <1>3, <3>1, FS_Subset, FS_CardinalityType
  <2> QED BY <2>3, <2>4, <2>5, <2>6, <2>7, <2>8, <2>9
<1> QED BY <1>8, <1>10, <1>11, <1>14, <1>15 DEF Copies
LEMMA TopAlone ==
  ASSUME NEW K, NEW r \in {Root, Proto}, r \in K
  PROVE  Ancestry(K, <<r>>, r)
<1>1. PICK q : q = <<r>>
  OBVIOUS
<1>2. q \in Seq(Graph) /\ Len(q) = 1 /\ q[1] = r /\ q # <<>>
  BY <1>1, Constants
<1>3. RootOf(r) = r
  BY Roots
<1> QED BY <1>1, <1>2, <1>3 DEF Ancestry

LEMMA AgopenIs ==
  ASSUME NEW w, NEW L, NEW A, Sound(w, L, A), Root \notin L
  PROVE  Sound(Makeattrs(Copydict(Copydict(w, "graph"), "node"), Root, Root), L \cup {Root}, A)
<1>1. PICK K : K = L \cup {Root}
  OBVIOUS
<1>2. /\ Tree(L, A) /\ Good(w, L) /\ LocalBut(w.dict, w.str, {}) /\ (~PassesOwn => ~w.bad)
      /\ w \in Worlds /\ Looking(w.view, w.nview, L) /\ SymbolsOK(w.dict, L)
      /\ ValuesOK(w.dict, w.str, w.room, L) /\ Counted(w.dict, w.str, w.ref)
  BY DEF Sound, Good
<1>3. L = {Proto} /\ A = {} /\ K = {Proto, Root} /\ K \subseteq Object
  <2>1. L = {Proto} /\ A \subseteq (L \cap Graph) \ {Root, Proto}
    BY <1>2 DEF Tree
  <2> QED BY <1>1, <2>1, Constants DEF Object
<1>4. "node" \in Kind /\ "graph" \in Kind /\ \A k \in Kind : k = "node" \/ k = "graph"
  BY DEF Kind
<1>5. \A k \in Kind : Unset(w.dict, k)
  BY <1>2, <1>3, Constants DEF SymbolsOK, Unset
<1>6. PICK w1, w2 : w1 = Copydict(w, "graph") /\ w2 = Copydict(w1, "node")
  OBVIOUS
<1>7. Copies(w, "graph", w1)
  BY <1>2, <1>4, <1>5, <1>6, CopydictIs
<1>8. \A k \in Kind : <<Root, k>> \in Dict /\ <<Proto, k>> \in Dict /\ <<Proto, k>> # <<Root, k>>
  BY Constants DEF Dict
<1>9. Unset(w1.dict, "node")
  <2>1. w1.dict[<<Root, "node">>] = w.dict[<<Root, "node">>]
    BY <1>4, <1>7, <1>8 DEF Copies, CopyOf
  <2> QED BY <1>4, <1>5, <2>1 DEF Unset
<1>10. Copies(w1, "node", w2)
  BY <1>4, <1>6, <1>7, <1>9, CopydictIs DEF Copies
<1>11. /\ w2 \in Worlds /\ w2.dict \in Dicts
       /\ w2.view = w.view /\ w2.nview = w.nview /\ w2.str = w.str /\ w2.room = w.room
       /\ w2.bad = w.bad /\ Counted(w2.dict, w2.str, w2.ref)
  BY <1>7, <1>10 DEF Copies, CopyOf
<1>12. PICK D, E : D = w.dict /\ E = w2.dict
  OBVIOUS
<1>13. /\ \A k \in Kind : E[<<Root, k>>] = D[<<Proto, k>>]
       /\ \A g \in Graph, k \in Kind : g # Root => E[<<g, k>>] = D[<<g, k>>]
  <2>1. /\ w1.dict[<<Root, "graph">>] = D[<<Proto, "graph">>]
        /\ \A d \in Dict : d # <<Root, "graph">> => w1.dict[d] = D[d]
        /\ E[<<Root, "node">>] = w1.dict[<<Proto, "node">>]
        /\ \A d \in Dict : d # <<Root, "node">> => E[d] = w1.dict[d]
    BY <1>7, <1>10, <1>12 DEF Copies, CopyOf
  <2>2. E[<<Root, "graph">>] = D[<<Proto, "graph">>]
    BY <1>4, <1>8, <2>1
  <2>3. E[<<Root, "node">>] = D[<<Proto, "node">>]
    BY <1>4, <1>8, <2>1
  <2>4. ASSUME NEW g \in Graph, NEW k \in Kind, g # Root PROVE E[<<g, k>>] = D[<<g, k>>]
    <3>1. <<g, k>> \in Dict /\ <<g, k>> # <<Root, "graph">> /\ <<g, k>> # <<Root, "node">>
      BY <2>4 DEF Dict
    <3> QED BY <2>1, <3>1
  <2> QED BY <1>4, <2>2, <2>3, <2>4
<1>14. SymbolsOK(E, K)
  <2>1. ASSUME NEW g \in Graph \ K, NEW k \in Kind, NEW n \in Name PROVE E[<<g, k>>][n] = NULL
    <3>1. g # Root /\ g \in Graph \ L
      BY <1>1
    <3> QED BY <1>2, <1>12, <1>13, <3>1 DEF SymbolsOK
  <2>2. \A g \in K, k \in Kind : Top(g, k) = <<g, k>>
    BY <1>3, Roots DEF Top
  <2>3. ASSUME NEW r \in {Root, Proto}, NEW k \in Kind PROVE Numbered(E, <<r, k>>)
    <3>1. E[<<r, k>>] = D[<<Proto, k>>]
      BY <1>13, Constants
    <3>2. Size(E, <<r, k>>) = Size(D, <<Proto, k>>)
      BY <3>1 DEF Size
    <3>3. Numbered(D, <<Proto, k>>)
      BY <1>2, <1>12 DEF SymbolsOK
    <3> QED BY <3>1, <3>2, <3>3 DEF Numbered
  <2> QED BY <2>1, <2>2, <2>3 DEF SymbolsOK
<1>15. Looking(w2.view, w2.nview, K)
  <2>1. \A d : ViewOf(K, d) = ViewOf(L, d)
    BY <1>3 DEF ViewOf
  <2> QED BY <1>2, <1>11, <2>1 DEF Looking
<1>16. ValuesOK(E, w2.str, w2.room, L)
  <2>1. TopDict(Proto) = <<Proto, "graph">> /\ Proto \in Graph /\ Proto # Root
    BY Roots, Constants
  <2>2. Size(E, TopDict(Proto)) = Size(D, TopDict(Proto))
    BY <1>4, <1>13, <2>1 DEF Size
  <2> QED BY <1>2, <1>3, <1>11, <1>12, <2>2 DEF ValuesOK
<1>17. Rooted(K)
  <2>1. \A r \in {Root, Proto} : r \in K
    BY <1>3
  <2>2. Ancestry(K, <<Root>>, Root) /\ Ancestry(K, <<Proto>>, Proto)
    BY <2>1, TopAlone
  <2> QED BY <1>3, <2>2 DEF Rooted
<1>18. Tree(K, A)
  <2>1. Outside(K, A) = {}
    BY <1>3 DEF Outside
  <2> QED BY <1>3, <1>17, <2>1 DEF Tree
<1>19. PICK d, x : d = <<Root, KindOf(Root)>> /\ x = Makeattrs(w2, Root, Root)
  OBVIOUS
<1>20. Root \in K \cap Graph /\ Root \in Object /\ KindOf(Root) = "graph"
  BY <1>3, Roots, Constants DEF Object
<1>21. Fresh(w2, L, Root, d, x)
  BY <1>1, <1>3, <1>11, <1>12, <1>14, <1>15, <1>16, <1>17, <1>19, <1>20, MakeattrsIs
<1>22. Kept(E, <<Root, "graph">>, Syms(w2, d))
  <2>1. Seen(w2.view, K)
    BY <1>15, LookingSeen
  <2>2. Kept(w2.dict, d, Syms(w2, d))
    BY <1>3, <1>11, <1>12, <1>14, <1>17, <1>19, <1>20, <2>1, DefaultsFill
  <2> QED BY <1>12, <1>19, <1>20, <2>2
<1>23. LocalApart(E, w2.str, Root)
  <2> SUFFICES ASSUME NEW g \in Graph, NEW n \in Name, g # Root, E[<<g, "graph">>][n] # NULL
               PROVE  E[<<g, "graph">>][n].def
                        = w2.str[g][E[<<RootOf(g), "graph">>][n].id + 1]
    BY DEF LocalApart
  <2>1. g = Proto
    BY <1>3, <1>4, <1>14 DEF SymbolsOK
  <2>2. RootOf(g) = g /\ E[<<g, "graph">>] = D[<<g, "graph">>]
    BY <1>4, <1>13, <2>1, Roots, Constants
  <2> QED BY <1>2, <1>11, <1>12, <2>2 DEF LocalBut
<1>24. Sound(x, K, A)
  <2>1. ~PassesOwn => ~w2.bad
    BY <1>2, <1>11
  <2> QED BY <1>1, <1>11, <1>12, <1>14, <1>18, <1>20, <1>21, <1>22, <1>23, <2>1, FreshSound
<1> QED BY <1>1, <1>6, <1>19, <1>24

-----------------------------------------------------------------------------
(* The steps.                                                              *)

LEMMA Reached ==
  ASSUME NEW w, Becomes(w), Sound(w, live', attached')
  PROVE  Inv'
<1>1. /\ World'.dict = w.dict /\ World'.view = w.view /\ World'.nview = w.nview
      /\ World'.str = w.str /\ World'.room = w.room /\ World'.ref = w.ref /\ World'.bad = w.bad
  BY DEF World, Becomes
<1>2. w \in Worlds
  BY DEF Sound, Good
<1>3. World' = w
  <2>1. PICK x : x = World'
    OBVIOUS
  <2>2. x \in Worlds
    <3>1. x = [dict |-> w.dict, view |-> w.view, nview |-> w.nview, str |-> w.str,
               room |-> w.room, ref |-> w.ref, bad |-> w.bad]
      BY <2>1 DEF World, Becomes
    <3> QED BY <1>2, <3>1 DEF Worlds
  <2> QED BY <1>1, <1>2, <2>1, <2>2, SameWorld
<1> QED BY <1>3 DEF Inv
LEMMA OutsideIs == Detached = Outside(live, attached)
BY DEF Detached, Outside

LEMMA StepAgopen ==
  ASSUME Inv, Agopen
  PROVE  Inv'
<1>1. PICK x : x = Makeattrs(Copydict(Copydict(World, "graph"), "node"), Root, Root)
  OBVIOUS
<1>2. Root \notin live /\ live' = live \cup {Root} /\ attached' = attached /\ Becomes(x)
  BY <1>1 DEF Agopen
<1>3. Sound(x, live \cup {Root}, attached)
  BY <1>1, <1>2, AgopenIs DEF Inv
<1> QED BY <1>2, <1>3, Reached

LEMMA StepAgsubg ==
  ASSUME Inv, NEW g \in Graph, Agsubg(g)
  PROVE  Inv'
<1>1. PICK x : x = Makeattrs(Makedatadict(World, g), Parent[g], g)
  OBVIOUS
<1>2. /\ g \in Graph \ live /\ Parent[g] \in live
      /\ live' = live \cup {g} /\ attached' = attached \cup {g} /\ Becomes(x)
  BY <1>1 DEF Agsubg
<1>3. Sound(x, live \cup {g}, attached \cup {g})
  BY <1>1, <1>2, AgsubgIs DEF Inv
<1> QED BY <1>2, <1>3, Reached

LEMMA StepAgnode ==
  ASSUME Inv, NEW g \in Graph, NEW n \in Node, Agnode(g, n)
  PROVE  Inv'
<1>1. PICK x : x = Makeattrs(World, g, n)
  OBVIOUS
<1>2. /\ n \notin live /\ g \in (live \cap Graph) \ {Proto}
      /\ live' = live \cup {n} /\ attached' = attached /\ Becomes(x)
  BY <1>1 DEF Agnode
<1>3. Sound(x, live \cup {n}, attached)
  BY <1>1, <1>2, AgnodeIs DEF Inv
<1> QED BY <1>2, <1>3, Reached

LEMMA StepAgdelnode ==
  ASSUME Inv, NEW n \in Node, Agdelnode(n)
  PROVE  Inv'
<1>1. PICK x : x = Free(World, {n})
  OBVIOUS
<1>2. n \in live /\ live' = live \ {n} /\ attached' = attached /\ Becomes(x)
  BY <1>1 DEF Agdelnode
<1>3. Sound(x, live \ {n}, attached)
  BY <1>1, <1>2, AgdelnodeIs DEF Inv
<1> QED BY <1>2, <1>3, Reached

LEMMA StepAgclose ==
  ASSUME ~Forgets, Inv, NEW g \in Graph, Agclose(g)
  PROVE  Inv'
<1>1. PICK gs, objs, x : gs = Below(g) /\ objs = Closed(g) /\ x = Shut(Free(World, objs), gs)
  OBVIOUS
<1>2. /\ g \in (live \cap Graph) \ {Proto} /\ (Detached = {} \/ g \in Detached)
      /\ live' = live \ objs /\ attached' = attached \ gs /\ Becomes(x)
  BY <1>1 DEF Agclose, Goes, Closed
<1>3. Tree(live, attached)
  BY DEF Inv, Sound
<1>4. Outside(live, attached) \subseteq {g}
  BY <1>2, <1>3, OutsideIs DEF Tree
<1>5. Leaving(live, objs, gs) /\ DownClosed(live, gs)
  BY <1>1, <1>2, <1>3, <1>4, ClosedIs
<1>6. Sound(x, live \ objs, attached \ gs)
  BY <1>1, <1>5, CloseIs DEF Inv
<1> QED BY <1>2, <1>6, Reached

LEMMA StepAgdelsubg ==
  ASSUME ~Forgets, Inv, NEW g \in Graph, Agdelsubg(g)
  PROVE  Inv'
<1>1. PICK w : w = World
  OBVIOUS
<1>2. /\ g \in attached /\ attached' = attached \ {g} /\ live' = live
      /\ Outside(live, attached) = {} /\ World' = w
  BY <1>1, OutsideIs DEF Agdelsubg, Goes, World
<1>3. Outside(live', attached') \subseteq {g}
  BY <1>2 DEF Outside
<1>4. Tree(live', attached')
  BY <1>2, <1>3 DEF Inv, Sound, Tree
<1>5. Sound(w, live', attached')
  BY <1>1, <1>2, <1>4 DEF Inv, Sound
<1> QED BY <1>2, <1>5 DEF Inv

LEMMA RefType ==
  ASSUME Inv, NEW o, NEW v \in Text
  PROVE  ref[<<RootOf(o), v>>] \in Int
<1>1. <<RootOf(o), v>> \in {Root, Proto} \X String
  BY Roots DEF String
<1> QED BY <1>1, WorldFields DEF Inv, Sound, Good, Worlds

\* What a client that borrows a string knows of its count.
LEMMA Borrowing ==
  ASSUME Inv, NEW o, NEW v \in Text, NEW old
  PROVE  /\ MayBorrow(o, v, old) \in BOOLEAN
         /\ MayBorrow(o, v, old) => ref[<<RootOf(o), v>>] > 0
         /\ ~PassesOwn /\ MayBorrow(o, v, old) => ref[<<RootOf(o), v>>] > One(v = old)
<1>1. PICK c, b, i : /\ c = ref[<<RootOf(o), v>>] /\ b = MayBorrow(o, v, old)
                     /\ i = IF PassesOwn \/ v # old THEN 0 ELSE 1
  OBVIOUS
<1>2. c \in Int
  BY <1>1, RefType
<1>3. b = (c > i)
  BY <1>1 DEF MayBorrow, Shared
<1>4. b \in BOOLEAN
  BY <1>3
<1>5. One(v = old) = IF v = old THEN 1 ELSE 0
  BY DEF One
<1>6. CASE PassesOwn \/ v # old
  <2>1. b => c > 0
    BY <1>1, <1>3, <1>6
  <2>2. v # old => One(v = old) = 0
    BY <1>5
  <2> QED BY <1>1, <1>4, <1>6, <2>1, <2>2
<1>7. CASE ~PassesOwn /\ v = old
  <2>1. One(v = old) = 1
    BY <1>5, <1>7
  <2>2. i = 1
    BY <1>1, <1>7
  <2>3. b => c > 1
    BY <1>3, <2>2
  <2>4. b => c > 0
    BY <1>2, <2>3
  <2> QED BY <1>1, <1>4, <2>1, <2>3, <2>4
<1> QED BY <1>6, <1>7

LEMMA StepAgxset ==
  ASSUME Inv, NEW o \in Object, NEW n \in Name, NEW v \in Text, Agxset(o, n, v)
  PROVE  Inv'
<1>1. PICK w, old, b, x : /\ w = World /\ old = ValueOf(o, n) /\ b = MayBorrow(o, v, old)
                          /\ x = SetValue(w, o, n, v, b)
  OBVIOUS
<1>2. /\ o \in live \ {Proto} /\ n \in Declared(o) /\ live' = live /\ attached' = attached
      /\ Becomes(x)
  BY <1>1 DEF Agxset
<1>3. w.dict = dict /\ w.str = str /\ w.ref = ref /\ Sound(w, live, attached)
  BY <1>1, WorldFields DEF Inv
<1>4. w.dict[TopDict(o)][n] # NULL /\ old = w.str[o][Index(w.dict, o, n)]
  BY <1>1, <1>2, <1>3 DEF Declared, ValueOf, Index
<1>5. b \in BOOLEAN /\ (~PassesOwn /\ b => w.ref[<<RootOf(o), v>>] > One(v = old))
  BY <1>1, <1>3, Borrowing
<1>6. Almost(w, live, attached, o, n)
  BY <1>3, SoundAlmost
<1>7. Sound(x, live, attached)
  BY <1>1, <1>2, <1>4, <1>5, <1>6, SetStep
<1> QED BY <1>2, <1>7, Reached

LEMMA StepAgcopyattr ==
  ASSUME Inv, NEW from \in Object, NEW to \in Object, Agcopyattr(from, to)
  PROVE  Inv'
<1>1. PICK x : x = Copied(from, to)
  OBVIOUS
<1>2. /\ from \in live \ {Proto} /\ to \in live \ {Proto} /\ from # to /\ KindOf(from) = KindOf(to)
      /\ live' = live /\ attached' = attached /\ Becomes(x)
  BY <1>1 DEF Agcopyattr
<1>3. TopDict(from) = TopDict(to)
  BY <1>2 DEF TopDict, RootOf
<1>4. Sound(x, live, attached)
  BY <1>1, <1>2, <1>3, CopiedIs
<1> QED BY <1>2, <1>4, Reached

LEMMA StepAgattr ==
  ASSUME ~Forgets, Inv, NEW g \in Graph, NEW k \in Kind, NEW n \in Name, NEW v \in Text,
         Agattr(g, k, n, v)
  PROVE  Inv'
<1>1. PICK sym, old, b, x : /\ sym = dict[<<g, k>>][n] /\ old = IF sym = NULL THEN NULL ELSE sym.def
                            /\ b = MayBorrow(g, v, old) /\ x = Setattr(g, k, n, v, b)
  OBVIOUS
<1>2. /\ g \in live \cap Graph /\ live' = live /\ attached' = attached /\ Becomes(x)
      /\ Outside(live, attached) = {}
  BY <1>1, OutsideIs DEF Agattr, Goes
<1>3. b \in BOOLEAN
  BY <1>1, Borrowing
<1>4. b => ref[<<RootOf(g), v>>] > 0
  BY <1>1, Borrowing
<1>5. ~PassesOwn /\ b /\ dict[<<g, k>>][n] # NULL =>
        ref[<<RootOf(g), v>>] > One(v = dict[<<g, k>>][n].def)
  <2> SUFFICES ASSUME ~PassesOwn /\ b /\ dict[<<g, k>>][n] # NULL
               PROVE  ref[<<RootOf(g), v>>] > One(v = dict[<<g, k>>][n].def)
    OBVIOUS
  <2>1. old = dict[<<g, k>>][n].def
    BY <1>1
  <2>2. ref[<<RootOf(g), v>>] > One(v = old)
    BY <1>1, Borrowing
  <2> QED BY <2>1, <2>2
<1>6. Sound(x, live, attached)
  BY <1>1, <1>2, <1>3, <1>4, <1>5, SetattrIs
<1> QED BY <1>2, <1>6, Reached

LEMMA Start == Init => Inv
<1> SUFFICES ASSUME Init PROVE Inv
  OBVIOUS
<1>1. PICK w, L, A : w = World /\ L = live /\ A = attached
  OBVIOUS
<1>2. /\ L = {Proto} /\ A = {}
      /\ w.dict = [d \in Dict |-> [n \in Name |-> NULL]]
      /\ w.view = [d \in Dict |-> NULL] /\ w.nview = [d \in Dict |-> 0]
      /\ w.str = [o \in Object |-> <<>>]
      /\ w.room = [o \in Object |-> IF o = Proto THEN MinAttr ELSE 0]
      /\ w.ref = [x \in {Root, Proto} \X String |-> 0]
      /\ w.bad = FALSE
  BY <1>1, WorldFields DEF Init, String
<1>3. w \in Worlds
  <2>1. /\ w.dict \in [Dict -> [Name -> Sym \cup {NULL}]] /\ w.view \in [Dict -> Dict \cup {NULL}]
        /\ w.nview \in [Dict -> Int] /\ w.str \in [Object -> Seq(Text)]
        /\ w.room \in [Object -> Nat] /\ w.ref \in [{Root, Proto} \X String -> Int]
        /\ w.bad \in BOOLEAN
    <3>1. [n \in Name |-> NULL] \in [Name -> Sym \cup {NULL}] /\ <<>> \in Seq(Text)
      OBVIOUS
    <3>2. w.dict \in [Dict -> [Name -> Sym \cup {NULL}]]
      BY <1>2, <3>1
    <3>3. w.view \in [Dict -> Dict \cup {NULL}] /\ w.nview \in [Dict -> Int]
      BY <1>2
    <3>4. w.str \in [Object -> Seq(Text)]
      BY <1>2, <3>1
    <3>5. w.room \in [Object -> Nat]
      BY <1>2, Constants
    <3>6. w.ref \in [{Root, Proto} \X String -> Int] /\ w.bad \in BOOLEAN
      <4>1. PICK X : X = {Root, Proto} \X String
        OBVIOUS
      <4>2. w.ref = [y \in X |-> 0] /\ w.bad \in BOOLEAN
        BY <1>2, <4>1
      <4>3. w.ref \in [X -> Int]
        BY ONLY <4>2
      <4> QED BY <4>1, <4>2, <4>3
    <3> QED BY <3>2, <3>3, <3>4, <3>5, <3>6
  <2>2. w = [dict |-> w.dict, view |-> w.view, nview |-> w.nview, str |-> w.str,
             room |-> w.room, ref |-> w.ref, bad |-> w.bad]
    BY <1>1 DEF World
  <2> QED BY <2>1, <2>2 DEF Worlds
<1>4. \A d \in Dict, n \in Name : w.dict[d][n] = NULL
  BY <1>2
<1>5. \A d \in Dict : Size(w.dict, d) = 0
  <2> TAKE d \in Dict
  <2>1. {n \in Name : w.dict[d][n] # NULL} = {}
    BY <1>4
  <2> QED BY <2>1, FS_EmptySet DEF Size
<1>6. Looking(w.view, w.nview, L)
  <2>1. \A d \in Dict : w.view[d] = ViewOf(L, d)
    BY <1>2 DEF ViewOf
  <2>2. \A d \in Dict : Viewers(w.view, d) = {}
    BY <1>2, Constants DEF Viewers
  <2> QED BY <1>2, <2>1, <2>2, FS_EmptySet DEF Looking
<1>7. SymbolsOK(w.dict, L)
  <2>1. \A g \in Graph, k \in Kind : <<g, k>> \in Dict
    BY DEF Dict
  <2>2. \A r \in {Root, Proto}, k \in Kind : Numbered(w.dict, <<r, k>>)
    <3> TAKE r \in {Root, Proto}, k \in Kind
    <3>1. PICK d \in Dict : d = <<r, k>>
      BY <2>1, Constants
    <3>2. \A n \in Name : w.dict[d][n] = NULL
      BY <1>4
    <3>3. Size(w.dict, d) = 0
      BY <1>5
    <3>4. Numbered(w.dict, d)
      BY <3>2, <3>3 DEF Numbered
    <3> QED BY <3>1, <3>4
  <2> QED BY <1>4, <2>1, <2>2 DEF SymbolsOK
<1>8. ValuesOK(w.dict, w.str, w.room, L)
  <2>1. Proto \in Object /\ TopDict(Proto) \in Dict /\ MinAttr \in Nat
    BY Constants, Roots DEF Object
  <2> QED BY <1>2, <1>5, <2>1 DEF ValuesOK
<1>9. Counted(w.dict, w.str, w.ref)
  <2> SUFFICES ASSUME NEW r \in {Root, Proto}, NEW u \in String
               PROVE  w.ref[<<r, u>>] = Uses(w.dict, w.str, r, u)
    BY DEF Counted
  <2>1. Val(w.str, r, u) = {}
    <3>1. ASSUME NEW p \in Val(w.str, r, u) PROVE FALSE
      <4>1. p[1] \in Object /\ p[2] \in Nat /\ p[2] >= 1 /\ p[2] <= Len(w.str[p[1]])
        BY <3>1, Sizes DEF Val, Places, Of
      <4>2. Len(w.str[p[1]]) = 0
        BY <1>2, <4>1
      <4> QED BY <4>1, <4>2
    <3> QED BY <3>1
  <2>2. Def(w.dict, r, u) = {} /\ Nam(w.dict, r, u) = {}
    <3>1. \A p \in Entries(r) : w.dict[p[1]][p[2]] = NULL
      BY <1>4 DEF Entries, Of, Dict
    <3> QED BY <3>1 DEF Def, Nam
  <2>3. Uses(w.dict, w.str, r, u) = 0
    <3>1. Cardinality({}) = 0
      BY FS_EmptySet
    <3> QED BY <2>1, <2>2, <3>1 DEF Uses
  <2>4. <<r, u>> \in {Root, Proto} \X String
    OBVIOUS
  <2> QED BY <1>2, <2>3, <2>4
<1>10. Tree(L, A)
  <2>1. Ancestry(L, <<Proto>>, Proto)
    BY <1>2, TopAlone
  <2>2. Rooted(L)
    BY <1>2, <2>1 DEF Rooted
  <2> QED BY <1>2, <2>2, Constants DEF Tree, Outside, Object
<1>11. LocalBut(w.dict, w.str, {})
  <2>1. \A g \in Graph : <<g, "graph">> \in Dict
    BY DEF Dict, Kind
  <2> QED BY <1>4, <2>1 DEF LocalBut
<1> QED BY <1>1, <1>2, <1>3, <1>6, <1>7, <1>8, <1>9, <1>10, <1>11 DEF Inv, Sound, Good
\* The bound on edits, which the type invariant has too.
Bounded == edits \in 0 .. MaxEdits

LEMMA Step ==
  ASSUME ~Forgets, Inv, Bounded, [Next]_vars
  PROVE  Inv' /\ Bounded'
<1>1. CASE UNCHANGED vars
  <2>1. PICK w : w = World
    OBVIOUS
  <2>2. World' = w /\ live' = live /\ attached' = attached /\ edits' = edits
    BY <1>1, <2>1 DEF vars, World
  <2> QED BY <2>1, <2>2 DEF Inv, Bounded
<1>2. CASE Agopen
  BY <1>2, StepAgopen DEF Agopen, Bounded
<1>3. ASSUME NEW g \in Graph, Agsubg(g) \/ Agclose(g) \/ Agdelsubg(g) PROVE Inv' /\ Bounded'
  <2>1. Inv'
    BY <1>3, StepAgsubg, StepAgclose, StepAgdelsubg
  <2>2. edits' = edits
    BY <1>3 DEF Agsubg, Agclose, Agdelsubg
  <2> QED BY <2>1, <2>2 DEF Bounded
<1>4. ASSUME NEW n \in Node, Agdelnode(n) \/ \E g \in Graph : Agnode(g, n) PROVE Inv' /\ Bounded'
  <2>1. Inv'
    BY <1>4, StepAgdelnode, StepAgnode
  <2>2. edits' = edits
    BY <1>4 DEF Agdelnode, Agnode
  <2> QED BY <2>1, <2>2 DEF Bounded
<1>5. ASSUME Edited PROVE Bounded'
  BY <1>5, Constants DEF Edited, Bounded
<1>6. ASSUME NEW o \in Object, NEW n \in Name, NEW v \in Text, Agxset(o, n, v) PROVE Inv' /\ Bounded'
  <2>1. Edited
    BY <1>6 DEF Agxset
  <2> QED BY <1>5, <1>6, <2>1, StepAgxset
<1>7. ASSUME NEW g \in Graph, NEW k \in Kind, NEW n \in Name, NEW v \in Text, Agattr(g, k, n, v)
      PROVE  Inv' /\ Bounded'
  <2>1. Edited
    BY <1>7 DEF Agattr
  <2> QED BY <1>5, <1>7, <2>1, StepAgattr
<1>8. ASSUME NEW from \in Object, NEW to \in Object, Agcopyattr(from, to) PROVE Inv' /\ Bounded'
  <2>1. Edited
    BY <1>8 DEF Agcopyattr
  <2> QED BY <1>5, <1>8, <2>1, StepAgcopyattr
<1> QED BY <1>1, <1>2, <1>3, <1>4, <1>6, <1>7, <1>8 DEF Next

LEMMA Invariance ==
  ASSUME ~Forgets
  PROVE  Spec => [](Inv /\ Bounded)
<1>1. Init => Inv /\ Bounded
  BY Start, Constants DEF Init, Bounded
<1>2. Inv /\ Bounded /\ [Next]_vars => (Inv /\ Bounded)'
  BY Step
<1> QED BY <1>1, <1>2, PTL DEF Spec

-----------------------------------------------------------------------------
(* What follows.                                                           *)

\* What the invariant says of the variables.
LEMMA Told ==
  ASSUME Inv
  PROVE  /\ World \in Worlds /\ World.dict = dict /\ World.str = str /\ World.view = view
         /\ dict \in Dicts /\ str \in Strs /\ live \subseteq Object /\ Rooted(live)
         /\ Looking(view, nview, live) /\ SymbolsOK(dict, live)
         /\ ValuesOK(dict, str, room, live) /\ Counted(dict, str, ref)
         /\ DOMAIN ref = {Root, Proto} \X String
         /\ LocalBut(dict, str, {})
BY WorldFields DEF Inv, Sound, Good, Tree, Worlds, Dicts, Strs

LEMMA CompleteIs == ASSUME Inv PROVE Complete
<1> SUFFICES ASSUME NEW o \in live, NEW top, top = TopDict(o)
             PROVE  /\ Len(str[o]) = DictSize(World, top)
                    /\ Len(str[o]) <= room[o]
                    /\ \A i \in 1 .. Len(str[o]) :
                          /\ str[o][i] # NULL
                          /\ \E n \in Name : dict[top][n] # NULL /\ dict[top][n].id = i - 1
                    /\ o \in Graph =>
                          \A kind \in Kind, n \in Name :
                            LET own == dict[<<o, kind>>][n]
                                global == dict[<<RootOf(o), kind>>][n]
                            IN  /\ own # NULL => global # NULL /\ global.id = own.id
                                /\ (Search(World, <<o, kind>>, n) = NULL) = (global = NULL)
  BY DEF Complete
<1>1. o \in Object /\ str[o] \in Seq(Text) /\ Len(str[o]) = Size(dict, top) /\ Len(str[o]) <= room[o]
  BY Told DEF Strs, ValuesOK
<1>2. Len(str[o]) = DictSize(World, top)
  BY <1>1, Told, DictSizeIs
<1>3. ASSUME NEW i \in 1 .. Len(str[o])
      PROVE  str[o][i] # NULL /\ \E n \in Name : dict[top][n] # NULL /\ dict[top][n].id = i - 1
  <2>1. str[o][i] \in Text
    BY <1>1
  <2>2. Numbered(dict, top)
    BY Told, Roots DEF SymbolsOK
  <2>3. i - 1 \in 0 .. Size(dict, top) - 1
    BY <1>1
  <2> QED BY <2>1, <2>2, <2>3, Constants DEF Numbered
<1>4. ASSUME o \in Graph, NEW k \in Kind, NEW n \in Name
      PROVE  /\ dict[<<o, k>>][n] # NULL =>
                  /\ dict[<<RootOf(o), k>>][n] # NULL
                  /\ dict[<<RootOf(o), k>>][n].id = dict[<<o, k>>][n].id
             /\ (Search(World, <<o, k>>, n) = NULL) = (dict[<<RootOf(o), k>>][n] = NULL)
  <2>1. o \in live \cap Graph /\ Top(o, k) = <<RootOf(o), k>>
    BY <1>4 DEF Top
  <2>2. dict[<<o, k>>][n] # NULL =>
                  /\ dict[<<RootOf(o), k>>][n] # NULL
                  /\ dict[<<RootOf(o), k>>][n].id = dict[<<o, k>>][n].id
    BY <2>1, Told DEF SymbolsOK
  <2>3. PICK w, L : w = World /\ L = live
    OBVIOUS
  <2>4. /\ w \in Worlds /\ L \subseteq Object /\ Rooted(L) /\ SymbolsOK(w.dict, L) /\ Seen(w.view, L)
        /\ w.dict = dict
    BY <2>3, Told, LookingSeen
  <2>5. Search(w, <<o, k>>, n) = NULL <=> w.dict[Top(o, k)][n] = NULL
    BY <2>1, <2>3, <2>4, SearchIs
  <2> QED BY <2>1, <2>2, <2>3, <2>4, <2>5
<1> QED BY <1>1, <1>2, <1>3, <1>4

LEMMA CountsExactIs == ASSUME Inv PROVE CountsExact
<1> SUFFICES ASSUME NEW x \in DOMAIN ref
             PROVE  ref[x] = Holds(World, {o \in live : RootOf(o) = x[1]}, x[2])
  BY DEF CountsExact
<1>1. PICK r \in {Root, Proto}, u \in String : x = <<r, u>>
  BY Told
<1>2. PICK w, objs : w = World /\ objs = {o \in live : RootOf(o) = r}
  OBVIOUS
<1>3. w.dict = dict /\ w.str = str /\ live \subseteq Object
  BY <1>2, Told
<1>4. AsValue(w, objs, u) = Val(str, r, u)
  <2>1. \A o \in live : Len(str[o]) = DictSize(w, TopDict(o))
    BY <1>3, Told, DictSizeIs DEF ValuesOK
  <2>2. ASSUME NEW p \in AsValue(w, objs, u) PROVE p \in Val(str, r, u)
    <3>1. /\ p \in objs \X (1 .. Cardinality(Name)) /\ p[2] <= Len(str[p[1]]) /\ str[p[1]][p[2]] = u
      BY <1>3, <2>2 DEF AsValue
    <3>2. p[1] \in Of(r)
      BY <1>2, <1>3, <3>1 DEF Of
    <3> QED BY <3>1, <3>2 DEF Val, Places
  <2>3. ASSUME NEW p \in Val(str, r, u) PROVE p \in AsValue(w, objs, u)
    <3>1. PICK o \in Of(r), i \in 1 .. Cardinality(Name) : p = <<o, i>>
      BY <2>3 DEF Val, Places
    <3>2. i <= Len(str[o]) /\ str[o][i] = u /\ o \in Object /\ RootOf(o) = r
      BY <2>3, <3>1 DEF Val, Of
    <3>3. o \in live
      <4>1. ASSUME o \notin live PROVE FALSE
        <5>1. str[o] = <<>>
          BY <3>2, <4>1, Told DEF ValuesOK
        <5>2. Len(str[o]) = 0 /\ i >= 1 /\ i \in Nat
          BY <3>1, <5>1, Sizes
        <5> QED BY <3>2, <5>2
      <4> QED BY <4>1
    <3>4. o \in objs /\ i <= DictSize(w, TopDict(o))
      BY <1>2, <2>1, <3>2, <3>3
    <3> QED BY <1>3, <3>1, <3>2, <3>4 DEF AsValue
  <2> QED BY <2>2, <2>3
<1>5. ASSUME NEW g \in Graph, NEW k \in Kind, NEW n \in Name
      PROVE  <<<<g, k>>, n>> \in Symbols(w, objs) <=>
               <<<<g, k>>, n>> \in Entries(r) /\ dict[<<g, k>>][n] # NULL
  <2>1. dict[<<g, k>>][n] # NULL => g \in live
    BY Told DEF SymbolsOK
  <2>2. <<<<g, k>>, n>> \in Symbols(w, objs) <=> g \in objs /\ dict[<<g, k>>][n] # NULL
    BY <1>3 DEF Symbols
  <2>3. <<<<g, k>>, n>> \in Entries(r) <=> RootOf(g) = r
    BY DEF Entries, Of, Object
  <2> QED BY <1>2, <2>1, <2>2, <2>3
<1>6. ASSUME NEW p, p \in Symbols(w, objs) \/ p \in Entries(r)
      PROVE  \E g \in Graph, k \in Kind, n \in Name : p = <<<<g, k>>, n>>
  BY <1>6, EntryIs DEF Symbols
<1>7. AsDefault(w, objs, u) = Def(dict, r, u)
  <2>1. ASSUME NEW p PROVE p \in AsDefault(w, objs, u) <=> p \in Def(dict, r, u)
    BY <1>3, <1>5, <1>6 DEF AsDefault, Def
  <2> QED BY <2>1
<1>8. AsName(w, objs, u) = Nam(dict, r, u)
  <2>1. ASSUME NEW p PROVE p \in AsName(w, objs, u) <=> p \in Nam(dict, r, u)
    BY <1>3, <1>5, <1>6 DEF AsName, Nam
  <2> QED BY <2>1
<1>9. ref[x] = Uses(dict, str, r, u)
  BY <1>1, Told DEF Counted
<1>10. Holds(w, objs, u) = Uses(dict, str, r, u)
  BY <1>4, <1>7, <1>8 DEF Holds, Uses
<1> QED BY <1>1, <1>2, <1>9, <1>10

LEMMA LocalIsValue == ASSUME Inv PROVE LocalDefaultIsValue
<1> SUFFICES ASSUME NEW g \in Graph \cap live, NEW n \in Name, dict[<<g, "graph">>][n] # NULL
             PROVE  dict[<<g, "graph">>][n].def = ValueOf(g, n)
  BY DEF LocalDefaultIsValue
<1>1. TopDict(g) = <<RootOf(g), "graph">>
  BY Roots
<1> QED BY <1>1, Told DEF LocalBut, ValueOf

LEMMA TypeIs == ASSUME Inv, Bounded PROVE TypeOK
<1>1. live \subseteq Object /\ attached \subseteq Graph
  BY DEF Inv, Sound, Tree
<1>2. /\ dict \in [Dict -> [Name -> Sym \cup {NULL}]] /\ view \in [Dict -> Dict \cup {NULL}]
      /\ nview \in [Dict -> Int] /\ str \in [Object -> Seq(Text)] /\ room \in [Object -> Nat]
      /\ ref \in [{Root, Proto} \X String -> Int] /\ bad \in BOOLEAN
  BY WorldFields DEF Inv, Sound, Good, Worlds
<1>3. nview \in [Dict -> Nat]
  <2>1. ASSUME NEW d \in Dict PROVE nview[d] \in Nat
    <3>1. nview[d] = Cardinality(Viewers(view, d))
      BY Told DEF Looking
    <3>2. Viewers(view, d) \subseteq Dict
      BY DEF Viewers
    <3> QED BY <3>1, <3>2, Sizes, FS_Subset, FS_CardinalityType
  <2> QED BY <1>2, <2>1
<1>4. str \in [Object -> Seq(Text \cup {NULL})]
  <2>1. \A s \in Seq(Text) : s \in Seq(Text \cup {NULL})
    OBVIOUS
  <2> QED BY <1>2, <2>1
<1>5. ref \in [{Root, Proto} \X (Name \cup Text) -> Nat]
  <2>1. PICK X : X = {Root, Proto} \X String
    OBVIOUS
  <2>2. ASSUME NEW y \in X PROVE ref[y] \in Nat
    <3>1. PICK r \in {Root, Proto}, u \in String : y = <<r, u>>
      BY <2>1
    <3>2. ref[<<r, u>>] = Uses(dict, str, r, u)
      BY Told DEF Counted
    <3> QED BY <3>1, <3>2, UsesSum
  <2>3. ref \in [X -> Int]
    BY <1>2, <2>1
  <2>4. ref \in [X -> Nat]
    BY <2>2, <2>3
  <2> QED BY <2>1, <2>4 DEF String
<1> QED BY <1>1, <1>2, <1>3, <1>4, <1>5 DEF TypeOK, Bounded

-----------------------------------------------------------------------------
(* The theorems are about a client that closes a subgraph it has taken out *)
(* of its parent with agdelsubg before it makes another call.              *)

\* What each variable holds: in particular no count of a string and no count of
\* views is ever negative.
THEOREM TypeCorrect ==
  ASSUME ~Forgets
  PROVE  Spec => []TypeOK
<1>1. Inv /\ Bounded => TypeOK
  BY TypeIs
<1>2. Spec => [](Inv /\ Bounded)
  BY Invariance
<1> QED BY <1>1, <1>2, PTL

\* However many graphs, subgraphs, nodes and attributes there are, and in whatever
\* order they are declared, set, copied and closed, each object has a value for each
\* attribute, by the number that every dictionary it is looked up in gives.
THEOREM ValuesComplete ==
  ASSUME ~Forgets
  PROVE  Spec => []Complete
<1>1. Inv /\ Bounded => Complete
  BY CompleteIs
<1>2. Spec => [](Inv /\ Bounded)
  BY Invariance
<1> QED BY <1>1, <1>2, PTL

\* agstrdup and agstrfree are called in pairs: the count of each string is what the
\* names, defaults and values of the live objects add up to.
THEOREM CountsStayExact ==
  ASSUME ~Forgets
  PROVE  Spec => []CountsExact
<1>1. Inv /\ Bounded => CountsExact
  BY CountsExactIs
<1>2. Spec => [](Inv /\ Bounded)
  BY Invariance
<1> QED BY <1>1, <1>2, PTL

\* What agwrite prints as a graph's attribute is what agget reads.
THEOREM DefaultsStayValues ==
  ASSUME ~Forgets
  PROVE  Spec => []LocalDefaultIsValue
<1>1. Inv /\ Bounded => LocalDefaultIsValue
  BY LocalIsValue
<1>2. Spec => [](Inv /\ Bounded)
  BY Invariance
<1> QED BY <1>1, <1>2, PTL

\* A client that never passes to agxset the pointer to the value it replaces meets
\* no freed string, no array too short and no dictionary that is closed in use.
THEOREM NeverAborts ==
  ASSUME ~Forgets, ~PassesOwn
  PROVE  Spec => []NoAbort
<1>1. Inv /\ Bounded => NoAbort
  BY WorldFields DEF Inv, Sound, NoAbort
<1>2. Spec => [](Inv /\ Bounded)
  BY Invariance
<1> QED BY <1>1, <1>2, PTL
=============================================================================
