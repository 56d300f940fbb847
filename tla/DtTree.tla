------------------------------- MODULE DtTree -------------------------------
(* The ordered dictionaries of libcdt, as the rest of the code uses them    *)
(* (method Dttree, discipline with a link field inside the object and a     *)
(* function that frees objects): a binary search tree that every operation  *)
(* restructures by a top-down splay, the flattening of a tree to a list,    *)
(* extraction and restoring, the cached count, and views.                   *)
(*                                                                          *)
(* dttree.c writes every case twice, once for each direction; here a side   *)
(* is "left" or "right".  The local variable link of the code, whose        *)
(* right field heads the tree of smaller objects and whose left field heads *)
(* the tree of larger ones, is the node Link.                               *)
EXTENDS Chains, Integers, FiniteSets, Functions, Sequences

CONSTANTS
    Obj,        \* the objects a client may insert
    Key,        \* the key of each object
    Dict,       \* the dictionaries
    Nil,        \* the null pointer
    Link,       \* the local variable of dttree
    Rooms,      \* bounds on the objects in the dictionaries, one of which must hold
    Most        \* bound on the objects in all trees

VARIABLES
    ptr,        \* ptr[o]: the fields left and right of the object
    here,       \* here[d]: the root of d
    size,       \* size[d]: the count of objects, -1 when it is not known
    flat,       \* flat[d]: DT_FLATTEN, the tree of d is a list
    view,       \* view[d]: the dictionary seen through d, or Nil
    kept        \* the root of the tree a client has taken out with dtextract

ASSUME DtAssumption ==
    /\ IsFiniteSet(Obj) /\ IsFiniteSet(Dict)
    /\ Key \in [Obj -> Int]
    /\ Nil \notin Obj \cup Dict /\ Link \notin Obj \cup {Nil}

vars == <<ptr, here, size, flat, view, kept>>

Side == {"left", "right"}
Opp(side) == IF side = "left" THEN "right" ELSE "left"
Blank == [left |-> Nil, right |-> Nil]

\* The side of x on which the key k is to be found.
Toward(k, x) == IF k < Key[x] THEN "left" ELSE "right"
----------------------------------------------------------------------------
(* Operators on a set p of pointer fields.                                  *)

\* rrotate and lrotate: the child of x on the side takes the place of x.
Rotated(p, x, side) ==
    LET t == p[x][side]
    IN  [p EXCEPT ![x][side] = p[t][Opp(side)], ![t][Opp(side)] = x]

\* A loop over a tree ends in no more rounds than there are objects.
Rounds == 0 .. Cardinality(Obj)

\* Rotating the root of t, a record of fields and a root, unless it has no child on the side.
Turned(t, side) ==
    IF t.p[t.root][side] = Nil THEN t
    ELSE [p |-> Rotated(t.p, t.root, side), root |-> t.p[t.root][side]]

\* Rotating the root until it has no child on the side.
Extreme(p, root, side) ==
    LET after[n \in Rounds] ==
            IF n = 0 THEN [p |-> p, root |-> root] ELSE Turned(after[n - 1], side)
    IN  after[Cardinality(Obj)]

Outermost(p, x, side) ==
    LET after[n \in Rounds] ==
            IF n = 0 THEN x
            ELSE LET y == after[n - 1] IN IF p[y][side] = Nil THEN y ELSE p[y][side]
    IN  after[Cardinality(Obj)]

\* The objects of a tree in the order in which a walk meets them.
InOrder(p, x) ==
    LET walk[c \in Rounds \X (Obj \cup {Nil})] ==
            IF c[1] = 0 \/ c[2] = Nil THEN <<>>
            ELSE walk[<<c[1] - 1, p[c[2]].left>>] \o <<c[2]>> \o walk[<<c[1] - 1, p[c[2]].right>>]
    IN  walk[<<Cardinality(Obj), x>>]

\* llink and rlink: the splay c hangs x on the inner side of the tree of
\* objects beyond the place it looks for, where end[side] is the last one.
Hang(c, side, x) ==
    [c EXCEPT !.p[c.end[side]][Opp(side)] = x, !.end[side] = x]

\* A round of the splay: two objects are passed, unless the search ends before.
Descended(c, k) ==
    IF c.root = Nil \/ (c.root # Nil /\ Key[c.root] = k) THEN c
    ELSE LET x == c.root
             side == Toward(k, x)
             t == c.p[x][side]
         IN  IF t = Nil THEN [Hang(c, Opp(side), x) EXCEPT !.root = Nil]
             ELSE IF Key[t] = k THEN [Hang(c, Opp(side), x) EXCEPT !.root = t]
             ELSE IF Toward(k, t) = side
             THEN LET turned == Hang([c EXCEPT !.p = Rotated(c.p, x, side)], Opp(side), t)
                  IN  [turned EXCEPT !.root = turned.p[t][side]]
             ELSE LET parted == Hang(Hang(c, side, t), Opp(side), x)
                  IN  [parted EXCEPT !.root = c.p[t][Opp(side)]]

\* The splay: root comes to be the object with key k, or Nil, and all that was
\* passed on the way is below Link.
Splay(c, k) ==
    LET after[n \in Rounds] == IF n = 0 THEN c ELSE Descended(after[n - 1], k)
    IN  after[Cardinality(Obj)]

\* A search from the root of d.  Moves and deletions do not search when the
\* root is the object itself.
Cut(w, d) ==
    [p |-> [x \in Obj \cup {Link} |-> IF x = Link THEN Blank ELSE w.ptr[x]],
     root |-> w.here[d], end |-> [side \in Side |-> Link]]
SplayTo(w, d, o, always) ==
    IF always \/ w.here[d] # o THEN Splay(Cut(w, d), Key[o]) ELSE Cut(w, d)

\* The larger objects below the object found forgotten.
BugClosed(c) ==
    [c.p EXCEPT ![c.end["left"]].right = IF c.root = Nil THEN Nil ELSE c.p[c.root].left]

\* After the search: the subtrees of the object found, if any, complete the two trees.
Closed(c) ==
    LET below == IF c.root = Nil THEN Blank ELSE c.p[c.root]
    IN  [c.p EXCEPT ![c.end["left"]].right = below.left, ![c.end["right"]].left = below.right]

\* has_root and no_root: x, or the smallest of the larger objects, joins the two trees.
HasRoot(w, d, p, x) ==
    [w EXCEPT !.ptr = Restrict([p EXCEPT ![x] = [left |-> p[Link].right, right |-> p[Link].left]], Obj),
              !.here[d] = x, !.flat[d] = FALSE]
NoRoot(w, d, p, r) ==
    LET joined == [p EXCEPT ![Outermost(p, r, "left")].left = p[Link].right]
    IN  [w EXCEPT !.ptr = Restrict(joined, Obj), !.here[d] = joined[Link].left, !.flat[d] = FALSE]
----------------------------------------------------------------------------
(* The operations of dttree on one dictionary: from a record of the fields  *)
(* ptr, here and flat to such a record and the object answered.             *)

World == [ptr |-> ptr, here |-> here, flat |-> flat]

Answer(w, o) == [w |-> w, got |-> o]

\* What each does after the search c.
Searched(w, d, c) ==
    IF c.root = Nil THEN Answer(NoRoot(w, d, Closed(c), c.end["right"]), Nil)
    ELSE Answer(HasRoot(w, d, Closed(c), c.root), c.root)

Inserted(w, d, c, o) ==
    LET x == IF c.root = Nil THEN o ELSE c.root
    IN  Answer(HasRoot(w, d, Closed(c), x), x)

Deleted(w, d, c) ==
    LET cut == NoRoot(w, d, Closed(c), c.end["right"])
    IN  Answer(IF c.root = Nil THEN cut ELSE [cut EXCEPT !.ptr[c.root] = Blank], c.root)

\* dt_next and dt_prev: the object found goes to the other tree, and the
\* nearest object of the tree on the side becomes the root.
Moved(w, d, c, side) ==
    LET closed == Closed(c)
        p == IF c.root = Nil THEN closed
             ELSE [closed EXCEPT ![c.root] = Blank,
                                 ![c.root][Opp(side)] = closed[Link][side],
                                 ![Link][side] = c.root]
        first == p[Link][Opp(side)]
        e == Extreme(p, first, Opp(side))
    IN  IF w.here[d] = Nil THEN Answer([w EXCEPT !.flat[d] = FALSE], Nil)
        ELSE IF first = Nil THEN Answer(NoRoot(w, d, p, c.end["right"]), Nil)
        ELSE Answer(HasRoot(w, d, [e.p EXCEPT ![Link][Opp(side)] = e.p[e.root][side]], e.root), e.root)

TreeSearch(w, d, o) == Searched(w, d, SplayTo(w, d, o, TRUE))
TreeInsert(w, d, o) == Inserted(w, d, SplayTo(w, d, o, TRUE), o)
TreeDelete(w, d, o) == Deleted(w, d, SplayTo(w, d, o, FALSE))
TreeMove(w, d, o, side) == Moved(w, d, SplayTo(w, d, o, FALSE), side)

TreeStart(w, d, side) ==
    LET e == Extreme(w.ptr, w.here[d], Opp(side))
    IN  IF w.here[d] = Nil THEN Answer([w EXCEPT !.flat[d] = FALSE], Nil)
        ELSE Answer([w EXCEPT !.ptr = e.p, !.here[d] = e.root, !.flat[d] = FALSE], e.root)
----------------------------------------------------------------------------
(* Views: dtvsearch asks the dictionaries below as well.                    *)

\* d and the dictionaries that are seen through it, from above.
Below(d) ==
    Listed(Cardinality(Dict), d, [e \in Dict \cup {Nil} |-> IF e = Nil THEN Nil ELSE view[e]], Nil)

Sees(d, e) == e \in Range(Below(d))

\* dtsearch through a view ends at the first dictionary that has the key.
ViewSearch(w, d, o) ==
    LET below == Below(d)
        after[i \in 0 .. Len(below)] ==
            IF i = 0 THEN Answer(w, Nil)
            ELSE LET a == after[i - 1] IN IF a.got # Nil THEN a ELSE TreeSearch(a.w, below[i], o)
    IN  after[Len(below)]

\* An object below taken for one that covers it.
BugBetter(x, y, side) ==
    x # Nil /\ (y = Nil \/ IF side = "right" THEN Key[x] <= Key[y] ELSE Key[x] >= Key[y])

\* Whether x is to be answered rather than y, found in a dictionary above.
Better(x, y, side) ==
    x # Nil /\ (y = Nil \/ IF side = "right" THEN Key[x] < Key[y] ELSE Key[x] > Key[y])

\* The answer a after what was best so far.
Best(best, a, side) ==
    Answer(a.w, IF Better(a.got, best.got, side) THEN a.got ELSE best.got)

\* dtnext, dtprev, dtfirst and dtlast ask every dictionary and answer the best.
ViewMove(w, d, o, side) ==
    LET below == Below(d)
        after[i \in 0 .. Len(below)] ==
            IF i = 0 THEN Answer(w, Nil)
            ELSE LET best == after[i - 1]
                 IN  Best(best, IF o = Nil THEN TreeStart(best.w, below[i], side)
                                ELSE TreeMove(best.w, below[i], o, side), side)
    IN  after[Len(below)]
----------------------------------------------------------------------------
(* The calls of libcdt.                                                     *)

Objects(p, root) == Range(InOrder(p, root))
Content(d) == Objects(ptr, here[d])
Taken == (UNION {Content(d) : d \in Dict}) \cup Objects(ptr, kept)

\* The bound on the objects in the dictionaries.
Fits(d, more) ==
    \E room \in Rooms : \A e \in Dict :
        Cardinality(Content(e) \cup (IF e = d THEN more ELSE {})) <= room[e]

Becomes(w) ==
    /\ ptr' = w.ptr
    /\ here' = w.here
    /\ flat' = w.flat

Init ==
    /\ ptr = [o \in Obj |-> Blank]
    /\ here = [d \in Dict |-> Nil]
    /\ size = [d \in Dict |-> 0]
    /\ flat = [d \in Dict |-> FALSE]
    /\ view = [d \in Dict |-> Nil]
    /\ kept = Nil

Dtsearch(d, o) ==
    Becomes(ViewSearch(World, d, o).w) /\ UNCHANGED <<size, view, kept>>

\* An object has one link field: the client inserts it in one dictionary.
Dtinsert(d, o) ==
    /\ \/ o \in Content(d)
       \/ o \notin Taken /\ Cardinality(Taken) < Most /\ Fits(d, {o})
    /\ LET a == TreeInsert(World, d, o)
       IN  /\ Becomes(a.w)
           /\ size' = [size EXCEPT ![d] = IF a.got = o /\ o \notin Taken /\ @ >= 0 THEN @ + 1 ELSE @]
    /\ UNCHANGED <<view, kept>>

\* The object answered goes to the function that frees objects.
Dtdelete(d, o) ==
    LET a == TreeDelete(World, d, o)
        less == IF size[d] - 1 < 0 THEN -1 ELSE size[d] - 1
    IN  /\ Becomes(a.w)
        /\ size' = IF a.got = Nil THEN size ELSE [size EXCEPT ![d] = less]
        /\ UNCHANGED <<view, kept>>

\* dtnext and dtprev, of an object that may have been deleted since.
Dtmove(d, o, side) ==
    Becomes(ViewMove(World, d, o, side).w) /\ UNCHANGED <<size, view, kept>>

\* dtfirst, towards the right, and dtlast, towards the left.
Dtstart(d, side) ==
    Becomes(ViewMove(World, d, Nil, side).w) /\ UNCHANGED <<size, view, kept>>

\* The loop of dtclear: the objects it frees, where the root is turned until it
\* has no left child and its right child is the next root.
Freed(p, root) ==
    LET after[n \in Rounds] ==
            IF n = 0 THEN [p |-> p, root |-> root, freed |-> {}]
            ELSE LET t == after[n - 1]
                     e == Extreme(t.p, t.root, "left")
                 IN  IF t.root = Nil THEN t
                     ELSE [p |-> e.p, root |-> e.p[e.root].right, freed |-> t.freed \cup {e.root}]
    IN  after[Cardinality(Obj)].freed

Dtclear(d) ==
    LET freed == Freed(ptr, here[d])
    IN  /\ ptr' = [o \in Obj |-> IF o \in freed THEN Blank ELSE ptr[o]]
        /\ here' = [here EXCEPT ![d] = Nil]
        /\ flat' = [flat EXCEPT ![d] = FALSE]
        /\ size' = IF here[d] = Nil THEN size ELSE [size EXCEPT ![d] = 0]
        /\ UNCHANGED <<view, kept>>

\* The rotations of dtflatten: down the right side, each root is turned until it
\* has no left child; last is the one before.
Spine(p, root, last) ==
    LET after[n \in Rounds] ==
            IF n = 0 THEN [p |-> p, root |-> root, last |-> last]
            ELSE LET t == after[n - 1]
                     e == Extreme(t.p, t.root, "left")
                     q == IF e.root # t.root THEN [e.p EXCEPT ![t.last].right = e.root] ELSE e.p
                 IN  IF t.root = Nil THEN t
                     ELSE [p |-> q, root |-> q[e.root].right, last |-> e.root]
    IN  after[Cardinality(Obj)].p

\* The objects a client meets who follows dtlink from an object on.
Linked(p, x) ==
    Listed(Cardinality(Obj), x, [o \in Obj \cup {Nil} |-> IF o = Nil THEN Nil ELSE p[o].right], Nil)

Dtflatten(d) ==
    /\ IF flat[d] \/ here[d] = Nil THEN UNCHANGED <<ptr, here>>
       ELSE LET e == Extreme(ptr, here[d], "left")
            IN  /\ ptr' = Spine(e.p, e.p[e.root].right, e.root)
                /\ here' = [here EXCEPT ![d] = e.root]
    /\ flat' = [flat EXCEPT ![d] = TRUE]
    /\ UNCHANGED <<size, view, kept>>

\* The count left behind.
BugDtextract(d) ==
    /\ kept = Nil
    /\ kept' = here[d]
    /\ here' = [here EXCEPT ![d] = Nil]
    /\ flat' = [flat EXCEPT ![d] = FALSE]
    /\ UNCHANGED <<ptr, size, view>>

\* The client keeps what it takes out, one tree at a time.
Dtextract(d) ==
    /\ kept = Nil
    /\ kept' = here[d]
    /\ here' = [here EXCEPT ![d] = Nil]
    /\ size' = [size EXCEPT ![d] = 0]
    /\ flat' = [flat EXCEPT ![d] = FALSE]
    /\ UNCHANGED <<ptr, view>>

\* Restored over the objects that are there.
BugDtrestore(d) ==
    /\ Fits(d, Objects(ptr, kept))
    /\ flat' = [flat EXCEPT ![d] = FALSE]
    /\ kept' = Nil
    /\ IF kept = Nil THEN UNCHANGED <<here, size>>
       ELSE /\ here' = [here EXCEPT ![d] = kept]
            /\ size' = [size EXCEPT ![d] = -1]
    /\ UNCHANGED <<ptr, view>>

\* With no list a flattened dictionary becomes a tree; with one the dictionary
\* must count no objects.
Dtrestore(d) ==
    /\ Fits(d, Objects(ptr, kept))
    /\ IF kept # Nil /\ size[d] # 0 THEN UNCHANGED <<here, size, flat, kept>>
       ELSE /\ flat' = [flat EXCEPT ![d] = FALSE]
            /\ kept' = Nil
            /\ IF kept = Nil THEN UNCHANGED <<here, size>>
               ELSE /\ here' = [here EXCEPT ![d] = kept]
                    /\ size' = [size EXCEPT ![d] = -1]
    /\ UNCHANGED <<ptr, view>>

Dtsize(d) ==
    /\ flat' = [flat EXCEPT ![d] = FALSE]
    /\ size' = [size EXCEPT ![d] = IF @ < 0 THEN Len(InOrder(ptr, here[d])) ELSE @]
    /\ UNCHANGED <<ptr, here, view, kept>>

Dtview(d, v) ==
    /\ flat' = [e \in Dict |-> flat[e] /\ e \notin {d, v}]
    /\ view' = IF Sees(v, d) THEN view ELSE [view EXCEPT ![d] = v]
    /\ UNCHANGED <<ptr, here, size, kept>>

Next ==
    \E d \in Dict :
        \/ \E o \in Obj : Dtsearch(d, o) \/ Dtinsert(d, o) \/ Dtdelete(d, o)
        \/ \E o \in Obj, side \in Side : Dtmove(d, o, side)
        \/ \E side \in Side : Dtstart(d, side)
        \/ Dtclear(d) \/ Dtflatten(d) \/ Dtextract(d) \/ Dtrestore(d) \/ Dtsize(d)
        \/ \E v \in Dict \cup {Nil} : Dtview(d, v)

Spec == Init /\ [][Next]_vars
----------------------------------------------------------------------------
(* Properties *)

Before(s) == \A i, j \in DOMAIN s : i < j => Key[s[i]] < Key[s[j]]

\* Where the pointers to an object are.
PointersTo(o) ==
    {f \in Obj \X Side : ptr[f[1]][f[2]] = o}
        \cup {<<d, "here">> : d \in {e \in Dict : here[e] = o}}
        \cup {<<k, "kept">> : k \in {kept} \cap {o}}

\* After any splay, in whatever direction it turned and wherever it ended, what is
\* linked are trees, with one pointer to each object; a walk of a dictionary, and
\* of a tree taken out of one, meets the objects in the order of their keys; and
\* the tree of a flattened dictionary is a list (dttree.c, dtflatten.c).
TreeSound ==
    /\ \A o \in Obj : Cardinality(PointersTo(o)) <= 1
    /\ \A d \in Dict :
        /\ Before(InOrder(ptr, here[d]))
        /\ flat[d] => Linked(ptr, here[d]) = InOrder(ptr, here[d])
    /\ Before(InOrder(ptr, kept))

\* The count of a dictionary is exact or known to be unknown, through extraction
\* and restoring, which do not carry it along: dtrestore takes it for the sign of
\* an empty dictionary (dtrestore.c:29, dtsize.c:29).
SizeHonest == \A d \in Dict : size[d] \in {-1, Len(InOrder(ptr, here[d]))}

\* The trees change as sets with an order would, with objects that the client
\* may no longer have, dictionaries flattened, and trees taken out and put back
\* (dttree.c, dtflatten.c, dtextract.c, dtrestore.c, dtview.c).
Abs == INSTANCE DtAbs WITH content <- [d \in Dict |-> Content(d)],
                           kept <- Objects(ptr, kept)
KeepsPromise == Abs!Spec

\* Whether a call that answers a leaves set in d and answers one of the objects
\* in promised, or none if there are none.
Does(a, d, set, promised) ==
    /\ Objects(a.w.ptr, a.w.here[d]) = set
    /\ {a.got} \ {Nil} = promised

\* Whatever the shape of the trees, each call answers the object that its key or
\* its neighbour stands for, through views as well, and deletes, inserts or frees
\* what it answers and nothing else; a walk may go on from an object that is no
\* longer there (dttree.c, dtvsearch of dtview.c).
AnswersRight ==
    \A d \in Dict :
        LET own == Content(d)
            seen == Abs!Seen(d)
        IN  /\ \A o \in Obj :
                /\ Does(ViewSearch(World, d, o), d, own, Abs!Same(seen, o))
                /\ Does(TreeDelete(World, d, o), d, own \ Abs!Same(own, o), Abs!Same(own, o))
                /\ \A side \in Side :
                    Does(ViewMove(World, d, o, side), d, own,
                         Abs!Nearest(Abs!Beyond(seen, o, side), side))
                /\ o \notin Taken =>
                    LET same == IF Abs!Same(own, o) = {} THEN {o} ELSE Abs!Same(own, o)
                    IN  Does(TreeInsert(World, d, o), d, own \cup same, same)
            /\ \A side \in Side :
                Does(ViewMove(World, d, Nil, side), d, own, Abs!Nearest(seen, side))
            /\ Freed(ptr, here[d]) = own
=============================================================================
