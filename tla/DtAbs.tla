------------------------------- MODULE DtAbs -------------------------------
(* What libcdt promises of an ordered dictionary: a set of objects with     *)
(* different keys, that can be searched and walked in the order of the keys *)
(* and seen on top of another dictionary, whose objects of the same key it  *)
(* covers.  How the objects are linked is not visible.                      *)
EXTENDS Chains, Integers, FiniteSets, Functions, Sequences

CONSTANTS
    Obj,        \* the objects a client may insert
    Key,        \* the key of each object
    Dict,       \* the dictionaries
    Nil         \* no dictionary

VARIABLES
    content,    \* content[d]: the objects of d
    view,       \* view[d]: the dictionary seen through d, or Nil
    kept        \* the objects a client has taken out with dtextract

vars == <<content, view, kept>>

\* The objects in s with the key of o.
Same(s, o) == {x \in s : Key[x] = Key[o]}

\* d and the dictionaries that are seen through it, from above.
Below(d) ==
    Listed(Cardinality(Dict), d, [e \in Dict \cup {Nil} |-> IF e = Nil THEN Nil ELSE view[e]], Nil)

Sees(d, e) == e \in Range(Below(d))

\* What a client of d sees: the objects that no dictionary above covers.
Seen(d) ==
    {x \in Obj : \E i \in DOMAIN Below(d) :
        /\ x \in content[Below(d)[i]]
        /\ \A j \in 1 .. i - 1 : Same(content[Below(d)[j]], x) = {}}

\* The object of s that comes first seen from the other side.
Nearest(s, side) ==
    {x \in s : \A y \in s : IF side = "right" THEN Key[x] <= Key[y] ELSE Key[x] >= Key[y]}

Beyond(s, o, side) ==
    {x \in s : IF side = "right" THEN Key[x] > Key[o] ELSE Key[x] < Key[o]}
----------------------------------------------------------------------------
Init ==
    /\ content = [d \in Dict |-> {}]
    /\ view = [d \in Dict |-> Nil]
    /\ kept = {}

Insert(d, o) ==
    /\ Same(content[d], o) = {}
    /\ content' = [content EXCEPT ![d] = @ \cup {o}]
    /\ UNCHANGED <<view, kept>>

Delete(d, o) ==
    /\ content' = [content EXCEPT ![d] = @ \ Same(@, o)]
    /\ UNCHANGED <<view, kept>>

Clear(d) ==
    /\ content' = [content EXCEPT ![d] = {}]
    /\ UNCHANGED <<view, kept>>

Extract(d) ==
    /\ kept = {}
    /\ kept' = content[d]
    /\ content' = [content EXCEPT ![d] = {}]
    /\ UNCHANGED view

\* Refused when d holds objects already.
Restore(d) ==
    /\ content[d] = {}
    /\ content' = [content EXCEPT ![d] = kept]
    /\ kept' = {}
    /\ UNCHANGED view

\* Refused when it would make a cycle.
View(d, v) ==
    /\ ~Sees(v, d)
    /\ view' = [view EXCEPT ![d] = v]
    /\ UNCHANGED <<content, kept>>

Next ==
    \E d \in Dict :
        \/ \E o \in Obj : Delete(d, o) \/ Insert(d, o)
        \/ Clear(d) \/ Extract(d) \/ Restore(d)
        \/ \E v \in Dict \cup {Nil} : View(d, v)

Spec == Init /\ [][Next]_vars
=============================================================================
