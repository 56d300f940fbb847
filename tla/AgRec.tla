------------------------------- MODULE AgRec -------------------------------
(***************************************************************************)
(* The records that clients attach to graphs, nodes and edges              *)
(* (lib/cgraph rec.c).                                                     *)
(*                                                                         *)
(* The records of an object form a circular list, and the object's data    *)
(* pointer points somewhere into it: at the record that was asked for      *)
(* last, unless it is locked on one.  An edge is two structs, its halves,  *)
(* each with a data pointer and a lock bit of its own that must agree.     *)
(*                                                                         *)
(* An operator named Bug... is a wrong version of the one that follows it. *)
(***************************************************************************)
EXTENDS Integers, Sequences, FiniteSets, SequencesExt, Chains

CONSTANTS
  Hdr,   \* Agobj_t structs: graphs, nodes and halves of edges
  Opp,   \* agopp for the half of an edge, and any other struct itself
  Rec,   \* the addresses records may have
  Name,  \* names of records
  NULL

ASSUME RecAssumption ==
  /\ IsFiniteSet(Rec)
  /\ Opp \in [Hdr -> Hdr]
  /\ \A h \in Hdr : Opp[Opp[h]] = h
  /\ NULL \notin Rec \cup Name

VARIABLES
  hdr,        \* data and tag.mtflock of each object
  next, name, \* the fields of Agrec_t
  allocated,  \* records that are allocated
  ret         \* the last call of aggetrec or agbindrec and what it returned

vars == <<hdr, next, name, allocated, ret>>

Bare == [data |-> NULL, lock |-> FALSE]
Call == [h : Hdr, rec : Rec \cup {NULL}, mtf : BOOLEAN]

TypeOK ==
  /\ hdr \in [Hdr -> [data : Rec \cup {NULL}, lock : BOOLEAN]]
  /\ next \in [Rec -> Rec \cup {NULL}]
  /\ name \in [Rec -> Name \cup {NULL}]
  /\ allocated \subseteq Rec
  /\ ret \in Call \cup {NULL}
  /\ \A h \in Hdr : hdr[h].lock => hdr[h].data \in allocated

-----------------------------------------------------------------------------
\* The records of h in the order in which aggetrec looks at them.
Ring(h) ==
  LET first == hdr[h].data
      onward == [r \in Rec \cup {NULL} |->
                   IF r = NULL THEN NULL ELSE IF next[r] = first THEN NULL ELSE next[r]]
  IN  Listed(Cardinality(Rec), first, onward, NULL)

\* the loop of aggetrec
Search(h, n) ==
  LET found(r) == name[r] = n
      i == SelectInSeq(Ring(h), found)
  IN  IF i = 0 THEN NULL ELSE Ring(h)[i]

\* (the other half is forgotten)
BugSetData(H, h, r, mtflock) ==
  [H EXCEPT ![h] = [data |-> r, lock |-> mtflock]]

\* set_data, on the headers H
SetData(H, h, r, mtflock) ==
  LET d == [data |-> r, lock |-> mtflock]
  IN  [H EXCEPT ![h] = d, ![Opp[h]] = d]

\* (a lock is moved)
BugToFront(H, h, r, mtf) ==
  IF r = NULL \/ (H[h].data = r /\ H[h].lock = mtf) THEN H
  ELSE SetData(H, h, r, mtf)

\* aggetrec, when it has found r: a lock stays as it is, otherwise r comes to
\* the front, where mtf locks it
ToFront(H, h, r, mtf) ==
  IF r = NULL \/ H[h].lock \/ (H[h].data = r /\ ~mtf) THEN H
  ELSE SetData(H, h, r, mtf)

Aggetrec(h, n, mtf) ==
  LET r == Search(h, n)
  IN  /\ hdr' = ToFront(hdr, h, r, mtf)
      /\ ret' = [h |-> h, rec |-> r, mtf |-> mtf]
      /\ UNCHANGED <<next, name, allocated>>

\* (the list stays open)
BugPut(h, r) == [next EXCEPT ![r] = hdr[h].data]

\* objputrec: r goes behind the record in front, or is the only one
Put(h, r) ==
  LET first == hdr[h].data
  IN  IF first = NULL THEN [next EXCEPT ![r] = r]
      ELSE [next EXCEPT ![r] = next[first], ![first] = r]

\* agbindrec of a record the object has, or with size 0
AgbindrecOld(h, n, mtf) ==
  LET r == Search(h, n)
      H == ToFront(hdr, h, r, FALSE)
  IN  /\ hdr' = IF mtf THEN ToFront(H, h, r, TRUE) ELSE H
      /\ ret' = [h |-> h, rec |-> r, mtf |-> mtf]
      /\ UNCHANGED <<next, name, allocated>>

\* agbindrec of a record the object lacks
AgbindrecNew(h, n, mtf) ==
  /\ Search(h, n) = NULL
  /\ \E r \in Rec \ allocated :
       LET H == IF hdr[h].lock THEN hdr ELSE SetData(hdr, h, r, FALSE)
       IN  /\ allocated' = allocated \cup {r}
           /\ name' = [name EXCEPT ![r] = n]
           /\ next' = Put(h, r)
           /\ hdr' = IF mtf THEN ToFront(H, h, r, TRUE) ELSE H
           /\ ret' = [h |-> h, rec |-> r, mtf |-> mtf]

\* (the lock goes on to the next record)
BugMoveOff(H, h, r) ==
  IF H[h].data = r
  THEN SetData(H, h, IF next[r] = r THEN NULL ELSE next[r], H[h].lock)
  ELSE H

\* objdelrec: if h points to r, it is moved, and any lock broken
MoveOff(H, h, r) ==
  IF H[h].data = r
  THEN SetData(H, h, IF next[r] = r THEN NULL ELSE next[r], FALSE)
  ELSE H

\* (the record before r is not relinked)
BugUnlinked(r) == [next EXCEPT ![r] = NULL]

\* listdelrec: the record before r skips it
Unlinked(r) ==
  [x \in Rec |-> IF x = r THEN NULL ELSE IF next[x] = r THEN next[r] ELSE next[x]]

\* agdelrec; the images of the object in subgraphs are the same struct
Agdelrec(h, n) ==
  LET r == Search(h, n)
  IN  /\ r # NULL
      /\ hdr' = MoveOff(ToFront(hdr, h, r, FALSE), h, r)
      /\ next' = Unlinked(r)
      /\ name' = [name EXCEPT ![r] = NULL]
      /\ allocated' = allocated \ {r}
      /\ ret' = NULL

\* agrecclose, when the object is deleted; its struct, cleared, is another
\* object from now on
Agrecclose(h) ==
  LET gone == ToSet(Ring(h))
  IN  /\ hdr[h].data # NULL
      /\ hdr' = [hdr EXCEPT ![h] = Bare, ![Opp[h]] = Bare]
      /\ next' = [r \in Rec |-> IF r \in gone THEN NULL ELSE next[r]]
      /\ name' = [r \in Rec |-> IF r \in gone THEN NULL ELSE name[r]]
      /\ allocated' = allocated \ gone
      /\ ret' = NULL

Init ==
  /\ hdr = [h \in Hdr |-> Bare]
  /\ next = [r \in Rec |-> NULL]
  /\ name = [r \in Rec |-> NULL]
  /\ allocated = {}
  /\ ret = NULL

Next ==
  \E h \in Hdr :
    \/ Agrecclose(h)
    \/ \E n \in Name :
         \/ Agdelrec(h, n)
         \/ \E mtf \in BOOLEAN :
              Aggetrec(h, n, mtf) \/ AgbindrecOld(h, n, mtf) \/ AgbindrecNew(h, n, mtf)

Spec == Init /\ [][Next]_vars

-----------------------------------------------------------------------------
(* Properties.                                                             *)

\* Each object's records form a ring through its data pointer, no record is in
\* the rings of two objects, and every record that is allocated is in a ring.
RingsSound ==
  /\ allocated = UNION {ToSet(Ring(h)) : h \in Hdr}
  /\ \A h \in Hdr : Ring(h) # <<>> => next[Last(Ring(h))] = hdr[h].data
  /\ \A h, k \in Hdr :
       k \notin {h, Opp[h]} => ToSet(Ring(h)) \cap ToSet(Ring(k)) = {}

\* The two halves of an edge have the same records, in front and locked alike.
HalvesAgree == \A h \in Hdr : hdr[h] = hdr[Opp[h]]

\* The list pointer, once locked on a record, stays on it until that record or
\* the object is deleted: the list is what AgRecAbs says, however it is turned.
Objects == {{h, Opp[h]} : h \in Hdr}
HdrOf(o) == CHOOSE h \in Hdr : h \in o
BoundNames == [o \in Objects |-> {name[r] : r \in ToSet(Ring(HdrOf(o)))}]
LockedName ==
  [o \in Objects |-> IF hdr[HdrOf(o)].lock THEN name[hdr[HdrOf(o)].data] ELSE NULL]
Abs == INSTANCE AgRecAbs WITH
         Object <- Objects, bound <- BoundNames, locked <- LockedName
KeepsPromise == Abs!Spec

\* "AG_MTF_HARD guarantees that a lock was obtained."
LockObtained ==
  ret # NULL => (ret.mtf /\ ret.rec # NULL => hdr[ret.h] = [data |-> ret.rec, lock |-> TRUE])

\* "To release locks, use AG_MTF_SOFT or AG_MTF_FALSE."
LockReleased == ret # NULL => (~ret.mtf /\ ret.rec # NULL => ~hdr[ret.h].lock)
=============================================================================
