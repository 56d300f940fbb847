----------------------------- MODULE AgRecAbs ------------------------------
(* What the record functions of cgraph promise: an object has at most one  *)
(* record of a name, and one of its records at most is locked in front.    *)

CONSTANTS Object, Name, NULL

VARIABLES
  bound,  \* names of the records of each object
  locked  \* the name of the record the object's data pointer is locked on

vars == <<bound, locked>>

Init ==
  /\ bound = [o \in Object |-> {}]
  /\ locked = [o \in Object |-> NULL]

\* agbindrec, and aggetrec of a record that is there: a lock is given when it
\* is asked for and there is none
Bind(o, n, mtf) ==
  /\ bound' = [bound EXCEPT ![o] = @ \cup {n}]
  /\ locked' = [locked EXCEPT ![o] = IF mtf /\ @ = NULL THEN n ELSE @]

\* agdelrec: the lock goes with its record
Remove(o, n) ==
  /\ n \in bound[o]
  /\ bound' = [bound EXCEPT ![o] = @ \ {n}]
  /\ locked' = [locked EXCEPT ![o] = IF @ = n THEN NULL ELSE @]

\* agrecclose, when the object is deleted
Close(o) ==
  /\ bound' = [bound EXCEPT ![o] = {}]
  /\ locked' = [locked EXCEPT ![o] = NULL]

Next ==
  \E o \in Object :
    \/ Close(o)
    \/ \E n \in Name : Remove(o, n) \/ \E mtf \in BOOLEAN : Bind(o, n, mtf)

Spec == Init /\ [][Next]_vars
=============================================================================
