--------------------------- MODULE MCAgCallbacks ---------------------------
(* Small instances of AgCallbacks.                                         *)
EXTENDS AgCallbacks

CONSTANTS root, sub, o1, o2, o3

\* the edge o3, if there is one, and nodes that are there to be connected
EndsOf == [e \in Edges |-> {o1, o2} \cap Obj]
=============================================================================
