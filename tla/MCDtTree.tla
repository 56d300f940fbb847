------------------------------ MODULE MCDtTree ------------------------------
(* Dictionary a over dictionary b; the objects x2 and y2 have the same key. *)
EXTENDS DtTree

FiveKeys == [x1 |-> 1, x2 |-> 2, y2 |-> 2, x3 |-> 3, x4 |-> 4]
FiveObjects == DOMAIN FiveKeys
OneOrBoth == {[a |-> 4, b |-> 0], [a |-> 2, b |-> 1]}
=============================================================================
