--------------------------- MODULE MCAgDiscStack ---------------------------
(* Small instances of AgDiscStack.                                         *)
EXTENDS AgDiscStack, TLC

CONSTANTS e1, e2, e3, d1, d2

\* Nothing distinguishes two addresses, nor two disciplines.
Interchangeable == Permutations({e1, e2, e3}) \cup Permutations({d1, d2})

\* Nothing is claimed of a list some entry of which was given out a second time.
\* States in which one was are checked, but not what follows them.
NotReused == ~reused
=============================================================================
