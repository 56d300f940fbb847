----------------------------- MODULE MCAgNames -----------------------------
(* Small instances of AgNames.                                             *)
EXTENDS AgNames

\* A local name that is also what agnameof prints for the first invented id.
Clash == {<<"%", 1>>}
=============================================================================
