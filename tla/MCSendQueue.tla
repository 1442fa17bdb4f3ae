----------------------------- MODULE MCSendQueue -----------------------------
(* Instance of SendQueue for TLC.                                          *)
EXTENDS SendQueue, TLC

CONSTANTS c1, c2, t1, t2

\* Callers are interchangeable and so are io threads; used where no liveness
\* is checked.
Symmetry == Permutations({c1, c2}) \union Permutations({t1, t2})
=============================================================================
