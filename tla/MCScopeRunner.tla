---------------------------- MODULE MCScopeRunner ----------------------------
(* Instance of ScopeRunner for TLC: three workers, so that two locks can   *)
(* be alive while a third is being taken, and two threads in stop().       *)
EXTENDS ScopeRunner, TLC

CONSTANTS w1, w2, w3, s1, s2

\* Threads of a kind are interchangeable; used where no liveness is checked.
Symmetry == Permutations({w1, w2, w3}) \union Permutations({s1, s2})
=============================================================================
