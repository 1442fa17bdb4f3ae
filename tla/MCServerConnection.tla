-------------------------- MODULE MCServerConnection --------------------------
(* Instance of ServerConnection for TLC.                                   *)
EXTENDS ServerConnection, TLC

CONSTANTS t1, t2, u1

\* Io threads are interchangeable; used where no liveness is checked.
Symmetry == Permutations({t1, t2})
=============================================================================
