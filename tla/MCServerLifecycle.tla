-------------------------- MODULE MCServerLifecycle --------------------------
(* Instance of ServerLifecycle for TLC: a start()ing thread, up to two      *)
(* threads of the pool, two clients.                                        *)
EXTENDS ServerLifecycle

CONSTANTS main, p1, p2, u1, u2, a, b
=============================================================================
