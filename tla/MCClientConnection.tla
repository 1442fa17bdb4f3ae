-------------------------- MODULE MCClientConnection --------------------------
(* Instance of ClientConnection for TLC.                                   *)
EXTENDS ClientConnection

CONSTANT t1
=============================================================================
