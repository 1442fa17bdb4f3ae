------------------------------ MODULE InStream ------------------------------
(***************************************************************************)
(* What a WebSocket connection promises to those who listen to it: after   *)
(* on_open they get the messages of the peer, each once, whole and in      *)
(* order, with a callback for each; and behind the one callback that says  *)
(* the connection has ended nothing follows, except that a message which   *)
(* is too big is reported first and the end behind it.  The connections of *)
(* both sides, ServerConnection and ClientConnection, implement this; what *)
(* is promised to those who send is OutStream.                             *)
(***************************************************************************)
EXTENDS Integers, Sequences

VARIABLES
    offered,    \* Messages of the peer, each from its last frame on.
    taken,      \* Messages given to on_message.
    heard       \* Callbacks so far.

inVars == << offered, taken, heard >>

InInit ==
    /\ offered = << >>
    /\ taken = << >>
    /\ heard = << >>

HeardLast(events) == heard # << >> /\ heard[Len(heard)] \in events
Going == HeardLast({"open", "message", "ping", "pong"})

Hear(event) == heard' = Append(heard, event)

Open ==
    /\ heard = << >>
    /\ Hear("open")
    /\ UNCHANGED << offered, taken >>

\* The peer finishes a message, whichever, when the one before was taken.
Offer ==
    /\ Going
    /\ taken = offered
    /\ \E i \in DOMAIN offered' : offered' = Append(offered, offered'[i])
    /\ UNCHANGED << taken, heard >>

Take ==
    /\ Going
    /\ taken # offered
    /\ taken' = offered
    /\ Hear("message")
    /\ UNCHANGED offered

\* A control frame comes before or behind a message, or between its fragments.
Control ==
    /\ Going
    /\ taken = offered
    /\ Hear("ping") \/ Hear("pong")
    /\ UNCHANGED << offered, taken >>

\* A message is too big, and is never given to anyone.
Refuse ==
    /\ Going
    /\ Hear("message_size")
    /\ UNCHANGED << offered, taken >>

\* The connection fails, or was never made.
Fail ==
    /\ heard = << >> \/ Going
    /\ Hear("error")
    /\ UNCHANGED << offered, taken >>

Finish ==
    /\ Going \/ HeardLast({"message_size"})
    /\ Hear("close")
    /\ UNCHANGED << offered, taken >>

InNext ==
    \/ Open
    \/ Offer
    \/ Take
    \/ Control
    \/ Refuse
    \/ Fail
    \/ Finish

InSpec == InInit /\ [][InNext]_inVars
=============================================================================
