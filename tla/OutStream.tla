------------------------------ MODULE OutStream ------------------------------
(***************************************************************************)
(* What a WebSocket connection promises to those who send on it: frames    *)
(* are accepted one after the other and numbered in that order; they reach *)
(* the peer in that order without gaps; and every frame is answered for at *)
(* most once, as sent only when it was sent, as failed only when it never  *)
(* will be.  SendQueue implements this.                                    *)
(***************************************************************************)
EXTENDS Integers, Sequences

VARIABLES
    accepted,   \* Number of frames accepted so far.
    sent,       \* Number of frames handed to the peer: the first ones.
    broken,     \* TRUE once no further frame can be sent.
    answers     \* What the senders were told: frame number and success.

streamVars == << accepted, sent, broken, answers >>

StreamInit ==
    /\ accepted = 0
    /\ sent = 0
    /\ broken = FALSE
    /\ answers = << >>

Answered(n) == \E i \in DOMAIN answers : answers[i].id = n

Accept ==
    /\ accepted' = accepted + 1
    /\ UNCHANGED << sent, broken, answers >>

Transmit ==
    /\ ~broken
    /\ sent < accepted
    /\ sent' = sent + 1
    /\ UNCHANGED << accepted, broken, answers >>

Break ==
    /\ broken' = TRUE
    /\ UNCHANGED << accepted, sent, answers >>

Answer(n, ok) ==
    /\ ~Answered(n)
    /\ ok => n <= sent
    /\ ~ok => broken /\ n > sent
    /\ answers' = Append(answers, [id |-> n, ok |-> ok])
    /\ UNCHANGED << accepted, sent, broken >>

StreamNext ==
    \/ Accept
    \/ Transmit
    \/ Break
    \/ \E n \in 1..accepted, ok \in BOOLEAN : Answer(n, ok)

StreamSpec == StreamInit /\ [][StreamNext]_streamVars
=============================================================================
