----------------------------- MODULE MCPollLoop ------------------------------
(* An instance of PollLoop for TLC. *)
EXTENDS PollLoop

CONSTANTS p1, p2

TwoPeers == {p1, p2}

\* One peer sends two requests, the second of which closes; the other connects,
\* says nothing, and leaves or is swept.
KeepThenClose == [c \in TwoPeers |-> IF c = p1 THEN <<"keep", "close">> ELSE << >>]
=============================================================================
