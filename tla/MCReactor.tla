------------------------------ MODULE MCReactor ------------------------------
(* Instances of Reactor for TLC. *)
EXTENDS Reactor

\* Two requests on one connection, the second cut in two and closing it.
TwoRequests == {<<"keep", "part", "close">>}

\* A request cut in two that closes.
CutRequest == {<<"part", "close">>}

\* Peers that connect, send nothing and leave.
Silent == {<< >>}

=============================================================================
