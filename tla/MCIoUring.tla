------------------------------ MODULE MCIoUring ------------------------------
(* Instances of IoUring for TLC. *)
EXTENDS IoUring, TLC

\* A kept-alive request followed by one that closes.
TwoRequests == {<<"keep", "close">>}

\* One request, kept alive.
OneRequest == {<<"keep">>}

PeerSymmetry == Permutations(Peers)
=============================================================================
