----------------------------- MODULE MCBlocking -----------------------------
(* Instances of Blocking for TLC. *)
EXTENDS Blocking, SequencesExt

\* Every stream of at most five units: parts beyond MaxHead, pipelined and
\* malformed requests, requests behind one that closes.
ShortStreams == BoundedSeq(Units, 5)

=============================================================================
