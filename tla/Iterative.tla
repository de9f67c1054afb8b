----------------------------- MODULE Iterative ------------------------------
(***************************************************************************)
(* models/iterative.rs: one thread accepts a connection, serves it to      *)
(* completion and accepts the next.  handle_conn is module Blocking.       *)
(***************************************************************************)
EXTENDS Listening

IterAccept == AcceptThen("iterative", "call")

\* handle_conn is called.
IterCall ==
    /\ At("iterative", "call")
    /\ CallServe(hand)
    /\ Goto("serve")
    /\ UNCHANGED <<model, status, fresh, backlog, hand, faults>>

\* handle_conn returns, the stream dropped; its error is logged and no more.
IterReturn ==
    /\ At("iterative", "serve")
    /\ hand' = NoConn
    /\ Goto("accept")
    /\ UNCHANGED <<model, status, fresh, backlog, calls, faults>>

IterLoop == IterAccept \/ IterCall \/ IterReturn

IterNext == Connect("iterative") \/ IterLoop

IterFairness == WF_listenVars(IterLoop)
=============================================================================
