--------------------------- MODULE ThreadPerConn ----------------------------
(***************************************************************************)
(* models/thread_per_conn.rs: the accept loop takes a permit of a counting *)
(* semaphore before it spawns a detached thread for the connection, which  *)
(* returns the permit when serve_connection is done.  The semaphore is a   *)
(* Mutex and a Condvar; what happens under the lock, the notification      *)
(* included, is one step, and a waiting thread may wake spuriously.        *)
(***************************************************************************)
EXTENDS Listening

VARIABLES
    permits,
    thread    \* of each connection

tpcVars == <<listenVars, permits, thread>>

TpcInit ==
    /\ permits = MaxConnections
    /\ thread = [c \in Conns |-> "none"]

TpcThreads(l) == {c \in Conns : thread[c] = l}

-----------------------------------------------------------------------------
(* The accept loop *)

TpcAccept == AcceptThen("thread-per-conn", "acquire") /\ UNCHANGED <<permits, thread>>

\* Semaphore::acquire finds a permit.
Acquire ==
    /\ At("thread-per-conn", "acquire") /\ permits > 0
    /\ permits' = permits - 1
    /\ Goto("spawn")
    /\ UNCHANGED <<model, status, fresh, backlog, hand, calls, faults, thread>>

\* Semaphore::acquire finds none, and waits.
AcquireWaits ==
    /\ At("thread-per-conn", "acquire") /\ permits = 0
    /\ Goto("wait")
    /\ UNCHANGED <<model, status, fresh, backlog, hand, calls, faults, permits, thread>>

\* Mutant: the permit is not checked again after a wakeup.
AcquireWokenUnchecked ==
    /\ At("thread-per-conn", "wait")
    /\ permits' = permits - 1
    /\ Goto("spawn")
    /\ UNCHANGED <<model, status, fresh, backlog, hand, calls, faults, thread>>

\* The wait returns without a notification, and the permits are checked again.
AcquireWoken ==
    /\ At("thread-per-conn", "wait")
    /\ Goto("acquire")
    /\ UNCHANGED <<model, status, fresh, backlog, hand, calls, faults, permits, thread>>

TpcSpawn ==
    /\ At("thread-per-conn", "spawn")
    /\ thread' = [thread EXCEPT ![hand] = "serve"]
    /\ CallServe(hand)
    /\ hand' = NoConn
    /\ Goto("accept")
    /\ UNCHANGED <<model, status, fresh, backlog, faults, permits>>

\* thread::spawn panics: the main thread unwinds and the process exits.
TpcSpawnPanics ==
    /\ At("thread-per-conn", "spawn") /\ Fault
    /\ ProcessEnds("panicked")
    /\ thread' = [c \in Conns |-> IF thread[c] = "none" THEN "none" ELSE "done"]
    /\ UNCHANGED permits

TpcAcceptor == TpcAccept \/ Acquire \/ AcquireWaits \/ TpcSpawn

-----------------------------------------------------------------------------
(* The thread of connection c *)

\* serve_connection returns, the stream dropped.
TpcReturn(c) ==
    /\ thread[c] = "serve"
    /\ thread' = [thread EXCEPT ![c] = "release"]
    /\ UNCHANGED <<listenVars, permits>>

\* Mutant: the waiter is not woken.
ReleaseSilent(c) ==
    /\ thread[c] = "release"
    /\ permits' = permits + 1
    /\ thread' = [thread EXCEPT ![c] = "done"]
    /\ UNCHANGED listenVars

\* Semaphore::release: the permit is returned and the waiter, if any, woken.
Release(c) ==
    /\ thread[c] = "release"
    /\ permits' = permits + 1
    /\ pc' = IF pc = "wait" THEN "acquire" ELSE pc
    /\ thread' = [thread EXCEPT ![c] = "done"]
    /\ UNCHANGED <<model, status, fresh, backlog, hand, calls, faults>>

TpcThread(c) == TpcReturn(c) \/ Release(c)

TpcNext ==
    \/ Connect("thread-per-conn") /\ UNCHANGED <<permits, thread>>
    \/ TpcAcceptor
    \/ AcquireWoken
    \/ TpcSpawnPanics
    \/ \E c \in Conns : TpcThread(c)

TpcFairness ==
    /\ WF_tpcVars(TpcAcceptor)
    /\ \A c \in Conns : WF_tpcVars(TpcThread(c))

TpcSpec ==
    /\ model = "thread-per-conn" /\ pc = "accept" /\ ListenInit /\ TpcInit
    /\ [][TpcNext]_tpcVars

-----------------------------------------------------------------------------
(* Properties *)

TpcTypeOK ==
    /\ permits \in Int
    /\ thread \in [Conns -> {"none", "serve", "release", "done"}]

\* Every permit is free, or held by a running thread or by the accept loop
\* between acquire and spawn: none is leaked or made up, so at most
\* max_connections threads run; and the accept loop sleeps only while there is
\* no permit, so that some thread has still to release one and wake it.
PermitsAccounted ==
    At("thread-per-conn", pc) =>
        /\ permits >= 0
        /\ permits + Cardinality(TpcThreads("serve") \union TpcThreads("release"))
              = IF pc = "spawn" THEN MaxConnections - 1 ELSE MaxConnections
        /\ pc = "wait" => permits = 0
=============================================================================
