----------------------------- MODULE ThreadPool -----------------------------
(***************************************************************************)
(* models/thread_pool.rs: the accept loop offers each stream to a bounded  *)
(* channel and drops it when the channel is full; the workers share the    *)
(* receiving end behind a mutex.  serve keeps its own Arc of the receiver, *)
(* so try_send never finds the channel disconnected, and as the sender     *)
(* lives as long as the loop, neither does a worker.                       *)
(***************************************************************************)
EXTENDS Listening

NoWorker == 0

VARIABLES
    chan,    \* the channel's streams
    rx,      \* the worker that holds the receiver's lock
    worker,  \* where each worker is
    job      \* the stream it serves

poolVars == <<listenVars, chan, rx, worker, job>>

PoolInit ==
    /\ chan = << >>
    /\ rx = NoWorker
    /\ worker = [w \in Workers |-> "absent"]
    /\ job = [w \in Workers |-> NoConn]

queue_capacity == MaxConnections

-----------------------------------------------------------------------------
(* serve *)

PoolSpawn ==
    /\ At("thread-pool", "spawn")
    /\ worker' = [w \in Workers |-> "lock"]
    /\ Goto("accept")
    /\ UNCHANGED <<model, status, fresh, backlog, hand, calls, faults, chan, rx, job>>

\* thread::spawn panics: the main thread unwinds and the process exits, with it
\* the workers started so far, which have had nothing to receive.
PoolSpawnPanics ==
    /\ At("thread-pool", "spawn") /\ Fault
    /\ ProcessEnds("panicked")
    /\ UNCHANGED <<chan, rx, worker, job>>

PoolAccept == AcceptThen("thread-pool", "send") /\ UNCHANGED <<chan, rx, worker, job>>

TrySendOk ==
    /\ At("thread-pool", "send") /\ Len(chan) < queue_capacity
    /\ chan' = Append(chan, hand)
    /\ hand' = NoConn
    /\ Goto("accept")
    /\ UNCHANGED <<model, status, fresh, backlog, calls, faults, rx, worker, job>>

\* The channel is full: the stream is dropped.
TrySendFull ==
    /\ At("thread-pool", "send") /\ Len(chan) >= queue_capacity
    /\ hand' = NoConn
    /\ Goto("accept")
    /\ UNCHANGED <<model, status, fresh, backlog, calls, faults, chan, rx, worker, job>>

PoolAcceptor == PoolSpawn \/ PoolAccept \/ TrySendOk \/ TrySendFull

-----------------------------------------------------------------------------
(* worker_loop *)

RxLock(w) ==
    /\ worker[w] = "lock" /\ rx = NoWorker
    /\ rx' = w
    /\ worker' = [worker EXCEPT ![w] = "recv"]
    /\ UNCHANGED <<listenVars, chan, job>>

\* Mutant: the lock is kept while the connection is served.
RecvKeepsLock(w) ==
    /\ worker[w] = "recv" /\ chan # << >>
    /\ job' = [job EXCEPT ![w] = Head(chan)]
    /\ chan' = Tail(chan)
    /\ CallServe(Head(chan))
    /\ worker' = [worker EXCEPT ![w] = "serve"]
    /\ UNCHANGED <<model, status, pc, fresh, backlog, hand, faults, rx>>

\* recv returns a stream, the lock is released, serve_connection is called.
Recv(w) ==
    /\ worker[w] = "recv" /\ chan # << >>
    /\ job' = [job EXCEPT ![w] = Head(chan)]
    /\ chan' = Tail(chan)
    /\ CallServe(Head(chan))
    /\ rx' = NoWorker
    /\ worker' = [worker EXCEPT ![w] = "serve"]
    /\ UNCHANGED <<model, status, pc, fresh, backlog, hand, faults>>

\* serve_connection returns, the stream dropped.
PoolReturn(w) ==
    /\ worker[w] = "serve"
    /\ job' = [job EXCEPT ![w] = NoConn]
    /\ worker' = [worker EXCEPT ![w] = "lock"]
    /\ UNCHANGED <<listenVars, chan, rx>>

worker_loop(w) == RxLock(w) \/ Recv(w) \/ PoolReturn(w)

PoolNext ==
    \/ Connect("thread-pool") /\ UNCHANGED <<chan, rx, worker, job>>
    \/ PoolAcceptor
    \/ PoolSpawnPanics
    \/ \E w \in Workers : worker_loop(w)

\* Every worker in recv gets its turn; a mutex need not be fair, so no worker
\* is sure to get the lock, but one of those that ask for it is.
PoolFairness ==
    /\ WF_poolVars(PoolAcceptor)
    /\ WF_poolVars(\E w \in Workers : RxLock(w))
    /\ \A w \in Workers : WF_poolVars(Recv(w)) /\ WF_poolVars(PoolReturn(w))

PoolSpec ==
    /\ model = "thread-pool" /\ pc = "spawn" /\ ListenInit /\ PoolInit
    /\ [][PoolNext]_poolVars

-----------------------------------------------------------------------------
(* Properties *)

PoolTypeOK ==
    /\ chan \in Seq(Conns) /\ Len(chan) <= queue_capacity
    /\ rx \in Workers \union {NoWorker}
    /\ worker \in [Workers -> {"absent", "lock", "recv", "serve"}]
    /\ job \in [Workers -> Conns \union {NoConn}]

\* A stream has one owner: the accept loop, one place in the channel or one
\* worker, and the receiver's lock is held exactly by the worker in recv.
\* So no worker serves with the lock, and no connection is served twice.
OneOwner ==
    /\ \A i, j \in 1 .. Len(chan) : i # j => chan[i] # chan[j]
    /\ \A v, w \in Workers : v # w /\ job[v] # NoConn => job[v] # job[w]
    /\ \A i \in 1 .. Len(chan) : chan[i] # hand /\ \A w \in Workers : chan[i] # job[w]
    /\ \A w \in Workers : (worker[w] = "recv") <=> (rx = w)
    /\ \A w \in Workers : (worker[w] = "serve") <=> (job[w] # NoConn)
    /\ hand # NoConn => \A w \in Workers : job[w] # hand
=============================================================================
