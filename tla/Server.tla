------------------------------- MODULE Server -------------------------------
(***************************************************************************)
(* server/src/main.rs: the model is picked by name and serves until its    *)
(* process ends.  The models are the modules extended here, each with      *)
(* variables of its own, of which only the picked one's ever change; that  *)
(* they implement Dispatch is stated once for all of them.                 *)
(***************************************************************************)
EXTENDS Iterative, ThreadPerConn, ThreadPool, Forking, Preforked, Multireactor

Models == {"iterative", "thread-per-conn", "thread-pool", "forking", "preforked"} \union Reactors

\* Where each model's serve starts, once its socket is bound.
Entry(m) ==
    CASE m = "thread-pool" -> "spawn"
      [] m = "preforked"   -> "fork"
      [] m \in Reactors    -> "install"
      [] OTHER             -> "accept"

tpcOnly  == <<permits, thread>>
poolOnly == <<chan, rx, worker, job>>
forkOnly == <<LIVE_CHILDREN, reaperVars>>
preOnly  == <<procVars, workerVars>>

vars == <<listenVars, tpcOnly, poolOnly, forkOnly, preOnly, multiOnly>>

Init ==
    /\ model \in Models
    /\ pc = Entry(model)
    /\ ListenInit /\ TpcInit /\ PoolInit /\ ForkInit /\ PreInit /\ MultiInit

Next ==
    \/ IterNext  /\ UNCHANGED <<tpcOnly, poolOnly, forkOnly, preOnly, multiOnly>>
    \/ TpcNext   /\ UNCHANGED <<poolOnly, forkOnly, preOnly, multiOnly>>
    \/ PoolNext  /\ UNCHANGED <<tpcOnly, forkOnly, preOnly, multiOnly>>
    \/ ForkNext  /\ UNCHANGED <<tpcOnly, poolOnly, preOnly, multiOnly>>
    \/ PreNext   /\ UNCHANGED <<tpcOnly, poolOnly, forkOnly, multiOnly>>
    \/ MultiNext /\ UNCHANGED <<tpcOnly, poolOnly, forkOnly, preOnly>>

\* Every thread and process that can go on does, and serve_connection returns
\* (Blocking's WorkerReleased); clients, signals and faults come as they like.
Fairness ==
    /\ IterFairness /\ TpcFairness /\ PoolFairness
    /\ ForkFairness /\ PreFairness /\ MultiFairness

Spec == Init /\ [][Next]_vars /\ Fairness

-----------------------------------------------------------------------------
(* The refinement of Dispatch *)

Held(c) ==
    \/ hand = c /\ child[c] = "none" /\ ~At("iterative", "serve")
    \/ \E i \in 1 .. Len(chan) : chan[i] = c

Served(c) ==
    \/ hand = c /\ (child[c] # "none" \/ At("iterative", "serve"))
    \/ thread[c] = "serve"
    \/ \E w \in Workers : job[w] = c \/ serving[w] = c
    \/ child[c] \in {"new", "serve"}

Waiting(c) == c \in backlog \/ \E w \in Workers : c \in pbacklog[w]

phase == [c \in Conns |->
             CASE c \in fresh -> "none"
               [] Waiting(c)  -> "waiting"
               [] Held(c)     -> "held"
               [] Served(c)   -> "serving"
               [] OTHER       -> IF calls[c] = 0 THEN "refused" ELSE "closed"]

ServeCap == [m \in Models |->
                CASE m \in {"thread-per-conn", "forking"} -> MaxConnections
                  [] m \in {"thread-pool", "preforked"}   -> NumWorkers
                  [] OTHER                                -> 1]

HeldCap == [m \in Models |->
                CASE m = "thread-pool" -> queue_capacity + 1
                  [] OTHER             -> 1]

Promise == INSTANCE Dispatch WITH phase <- phase, ServeCap <- ServeCap, HeldCap <- HeldCap

-----------------------------------------------------------------------------
(* Properties *)

TypeOK ==
    /\ ListenTypeOK /\ TpcTypeOK /\ PoolTypeOK /\ ForkTypeOK /\ PreTypeOK /\ MultiTypeOK

\* The blocking models implement Dispatch: each connection is accepted once,
\* then served once or refused, then closed, within the model's caps; a
\* connection is open as long as any process holds its descriptor.
ImplementsDispatch == Promise!Spec

\* Every connection that reaches the server is in the end served to its close
\* or refused, whatever the threads, processes and signals do.
EveryConnectionSettled ==
    \A c \in Conns : (phase[c] # "none") ~> (phase[c] \in {"closed", "refused"})

\* A signal ends the server, its workers and its reactors, whenever it comes:
\* while workers are forked or reactors started, when all are idle, while they
\* serve, or a second time while they are waited for.  Only one that comes to
\* the reactor models before the flag is reset is lost, and only a worker that
\* the death of the parent found before prctl stays.
SignalEndsServer ==
    ((model = "preforked" /\ flag) \/ heeded)
        ~> /\ status # "up"
           /\ \A w \in Workers \ orphans : ~Running(w)
           /\ \A w \in Workers : reactor[w] \notin {"bind", "run"}
=============================================================================
