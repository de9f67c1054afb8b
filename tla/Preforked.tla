----------------------------- MODULE Preforked ------------------------------
(***************************************************************************)
(* models/preforked.rs with the shutdown handler of sys/signal.rs: the     *)
(* parent forks a fixed set of workers, idles until SIGINT or SIGTERM      *)
(* raises its flag, forwards the signal and reaps the workers in turn.     *)
(* Each worker has its own SO_REUSEPORT listener, hence its own backlog,   *)
(* and its own copy of the flag, inherited by fork as it stands.           *)
(***************************************************************************)
EXTENDS Listening

VARIABLES
    flag,      \* SHUTDOWN of the parent
    wflag,     \* SHUTDOWN of each worker
    pworker,   \* where each worker is: "new" before prctl
    pbacklog,  \* the connections its listener holds
    serving,   \* the stream it serves
    forked,    \* the parent's children are the workers 1 .. forked
    waited,    \* waitpid has returned for the children 1 .. waited
    skipped,   \* the ones for which it failed with EINTR
    fork_err,  \* fork has failed
    orphans    \* the workers the parent's death found before prctl

procVars   == <<flag, forked, waited, skipped, fork_err, orphans>>
workerVars == <<wflag, pworker, pbacklog, serving>>
preVars    == <<listenVars, procVars, workerVars>>

PreInit ==
    /\ flag = FALSE
    /\ wflag = [w \in Workers |-> FALSE]
    /\ pworker = [w \in Workers |-> "absent"]
    /\ pbacklog = [w \in Workers |-> {}]
    /\ serving = [w \in Workers |-> NoConn]
    /\ forked = 0 /\ waited = 0
    /\ skipped = {}
    /\ fork_err = FALSE
    /\ orphans = {}

Children == 1 .. forked

Running(w) == pworker[w] \notin {"absent", "zombie", "gone"}

-----------------------------------------------------------------------------
(* The parent, once install_shutdown_flag has returned *)

PreFork ==
    /\ At("preforked", "fork") /\ forked < NumWorkers
    /\ forked' = forked + 1
    /\ pworker' = [pworker EXCEPT ![forked + 1] = "new"]
    /\ wflag' = [wflag EXCEPT ![forked + 1] = flag]
    /\ UNCHANGED <<listenVars, flag, waited, skipped, fork_err, orphans, pbacklog, serving>>

\* The workers already forked are told to stop, and waited for.
PreForkFails ==
    /\ At("preforked", "fork") /\ forked < NumWorkers /\ Fault
    /\ fork_err' = TRUE
    /\ Goto("forward")
    /\ UNCHANGED <<model, status, fresh, backlog, hand, calls, flag, forked, waited, skipped, orphans, workerVars>>

PreForked ==
    /\ At("preforked", "fork") /\ forked = NumWorkers
    /\ Goto("idle")
    /\ UNCHANGED <<model, status, fresh, backlog, hand, calls, faults, procVars, workerVars>>

\* The poll of the flag finds it raised.
PreStop ==
    /\ At("preforked", "idle") /\ flag
    /\ Goto("forward")
    /\ UNCHANGED <<model, status, fresh, backlog, hand, calls, faults, procVars, workerVars>>

\* The signal's handler has run in each worker that S names and that still runs.
Raise(S) == wflag' = [w \in Workers |-> wflag[w] \/ (w \in S /\ Running(w))]

forward_signal ==
    /\ At("preforked", "forward")
    /\ Raise(Children)
    /\ Goto("reap")
    /\ UNCHANGED <<model, status, fresh, backlog, hand, calls, faults, procVars, pworker, pbacklog, serving>>

\* waitpid returns the next child in turn.
reap ==
    /\ At("preforked", "reap") /\ waited < forked
    /\ pworker[waited + 1] = "zombie"
    /\ pworker' = [pworker EXCEPT ![waited + 1] = "gone"]
    /\ waited' = waited + 1
    /\ UNCHANGED <<listenVars, flag, forked, skipped, fork_err, orphans, wflag, pbacklog, serving>>

\* A signal cuts the wait for a child that still runs short: waitpid fails with
\* EINTR, as the handler was installed without SA_RESTART, and reap, which does
\* not look at the result, goes on to the next child.
reap_interrupted ==
    /\ At("preforked", "reap") /\ waited < forked
    /\ Running(waited + 1)
    /\ waited' = waited + 1
    /\ skipped' = skipped \union {waited + 1}

\* init takes over the zombies of a parent that has ended.
Inherited == [w \in Workers |-> IF pworker[w] = "zombie" THEN "gone" ELSE pworker[w]]

\* Mutant: the last child is not waited for.
PreReturnEarly ==
    /\ At("preforked", "reap") /\ waited + 1 >= forked
    /\ ProcessEnds(IF fork_err THEN "err" ELSE "ok")
    /\ pworker' = Inherited
    /\ UNCHANGED <<faults, procVars, wflag, pbacklog, serving>>

\* serve returns and the process ends.  A worker that was skipped runs on until
\* it sees its flag; the SIGTERM of prctl would only raise that flag again.
PreReturn ==
    /\ At("preforked", "reap") /\ waited = forked
    /\ ProcessEnds(IF fork_err THEN "err" ELSE "ok")
    /\ pworker' = Inherited
    /\ UNCHANGED <<faults, procVars, wflag, pbacklog, serving>>

PreParent == PreFork \/ PreForked \/ PreStop \/ forward_signal \/ reap \/ PreReturn

-----------------------------------------------------------------------------
(* Worker w: child_main *)

Worker(w, l) == pworker[w] = l

WorkerGoto(w, l) == pworker' = [pworker EXCEPT ![w] = l]

\* prctl(PR_SET_PDEATHSIG, SIGTERM).  After the parent's death it does nothing.
Prctl(w) ==
    /\ Worker(w, "new") /\ WorkerGoto(w, "bind")
    /\ UNCHANGED <<listenVars, procVars, wflag, pbacklog, serving>>

\* The process exits: its listener's connections are reset, and it stays a
\* zombie for its parent, if there is one.
WorkerExits(w) ==
    /\ WorkerGoto(w, IF status = "up" THEN "zombie" ELSE "gone")
    /\ pbacklog' = [pbacklog EXCEPT ![w] = {}]
    /\ UNCHANGED <<model, status, pc, fresh, backlog, hand, calls, procVars, wflag, serving>>

Bind(w) ==
    /\ Worker(w, "bind") /\ WorkerGoto(w, "check")
    /\ UNCHANGED <<listenVars, procVars, wflag, pbacklog, serving>>

\* bind_listener or set_accept_timeout fails.
BindFails(w) == Worker(w, "bind") /\ Fault /\ WorkerExits(w)

Check(w) ==
    /\ Worker(w, "check") /\ ~wflag[w] /\ WorkerGoto(w, "accept")
    /\ UNCHANGED <<listenVars, procVars, wflag, pbacklog, serving>>

CheckStop(w) == Worker(w, "check") /\ wflag[w] /\ WorkerExits(w) /\ UNCHANGED faults

\* accept returns a stream, and serve_connection is called.
WorkerAccept(w) ==
    /\ Worker(w, "accept") /\ WorkerGoto(w, "serve")
    /\ \E c \in pbacklog[w] :
         /\ pbacklog' = [pbacklog EXCEPT ![w] = @ \ {c}]
         /\ serving' = [serving EXCEPT ![w] = c]
         /\ CallServe(c)
    /\ UNCHANGED <<model, status, pc, fresh, backlog, hand, faults, procVars, wflag>>

\* Mutant: the accept has no timeout (std retries a signal's EINTR).
AcceptTimeoutNever(w) == FALSE /\ UNCHANGED preVars

\* accept times out, or fails: the flag is checked again.
AcceptTimeout(w) ==
    /\ Worker(w, "accept") /\ pbacklog[w] = {} /\ WorkerGoto(w, "check")
    /\ UNCHANGED <<listenVars, procVars, wflag, pbacklog, serving>>

\* serve_connection returns, the stream dropped.
WorkerReturn(w) ==
    /\ Worker(w, "serve") /\ WorkerGoto(w, "check")
    /\ serving' = [serving EXCEPT ![w] = NoConn]
    /\ UNCHANGED <<listenVars, procVars, wflag, pbacklog>>

child_main(w) ==
    \/ Prctl(w) \/ Bind(w) \/ Check(w) \/ CheckStop(w)
    \/ WorkerAccept(w) \/ AcceptTimeout(w) \/ WorkerReturn(w)

-----------------------------------------------------------------------------
(* Clients, signals and the death of the parent *)

\* The kernel spreads connections over the listeners of the port.
PreConnect ==
    /\ model = "preforked"
    /\ \E w \in Workers, c \in fresh :
         /\ pworker[w] \in {"check", "accept", "serve"}
         /\ fresh' = fresh \ {c}
         /\ pbacklog' = [pbacklog EXCEPT ![w] = @ \union {c}]
    /\ UNCHANGED <<model, status, pc, backlog, hand, calls, faults, procVars, wflag, pworker, serving>>

\* SIGTERM to the parent, or a terminal's SIGINT to the whole group.  In reap it
\* finds the parent inside waitpid or between two calls of it.
PreSignal ==
    /\ model = "preforked" /\ status = "up"
    /\ flag' = TRUE
    /\ \E S \in {{}, Workers} : Raise(S)
    /\ reap_interrupted \/ UNCHANGED <<waited, skipped>>
    /\ UNCHANGED <<listenVars, forked, fork_err, orphans, pworker, pbacklog, serving>>

\* Mutant: the workers do not ask for a signal.
PreParentKilledUnnoticed ==
    /\ model = "preforked" /\ status = "up" /\ Fault
    /\ ProcessEnds("killed")
    /\ pworker' = Inherited
    /\ orphans' = {w \in Workers : pworker[w] = "new"}
    /\ UNCHANGED <<flag, forked, waited, skipped, fork_err, wflag, pbacklog, serving>>

\* The parent is killed: the workers that asked for it are sent SIGTERM.
PreParentKilled ==
    /\ model = "preforked" /\ status = "up" /\ Fault
    /\ ProcessEnds("killed")
    /\ Raise({w \in Workers : pworker[w] # "new"})
    /\ pworker' = Inherited
    /\ orphans' = {w \in Workers : pworker[w] = "new"}
    /\ UNCHANGED <<flag, forked, waited, skipped, fork_err, pbacklog, serving>>

PreNext ==
    \/ PreParent \/ PreForkFails \/ PreConnect \/ PreSignal \/ PreParentKilled
    \/ \E w \in Workers : child_main(w) \/ BindFails(w)

PreFairness ==
    /\ WF_preVars(PreParent \/ PreForkFails)
    /\ \A w \in Workers : WF_preVars(child_main(w) \/ BindFails(w))

PreSpec ==
    /\ model = "preforked" /\ pc = "fork" /\ ListenInit /\ PreInit
    /\ [][PreNext]_preVars

-----------------------------------------------------------------------------
(* Properties *)

PreTypeOK ==
    /\ flag \in BOOLEAN /\ fork_err \in BOOLEAN
    /\ wflag \in [Workers -> BOOLEAN]
    /\ pworker \in [Workers -> {"absent", "new", "bind", "check", "accept", "serve", "zombie", "gone"}]
    /\ pbacklog \in [Workers -> SUBSET Conns]
    /\ serving \in [Workers -> Conns \union {NoConn}]
    /\ forked \in 0 .. NumWorkers /\ waited \in 0 .. forked
    /\ orphans \subseteq Workers /\ skipped \subseteq Workers

\* When serve returns, with Ok or with the error of a fork, every worker has
\* exited and been reaped, except one whose wait a further signal cut short;
\* that one has been told to stop.
WorkersReaped ==
    model = "preforked" /\ status \in {"ok", "err"} =>
        \A w \in Workers :
            pworker[w] \in {"absent", "gone"} \/ (w \in skipped /\ wflag[w])

\* The workers follow the death of their parent, except those it found
\* between fork and prctl.
WorkersFollowParent ==
    model = "preforked" /\ status = "killed" ~>
        \A w \in Workers \ orphans : ~Running(w)
=============================================================================
