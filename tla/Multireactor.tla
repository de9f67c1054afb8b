---------------------------- MODULE Multireactor ----------------------------
(***************************************************************************)
(* models/multireactor.rs and models/event_loop.rs with the shutdown       *)
(* handler of sys/signal.rs: the life of the reactors, from the handler's  *)
(* installation to the end of the process.  What a reactor does with its   *)
(* connections is module Reactor; here it binds, runs until it sees the    *)
(* shared flag, and returns.  event-loop is one reactor, on the main       *)
(* thread and without a join.                                              *)
(***************************************************************************)
EXTENDS Listening

VARIABLES
    SHUTDOWN,
    reactor,    \* the outcome or the place of each reactor's thread
    spawned,    \* the threads 1 .. spawned have been started
    joined,     \* of them, 1 .. joined have been joined
    first_err,  \* the reactor whose error serve returns; 0 when none
    heeded      \* a signal has come after the flag was reset

NoReactor == 0

multiOnly == <<SHUTDOWN, reactor, spawned, joined, first_err, heeded>>
multiVars == <<listenVars, multiOnly>>

MultiInit ==
    /\ SHUTDOWN = FALSE
    /\ reactor = [w \in Workers |-> "absent"]
    /\ spawned = 0 /\ joined = 0
    /\ first_err = NoReactor
    /\ heeded = FALSE

Reactors == {"multireactor", "event-loop"}

Main(l) == model \in Reactors /\ status = "up" /\ pc = l

-----------------------------------------------------------------------------
(* serve *)

InstallShutdownFlag ==
    /\ Main("install")
    /\ Goto("reset")
    /\ UNCHANGED <<model, status, fresh, backlog, hand, calls, faults, multiOnly>>

\* SHUTDOWN.store(false): a flag raised by an earlier run is lowered, and so
\* is one raised by a signal since the handler was installed.
ResetFlag ==
    /\ Main("reset")
    /\ SHUTDOWN' = FALSE
    /\ Goto("spawn")
    /\ UNCHANGED <<model, status, fresh, backlog, hand, calls, faults, reactor, spawned, joined, first_err, heeded>>

\* event-loop goes on to be the reactor itself.
EventLoopStarts ==
    /\ Main("spawn") /\ model = "event-loop"
    /\ reactor' = [reactor EXCEPT ![1] = "bind"]
    /\ spawned' = 1
    /\ Goto("join")
    /\ UNCHANGED <<model, status, fresh, backlog, hand, calls, faults, SHUTDOWN, joined, first_err, heeded>>

MultiSpawn ==
    /\ Main("spawn") /\ model = "multireactor" /\ spawned < NumWorkers
    /\ reactor' = [reactor EXCEPT ![spawned + 1] = "bind"]
    /\ spawned' = spawned + 1
    /\ UNCHANGED <<listenVars, SHUTDOWN, joined, first_err, heeded>>

\* Returning ends main, and with it the process and the threads still running.
MultiEnds(s) ==
    /\ ProcessEnds(s)
    /\ reactor' = [w \in Workers |-> IF reactor[w] \in {"bind", "run"} THEN "cut" ELSE reactor[w]]
    /\ UNCHANGED <<SHUTDOWN, spawned, joined, first_err, heeded>>

\* A thread cannot be started: `?` returns past the join.
SpawnFails == Main("spawn") /\ model = "multireactor" /\ spawned < NumWorkers /\ Fault /\ MultiEnds("err")

Spawned ==
    /\ Main("spawn") /\ spawned = NumWorkers
    /\ Goto("join")
    /\ UNCHANGED <<model, status, fresh, backlog, hand, calls, faults, multiOnly>>

\* Mutant: only the last result is kept.
JoinKeepsLast ==
    /\ Main("join") /\ joined < spawned
    /\ reactor[joined + 1] \in {"ok", "err", "panicked"}
    /\ joined' = joined + 1
    /\ first_err' = IF reactor[joined + 1] = "err" THEN joined + 1 ELSE NoReactor
    /\ UNCHANGED <<listenVars, SHUTDOWN, reactor, spawned, heeded>>

\* Only an error that a reactor returned is kept: a panic is logged, no more.
Join ==
    /\ Main("join") /\ joined < spawned
    /\ reactor[joined + 1] \in {"ok", "err", "panicked"}
    /\ joined' = joined + 1
    /\ first_err' = IF first_err = NoReactor /\ reactor[joined + 1] = "err"
                    THEN joined + 1 ELSE first_err
    /\ UNCHANGED <<listenVars, SHUTDOWN, reactor, spawned, heeded>>

MultiReturn ==
    /\ Main("join") /\ joined = spawned
    /\ MultiEnds(IF first_err = NoReactor THEN "ok" ELSE "err")
    /\ UNCHANGED faults

MultiMain ==
    \/ InstallShutdownFlag \/ ResetFlag \/ EventLoopStarts \/ MultiSpawn \/ Spawned
    \/ Join \/ MultiReturn

-----------------------------------------------------------------------------
(* Reactor w, and the signal *)

ReactorGoto(w, from, to) ==
    /\ status = "up" /\ reactor[w] = from
    /\ reactor' = [reactor EXCEPT ![w] = to]
    /\ UNCHANGED <<model, status, pc, fresh, backlog, hand, calls, SHUTDOWN, spawned, joined, first_err, heeded>>

ReactorBinds(w) == ReactorGoto(w, "bind", "run") /\ UNCHANGED faults

\* bind_listener or Reactor::new fails: the thread returns the error.
ReactorFails(w) == ReactorGoto(w, "bind", "err") /\ Fault

\* The reactor panics.  In multireactor that ends its thread, in event-loop,
\* where it is the main thread, the process.
ReactorPanics(w) ==
    /\ Fault
    /\ \/ /\ model = "multireactor"
          /\ ReactorGoto(w, "bind", "panicked") \/ ReactorGoto(w, "run", "panicked")
       \/ /\ model = "event-loop" /\ status = "up" /\ reactor[w] \in {"bind", "run"}
          /\ MultiEnds("panicked")

\* Reactor::run sees the flag between two batches.
ReactorStops(w) == SHUTDOWN /\ ReactorGoto(w, "run", "ok") /\ UNCHANGED faults

MultiReactor(w) == ReactorBinds(w) \/ ReactorStops(w)

\* shutdown_handler; before it is installed the signal ends the process.
MultiSignal ==
    \/ /\ Main("install")
       /\ MultiEnds("killed")
       /\ UNCHANGED faults
    \/ /\ model \in Reactors /\ status = "up" /\ pc # "install"
       /\ SHUTDOWN' = TRUE
       /\ heeded' = (heeded \/ pc # "reset")
       /\ UNCHANGED <<listenVars, reactor, spawned, joined, first_err>>

MultiNext ==
    \/ MultiMain \/ SpawnFails \/ MultiSignal
    \/ \E w \in Workers : MultiReactor(w) \/ ReactorFails(w) \/ ReactorPanics(w)

MultiFairness ==
    /\ WF_multiVars(MultiMain \/ SpawnFails)
    /\ \A w \in Workers : WF_multiVars(MultiReactor(w) \/ ReactorFails(w))

MultiSpec ==
    /\ model = "multireactor" /\ pc = "install" /\ ListenInit /\ MultiInit
    /\ [][MultiNext]_multiVars

-----------------------------------------------------------------------------
(* Properties *)

MultiTypeOK ==
    /\ SHUTDOWN \in BOOLEAN /\ heeded \in BOOLEAN
    /\ reactor \in [Workers -> {"absent", "bind", "run", "ok", "err", "panicked", "cut"}]
    /\ spawned \in 0 .. NumWorkers
    /\ joined \in 0 .. spawned
    /\ first_err \in Workers \union {NoReactor}

\* serve returns Ok only after every reactor was started and joined and none
\* of them returned an error, and it returns the error of the first that did,
\* in the order of their numbers, whatever became of the others; one that
\* panicked counts for neither.  Threads are cut short only by a failed spawn.
FirstErrorReturned ==
    model \in Reactors /\ status \in {"ok", "err"} =>
        \/ /\ status = "ok"
           /\ spawned = IF model = "event-loop" THEN 1 ELSE NumWorkers
           /\ \A w \in 1 .. spawned : reactor[w] \in {"ok", "panicked"}
        \/ /\ status = "err" /\ first_err # NoReactor
           /\ reactor[first_err] = "err"
           /\ \A w \in 1 .. spawned : /\ reactor[w] \in {"ok", "err", "panicked"}
                                      /\ w < first_err => reactor[w] # "err"
        \/ model = "multireactor" /\ status = "err" /\ spawned < NumWorkers
=============================================================================
