----------------------------- MODULE Listening ------------------------------
(***************************************************************************)
(* What the accept loops of server/src/models share: a bound listener with *)
(* the kernel's backlog behind it, and the thread that accepts, which      *)
(* keeps the accepted stream in a local variable until it hands it on.     *)
(* serve_connection is module Blocking; here it runs for some time and     *)
(* returns, and its result, which is only logged and counted, is left out. *)
(* An accept that fails changes nothing: the loop goes round again.        *)
(***************************************************************************)
EXTENDS Integers, Sequences, FiniteSets

CONSTANTS
    Conns,           \* the connections of a run
    NoConn,
    MaxConnections,  \* cfg.max_connections
    NumWorkers,      \* cfg.workers
    MaxFaults        \* bound on failing system calls and kills

ASSUME ListeningAssumption ==
    /\ IsFiniteSet(Conns) /\ NoConn \notin Conns
    /\ MaxConnections \in Nat \ {0}
    /\ NumWorkers \in Nat \ {0}
    /\ MaxFaults \in Nat

Workers == 1 .. NumWorkers

VARIABLES
    model,    \* --model
    status,   \* of the serving process: "up", or how it ended
    pc,       \* where its accepting thread is
    fresh,    \* connections not yet made
    backlog,  \* connections the kernel holds for accept
    hand,     \* the accepting thread's stream
    calls,    \* how often serve_connection was called for each connection
    faults

listenVars == <<model, status, pc, fresh, backlog, hand, calls, faults>>

ListenInit ==
    /\ status = "up"
    /\ fresh = Conns
    /\ backlog = {}
    /\ hand = NoConn
    /\ calls = [c \in Conns |-> 0]
    /\ faults = 0

At(m, l) == model = m /\ status = "up" /\ pc = l

\* Every system call that fails counts against the bound.
Fault == faults < MaxFaults /\ faults' = faults + 1

Goto(l) == pc' = l

\* A client connects to the one listener.
Connect(m) ==
    /\ model = m /\ status = "up"
    /\ \E c \in fresh : fresh' = fresh \ {c} /\ backlog' = backlog \union {c}
    /\ UNCHANGED <<model, status, pc, hand, calls, faults>>

\* listener.accept() returns a stream.
AcceptThen(m, l) ==
    /\ At(m, "accept") /\ Goto(l)
    /\ \E c \in backlog : hand' = c /\ backlog' = backlog \ {c}
    /\ UNCHANGED <<model, status, fresh, calls, faults>>

\* serve_connection(c) is called.
CallServe(c) == calls' = [calls EXCEPT ![c] = @ + 1]

\* The whole process ends: the kernel resets the connections it holds.
ProcessEnds(s) ==
    /\ status' = s
    /\ backlog' = {}
    /\ hand' = NoConn
    /\ UNCHANGED <<model, pc, fresh, calls>>

ListenTypeOK ==
    /\ status \in {"up", "ok", "err", "panicked", "killed"}
    /\ fresh \subseteq Conns
    /\ backlog \subseteq Conns
    /\ hand \in Conns \union {NoConn}
    /\ calls \in [Conns -> Nat]
    /\ faults \in 0 .. MaxFaults
=============================================================================
