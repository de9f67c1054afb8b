------------------------------ MODULE Forking -------------------------------
(***************************************************************************)
(* models/forking.rs with the SIGCHLD reaper of sys/signal.rs: the accept  *)
(* loop checks and reserves a slot of LIVE_CHILDREN, forks, and drops its  *)
(* copy of the stream; the handler runs on the same thread, between any    *)
(* two of its steps, and reaps every child that has exited.  A connection  *)
(* is open while the parent or the child holds a copy of its descriptor.   *)
(***************************************************************************)
EXTENDS Listening

VARIABLES
    LIVE_CHILDREN,
    child,     \* of each connection: "new" before prctl, "serve" after
    sigchld,   \* SIGCHLD is pending: several exits make one signal
    handling   \* sigchld_handler runs, and the accept loop does not

forkVars == <<listenVars, LIVE_CHILDREN, child, sigchld, handling>>

ForkInit ==
    /\ LIVE_CHILDREN = 0
    /\ child = [c \in Conns |-> "none"]
    /\ sigchld = FALSE
    /\ handling = FALSE

InChild(S) == {c \in Conns : child[c] \in S}
Live       == InChild({"new", "serve"})
Zombies    == InChild({"zombie"})

-----------------------------------------------------------------------------
(* The accept loop *)

Parent(l) == At("forking", l) /\ ~handling

reaperVars == <<child, sigchld, handling>>

ForkAccept == ~handling /\ AcceptThen("forking", "check") /\ UNCHANGED <<LIVE_CHILDREN, reaperVars>>

\* At the cap the connection is refused: the stream is dropped.
ForkRefuse ==
    /\ Parent("check") /\ LIVE_CHILDREN >= MaxConnections
    /\ hand' = NoConn
    /\ Goto("accept")
    /\ UNCHANGED <<model, status, fresh, backlog, calls, faults, LIVE_CHILDREN, reaperVars>>

\* Mutant: an off-by-one cap.
ForkCheckLoose ==
    /\ Parent("check") /\ LIVE_CHILDREN <= MaxConnections
    /\ Goto("reserve")
    /\ UNCHANGED <<model, status, fresh, backlog, hand, calls, faults, LIVE_CHILDREN, reaperVars>>

ForkCheck ==
    /\ Parent("check") /\ LIVE_CHILDREN < MaxConnections
    /\ Goto("reserve")
    /\ UNCHANGED <<model, status, fresh, backlog, hand, calls, faults, LIVE_CHILDREN, reaperVars>>

Reserve ==
    /\ Parent("reserve")
    /\ LIVE_CHILDREN' = LIVE_CHILDREN + 1
    /\ Goto("fork")
    /\ UNCHANGED <<model, status, fresh, backlog, hand, calls, faults, reaperVars>>

Fork ==
    /\ Parent("fork")
    /\ child' = [child EXCEPT ![hand] = "new"]
    /\ CallServe(hand)
    /\ Goto("drop")
    /\ UNCHANGED <<model, status, fresh, backlog, hand, faults, LIVE_CHILDREN, sigchld, handling>>

\* The reservation is released and the stream dropped.
ForkFails ==
    /\ Parent("fork") /\ Fault
    /\ LIVE_CHILDREN' = LIVE_CHILDREN - 1
    /\ Goto("drop")
    /\ UNCHANGED <<model, status, fresh, backlog, hand, calls, reaperVars>>

\* The parent closes its copy of the stream.
DropStream ==
    /\ Parent("drop")
    /\ hand' = NoConn
    /\ Goto("accept")
    /\ UNCHANGED <<model, status, fresh, backlog, calls, faults, LIVE_CHILDREN, reaperVars>>

-----------------------------------------------------------------------------
(* sigchld_handler *)

\* The signal is delivered.  It is blocked while its handler runs.
SigchldDelivered ==
    /\ model = "forking" /\ status = "up" /\ sigchld /\ ~handling
    /\ sigchld' = FALSE
    /\ handling' = TRUE
    /\ UNCHANGED <<listenVars, LIVE_CHILDREN, child>>

\* Mutant: one child is reaped per signal.
ReapOne ==
    /\ status = "up" /\ handling
    /\ \E c \in Zombies : child' = [child EXCEPT ![c] = "gone"]
    /\ LIVE_CHILDREN' = LIVE_CHILDREN - 1
    /\ handling' = FALSE
    /\ UNCHANGED <<listenVars, sigchld>>

\* waitpid(-1, WNOHANG) reaps a child.
Reap ==
    /\ status = "up" /\ handling
    /\ \E c \in Zombies : child' = [child EXCEPT ![c] = "gone"]
    /\ LIVE_CHILDREN' = LIVE_CHILDREN - 1
    /\ UNCHANGED <<listenVars, sigchld, handling>>

\* waitpid finds no child that has exited.
HandlerReturns ==
    /\ status = "up" /\ handling /\ Zombies = {}
    /\ handling' = FALSE
    /\ UNCHANGED <<listenVars, LIVE_CHILDREN, child, sigchld>>

ForkParent ==
    \/ ForkAccept \/ ForkRefuse \/ ForkCheck \/ Reserve \/ Fork \/ DropStream
    \/ SigchldDelivered \/ Reap \/ HandlerReturns

-----------------------------------------------------------------------------
(* The child of connection c, and the kernel *)

\* prctl(PR_SET_PDEATHSIG), and the child's copy of the listener closed, which
\* is the last one if the parent is gone.
ChildStarts(c) ==
    /\ child[c] = "new"
    /\ child' = [child EXCEPT ![c] = "serve"]
    /\ backlog' = IF status = "up" \/ InChild({"new"}) # {c} THEN backlog ELSE {}
    /\ UNCHANGED <<model, status, pc, fresh, hand, calls, faults, LIVE_CHILDREN, sigchld, handling>>

\* serve_connection returns and the child exits; its parent, if there is one,
\* is signalled.
ChildExits(c) ==
    /\ child[c] = "serve"
    /\ child' = [child EXCEPT ![c] = IF status = "up" THEN "zombie" ELSE "gone"]
    /\ sigchld' = (status = "up")
    /\ UNCHANGED <<listenVars, LIVE_CHILDREN, handling>>

ForkChild(c) == ChildStarts(c) \/ ChildExits(c)

\* The parent is killed, and so are the children that asked for it.
ForkParentKilled ==
    /\ model = "forking" /\ status = "up" /\ Fault
    /\ status' = "killed"
    /\ hand' = NoConn
    /\ backlog' = IF InChild({"new"}) = {} THEN {} ELSE backlog
    /\ child' = [c \in Conns |-> IF child[c] \in {"serve", "zombie"} THEN "gone" ELSE child[c]]
    /\ sigchld' = FALSE
    /\ handling' = FALSE
    /\ UNCHANGED <<model, pc, fresh, calls, LIVE_CHILDREN>>

ForkNext ==
    \/ Connect("forking") /\ UNCHANGED <<LIVE_CHILDREN, reaperVars>>
    \/ ForkParent
    \/ ForkFails
    \/ ForkParentKilled
    \/ \E c \in Conns : ForkChild(c)

ForkFairness ==
    /\ WF_forkVars(ForkParent \/ ForkFails)
    /\ \A c \in Conns : WF_forkVars(ForkChild(c))

ForkSpec ==
    /\ model = "forking" /\ pc = "accept" /\ ListenInit /\ ForkInit
    /\ [][ForkNext]_forkVars

-----------------------------------------------------------------------------
(* Properties *)

ForkTypeOK ==
    /\ LIVE_CHILDREN \in Int
    /\ child \in [Conns -> {"none", "new", "serve", "zombie", "gone"}]
    /\ sigchld \in BOOLEAN
    /\ handling \in BOOLEAN

\* LIVE_CHILDREN counts the children that run or wait to be reaped, and the
\* slot reserved for a fork: it never underflows, whenever SIGCHLD comes, and
\* never keeps the slot of a child that was never made.  A child that waits is
\* being reaped or a signal that will have it reaped is pending, however many
\* exits that signal stands for, so its slot comes back.
ChildrenCounted ==
    model = "forking" /\ status = "up" =>
        /\ LIVE_CHILDREN = Cardinality(Live \union Zombies) + (IF pc = "fork" THEN 1 ELSE 0)
        /\ Zombies # {} => sigchld \/ handling
=============================================================================
