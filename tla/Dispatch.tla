------------------------------ MODULE Dispatch ------------------------------
(***************************************************************************)
(* What every blocking server model promises about a connection, whatever  *)
(* threads or processes it uses: it is accepted once, then either served   *)
(* once or refused, and closed; no more are served at once than the model  *)
(* has servers, and no more are held unserved than it has room for.        *)
(***************************************************************************)
EXTENDS Naturals, FiniteSets

CONSTANTS
    Conns,
    ServeCap,  \* per model, the connections served at once
    HeldCap    \* per model, the connections accepted and not yet served

VARIABLES
    model,
    phase      \* of each connection

Phases == {"none", "waiting", "held", "serving", "closed", "refused"}

In(p) == {c \in Conns : phase[c] = p}

Init == phase = [c \in Conns |-> "none"]

Move(c, from, to) ==
    /\ phase[c] = from
    /\ phase' = [phase EXCEPT ![c] = to]
    /\ UNCHANGED model

Connect(c) == Move(c, "none", "waiting")
Accept(c)  == Cardinality(In("held")) < HeldCap[model] /\ Move(c, "waiting", "held")
Start(c)   == Cardinality(In("serving")) < ServeCap[model] /\ Move(c, "held", "serving")
\* The connection is accepted by the thread or process that serves it.
Take(c)    == Cardinality(In("serving")) < ServeCap[model] /\ Move(c, "waiting", "serving")
Refuse(c)  == Move(c, "held", "refused")
Finish(c)  == Move(c, "serving", "closed")

\* A process ends, and the connections of some of its sockets with it.
Reset(S) ==
    /\ \A c \in S : phase[c] \in {"waiting", "held", "serving"}
    /\ phase' = [c \in Conns |-> IF c \notin S THEN phase[c]
                                 ELSE IF phase[c] = "serving" THEN "closed" ELSE "refused"]
    /\ UNCHANGED model

Next ==
    \/ \E c \in Conns : Connect(c) \/ Accept(c) \/ Start(c) \/ Take(c) \/ Refuse(c) \/ Finish(c)
    \/ \E S \in SUBSET Conns : Reset(S)

Spec == Init /\ [][Next]_<<model, phase>>
=============================================================================
