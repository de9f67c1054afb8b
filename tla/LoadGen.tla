------------------------------- MODULE LoadGen -------------------------------
(***************************************************************************)
(* The open-loop load generator of loadgen/src/main.rs: the main thread    *)
(* connects, spawns one worker per connection, schedules requests into a   *)
(* shared queue at a fixed rate, closes the queue and joins the workers,   *)
(* which pop a request each, send it and count its outcome.                *)
(*                                                                         *)
(* Queue is a Mutex and a Condvar.  What happens under the lock is one     *)
(* step; a notification is sent after the lock is released, and so is a    *)
(* step of its own.  A waiting thread may also wake spuriously.            *)
(***************************************************************************)
EXTENDS Naturals, Sequences, FiniteSets

CONSTANTS
    Workers,   \* one worker per connection
    Total      \* requests that fall within the run's duration

ASSUME LoadGenAssumption ==
    /\ IsFiniteSet(Workers) /\ Workers # {}
    /\ Total \in Nat

Requests == 1 .. Total

VARIABLES
    mpc,              \* where the main thread is
    connected,        \* connections established
    emitted,          \* requests pushed
    joined,           \* workers joined
    pending,          \* the queue's backlog
    scheduling_done,
    wpc,              \* where each worker is
    broken,           \* its connection cannot be used
    item,             \* the request it sends; 0 when none
    ok, errors        \* the requests it counted (the code keeps their number)

mainVars   == <<mpc, connected, emitted, joined>>
queueVars  == <<pending, scheduling_done>>
workerVars == <<wpc, broken, item, ok, errors>>
vars       == <<mainVars, queueVars, workerVars>>

Init ==
    /\ mpc = "connect"
    /\ connected = 0 /\ emitted = 0 /\ joined = {}
    /\ pending = << >> /\ scheduling_done = FALSE
    /\ wpc = [w \in Workers |-> "absent"]
    /\ broken = [w \in Workers |-> FALSE]
    /\ item = [w \in Workers |-> 0]
    /\ ok = [w \in Workers |-> {}]
    /\ errors = [w \in Workers |-> {}]

Waiting == {w \in Workers : wpc[w] = "wait"}
Popping == {w \in Workers : wpc[w] = "pop"}

-----------------------------------------------------------------------------
(* The main thread: run *)

Connect ==
    /\ mpc = "connect" /\ connected < Cardinality(Workers)
    /\ connected' = connected + 1
    /\ UNCHANGED <<mpc, emitted, joined, queueVars, workerVars>>

\* One refused connection ends the run.
ConnectFails ==
    /\ mpc = "connect" /\ connected < Cardinality(Workers)
    /\ mpc' = "failed"
    /\ UNCHANGED <<connected, emitted, joined, queueVars, workerVars>>

Spawn ==
    /\ mpc = "connect" /\ connected = Cardinality(Workers)
    /\ wpc' = [w \in Workers |-> "setup"]
    /\ mpc' = "emit"
    /\ UNCHANGED <<connected, emitted, joined, queueVars, broken, item, ok, errors>>

\* push, under the lock.
Push ==
    /\ mpc = "emit" /\ emitted < Total
    /\ emitted' = emitted + 1
    /\ pending' = Append(pending, emitted + 1)
    /\ mpc' = "notify"
    /\ UNCHANGED <<connected, joined, scheduling_done, workerVars>>

\* Mutant: the notification is sent only when the queue was empty.
NotifyOneIfFirst ==
    /\ mpc = "notify"
    /\ \/ Waiting = {} /\ UNCHANGED wpc
       \/ Len(pending) > 1 /\ UNCHANGED wpc
       \/ Len(pending) <= 1 /\ \E w \in Waiting : wpc' = [wpc EXCEPT ![w] = "pop"]
    /\ mpc' = "emit"
    /\ UNCHANGED <<connected, emitted, joined, queueVars, broken, item, ok, errors>>

\* notify_one wakes one of the threads that wait, if any.
NotifyOne ==
    /\ mpc = "notify"
    /\ \/ Waiting = {} /\ UNCHANGED wpc
       \/ \E w \in Waiting : wpc' = [wpc EXCEPT ![w] = "pop"]
    /\ mpc' = "emit"
    /\ UNCHANGED <<connected, emitted, joined, queueVars, broken, item, ok, errors>>

\* close, under the lock.
Close ==
    /\ mpc = "emit" /\ emitted = Total
    /\ scheduling_done' = TRUE
    /\ mpc' = "wake"
    /\ UNCHANGED <<connected, emitted, joined, pending, workerVars>>

\* Mutant: close wakes one consumer.
NotifyAllOne ==
    /\ mpc = "wake"
    /\ \/ Waiting = {} /\ UNCHANGED wpc
       \/ \E w \in Waiting : wpc' = [wpc EXCEPT ![w] = "pop"]
    /\ mpc' = "join"
    /\ UNCHANGED <<connected, emitted, joined, queueVars, broken, item, ok, errors>>

NotifyAll ==
    /\ mpc = "wake"
    /\ wpc' = [w \in Workers |-> IF w \in Waiting THEN "pop" ELSE wpc[w]]
    /\ mpc' = "join"
    /\ UNCHANGED <<connected, emitted, joined, queueVars, broken, item, ok, errors>>

\* The workers are joined and their results merged, which no order affects.
Join(w) ==
    /\ mpc = "join" /\ w \notin joined
    /\ wpc[w] = "exited"
    /\ joined' = joined \cup {w}
    /\ UNCHANGED <<mpc, connected, emitted, queueVars, workerVars>>

Finish ==
    /\ mpc = "join" /\ joined = Workers
    /\ mpc' = "done"
    /\ UNCHANGED <<connected, emitted, joined, queueVars, workerVars>>

-----------------------------------------------------------------------------
(* A worker *)

\* try_clone gives the reader, or the worker only drains.
Setup(w) ==
    /\ wpc[w] = "setup"
    /\ \E failed \in BOOLEAN : broken' = [broken EXCEPT ![w] = failed]
    /\ wpc' = [wpc EXCEPT ![w] = "pop"]
    /\ UNCHANGED <<mainVars, queueVars, item, ok, errors>>

\* pop finds a request: it is sent, or counted as an error when broken.
PopTake(w) ==
    /\ wpc[w] = "pop" /\ pending # << >>
    /\ pending' = Tail(pending)
    /\ \/ /\ ~broken[w]
          /\ item' = [item EXCEPT ![w] = Head(pending)]
          /\ wpc' = [wpc EXCEPT ![w] = "send"]
          /\ UNCHANGED errors
       \/ /\ broken[w]
          /\ errors' = [errors EXCEPT ![w] = @ \cup {Head(pending)}]
          /\ UNCHANGED <<item, wpc>>
    /\ UNCHANGED <<mainVars, scheduling_done, broken, ok>>

\* Mutant: scheduling_done is looked at before the backlog.
PopNoneEarly(w) ==
    /\ wpc[w] = "pop"
    /\ scheduling_done
    /\ wpc' = [wpc EXCEPT ![w] = "exited"]
    /\ UNCHANGED <<mainVars, queueVars, broken, item, ok, errors>>

PopNone(w) ==
    /\ wpc[w] = "pop" /\ pending = << >>
    /\ scheduling_done
    /\ wpc' = [wpc EXCEPT ![w] = "exited"]
    /\ UNCHANGED <<mainVars, queueVars, broken, item, ok, errors>>

\* Releases the lock and waits in one step.
PopWait(w) ==
    /\ wpc[w] = "pop" /\ pending = << >>
    /\ ~scheduling_done
    /\ wpc' = [wpc EXCEPT ![w] = "wait"]
    /\ UNCHANGED <<mainVars, queueVars, broken, item, ok, errors>>

Spurious(w) ==
    /\ wpc[w] = "wait"
    /\ wpc' = [wpc EXCEPT ![w] = "pop"]
    /\ UNCHANGED <<mainVars, queueVars, broken, item, ok, errors>>

SendOk(w) ==
    /\ wpc[w] = "send"
    /\ ok' = [ok EXCEPT ![w] = @ \cup {item[w]}]
    /\ item' = [item EXCEPT ![w] = 0]
    /\ wpc' = [wpc EXCEPT ![w] = "pop"]
    /\ UNCHANGED <<mainVars, queueVars, broken, errors>>

\* An I/O error or SOCKET_TIMEOUT: from now on the worker only drains.
SendFails(w) ==
    /\ wpc[w] = "send"
    /\ errors' = [errors EXCEPT ![w] = @ \cup {item[w]}]
    /\ item' = [item EXCEPT ![w] = 0]
    /\ broken' = [broken EXCEPT ![w] = TRUE]
    /\ wpc' = [wpc EXCEPT ![w] = "pop"]
    /\ UNCHANGED <<mainVars, queueVars, ok>>

-----------------------------------------------------------------------------
run == \/ Connect \/ ConnectFails \/ Spawn
       \/ Push \/ NotifyOne \/ Close \/ NotifyAll
       \/ \E w \in Workers : Join(w)
       \/ Finish

worker(w) == \/ Setup(w) \/ PopTake(w) \/ PopNone(w) \/ PopWait(w)
             \/ SendOk(w) \/ SendFails(w)

Next == run \/ \E w \in Workers : worker(w) \/ Spurious(w)

\* Every thread is scheduled and SOCKET_TIMEOUT bounds a request; nothing is
\* assumed of spurious wakeups.
Spec == Init /\ [][Next]_vars /\ WF_vars(run) /\ \A w \in Workers : WF_vars(worker(w))

-----------------------------------------------------------------------------
(* Properties *)

MainPcs   == {"connect", "failed", "emit", "notify", "wake", "join", "done"}
WorkerPcs == {"absent", "setup", "pop", "wait", "send", "exited"}

\* Every variable stays in its domain.
TypeOK ==
    /\ mpc \in MainPcs
    /\ connected \in 0 .. Cardinality(Workers) /\ emitted \in 0 .. Total
    /\ joined \in SUBSET Workers
    /\ pending \in Seq(Requests) /\ scheduling_done \in BOOLEAN
    /\ wpc \in [Workers -> WorkerPcs] /\ broken \in [Workers -> BOOLEAN]
    /\ item \in [Workers -> 0 .. Total]
    /\ ok \in [Workers -> SUBSET Requests] /\ errors \in [Workers -> SUBSET Requests]

\* The places a scheduled request can be in.
InQueue(r) == \E i \in 1 .. Len(pending) : pending[i] = r
Held(r)    == \E w \in Workers : item[w] = r
Counted(r) == \E w \in Workers : r \in ok[w] \cup errors[w]

\* Every scheduled request is in the queue, in one worker's hands or counted by
\* one worker, once and only once: none is dropped (the omission the tool is
\* written to avoid) and none is counted twice, whichever workers break.  When
\* run returns, all of them were counted by workers it has joined.
EachRequestOnce ==
    /\ \A r \in 1 .. emitted : InQueue(r) \/ Held(r) \/ Counted(r)
    /\ \A r \in Requests :
          /\ ~ (InQueue(r) /\ Held(r)) /\ ~ (Held(r) /\ Counted(r))
          /\ ~ (InQueue(r) /\ Counted(r))
          /\ \A v, w \in Workers :
                /\ r \in ok[v] \cup errors[v] /\ r \in ok[w] \cup errors[w] => v = w
                /\ item[v] = r /\ item[w] = r => v = w
                /\ ~ (r \in ok[v] /\ r \in errors[w])
    /\ mpc = "done" => \A r \in Requests : \E w \in joined : r \in ok[w] \cup errors[w]

\* While a worker sleeps there are no more requests queued than workers awake
\* to take them and notifications to come, and none sleeps once close has
\* notified: notifying after the lock is released loses no wakeup.
NoLostWakeup ==
    /\ Waiting # {} =>
          Len(pending) <= Cardinality(Popping) + (IF mpc = "notify" THEN 1 ELSE 0)
    /\ mpc \in {"join", "done"} => Waiting = {}

\* The load generator ends, whichever connections fail.
Terminates == <>(mpc \in {"done", "failed"})
=============================================================================
