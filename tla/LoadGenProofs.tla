--------------------------- MODULE LoadGenProofs ----------------------------
(***************************************************************************)
(* The load generator accounts for every request and loses no wakeup, for  *)
(* any number of workers and requests.                                     *)
(***************************************************************************)
EXTENDS LoadGen, FiniteSetTheorems, SequenceTheorems, TLAPS

-----------------------------------------------------------------------------
(* The inductive invariant *)

\* Requests are numbered in the order they are pushed, and popped in that
\* order: the queue holds the last of them, and those before are taken.
Taken == emitted - Len(pending)

QueueI ==
    /\ Len(pending) <= emitted
    /\ \A i \in 1 .. Len(pending) : pending[i] = Taken + i

\* A worker has a request exactly while it sends it.
SendI == \A w \in Workers : item[w] # 0 <=> wpc[w] = "send"

\* Every request taken is held or counted, and no other.
TakenI ==
    /\ \A r \in 1 .. Taken : Held(r) \/ Counted(r)
    /\ \A w \in Workers : item[w] <= Taken /\ \A r \in ok[w] \cup errors[w] : r <= Taken

\* By one worker, once.
OnceI ==
    /\ \A w \in Workers : ok[w] \intersect errors[w] = {}
    /\ \A v, w \in Workers : item[v] \notin ok[w] \cup errors[w]
    /\ \A v, w \in Workers : v # w =>
          /\ item[v] # 0 => item[v] # item[w]
          /\ (ok[v] \cup errors[v]) \intersect (ok[w] \cup errors[w]) = {}

\* How far main is bounds how far the workers are.
LifeI ==
    /\ mpc \in {"connect", "failed"} => emitted = 0 /\ \A w \in Workers : wpc[w] = "absent"
    /\ scheduling_done <=> mpc \in {"wake", "join", "done"}
    /\ scheduling_done => emitted = Total
    /\ \A w \in Workers : wpc[w] = "exited" => scheduling_done /\ pending = << >>
    /\ \A w \in joined : wpc[w] = "exited"
    /\ mpc = "done" => joined = Workers

IInv == TypeOK /\ QueueI /\ SendI /\ TakenI /\ OnceI /\ LifeI /\ NoLostWakeup
-----------------------------------------------------------------------------
(* The queue and the workers *)

\* What push and pop do to the queue.
LEMMA QueueAppend ==
    ASSUME pending \in Seq(Requests), NEW r \in Requests
    PROVE  /\ Append(pending, r) \in Seq(Requests)
           /\ Len(Append(pending, r)) = Len(pending) + 1
           /\ \A i \in 1 .. Len(pending) : Append(pending, r)[i] = pending[i]
           /\ Append(pending, r)[Len(pending) + 1] = r
BY AppendProperties

LEMMA QueueTail ==
    ASSUME pending \in Seq(Requests), pending # << >>
    PROVE  /\ Len(pending) \in Nat \ {0} /\ Head(pending) = pending[1] /\ Head(pending) \in Requests
           /\ Tail(pending) \in Seq(Requests)
           /\ Len(Tail(pending)) = Len(pending) - 1
           /\ \A i \in 1 .. Len(pending) - 1 : Tail(pending)[i] = pending[i + 1]
BY HeadTailProperties, EmptySeq

\* The length of the queue is 0 exactly when it is empty.
LEMMA QueueLen == pending \in Seq(Requests) => Len(pending) \in Nat /\ (pending = << >> <=> Len(pending) = 0)
BY EmptySeq, LenProperties

\* How many workers are about to take the lock, when one more is and when one
\* of them is no longer.
LEMMA PoppingCount ==
    /\ IsFiniteSet(Popping) /\ Cardinality(Popping) \in Nat
    /\ IsFiniteSet(Popping') /\ Cardinality(Popping)' \in Nat
    /\ Popping \subseteq Popping' => Cardinality(Popping) <= Cardinality(Popping)'
    /\ \A w : w \notin Popping /\ Popping' = Popping \cup {w} => Cardinality(Popping)' = Cardinality(Popping) + 1
    /\ \A w : w \in Popping /\ Popping' = Popping \ {w} => Cardinality(Popping)' = Cardinality(Popping) - 1
<1>1. Popping \in SUBSET Workers /\ Popping' \in SUBSET Workers
  BY DEF Popping
<1>2. IsFiniteSet(Popping) /\ IsFiniteSet(Popping')
  BY <1>1, FS_Subset, LoadGenAssumption
<1>3. Cardinality(Popping) \in Nat /\ Cardinality(Popping)' \in Nat
  BY <1>2, FS_CardinalityType
<1>4. Popping \subseteq Popping' => Cardinality(Popping) <= Cardinality(Popping)'
  BY <1>2, FS_Subset
<1>5. \A w : w \notin Popping /\ Popping' = Popping \cup {w} => Cardinality(Popping)' = Cardinality(Popping) + 1
  BY <1>2, FS_AddElement
<1>6. \A w : w \in Popping /\ Popping' = Popping \ {w} => Cardinality(Popping)' = Cardinality(Popping) - 1
  BY <1>2, FS_RemoveElement
<1> QED
  BY <1>2, <1>3, <1>4, <1>5, <1>6

-----------------------------------------------------------------------------
(* The invariant is inductive *)

\* Nothing is scheduled and no worker runs before the connections are made.
LEMMA InitIInv == Init => IInv
<1> SUFFICES ASSUME Init PROVE IInv
  OBVIOUS
<1> USE LoadGenAssumption DEF Init
<1>1. TypeOK
  <2>1. Cardinality(Workers) \in Nat
    BY FS_CardinalityType
  <2>2. pending \in Seq(Requests)
    OBVIOUS
  <2>3. scheduling_done \in BOOLEAN /\ broken \in [Workers -> BOOLEAN]
    BY Zenon
  <2> QED
    BY <2>1, <2>2, <2>3 DEF TypeOK, MainPcs, WorkerPcs
<1>2. Len(pending) = 0
  OBVIOUS
<1>3. QueueI /\ SendI /\ TakenI /\ OnceI
  BY <1>2 DEF QueueI, SendI, TakenI, OnceI, Taken, Held, Counted
<1>4. Waiting = {}
  BY DEF Waiting
<1>5. LifeI /\ NoLostWakeup
  BY <1>4 DEF LifeI, NoLostWakeup
<1> QED
  BY <1>1, <1>3, <1>5 DEF IInv

\* Steps that leave the requests where they are.
LEMMA Unmoved ==
    ASSUME QueueI, TakenI, OnceI, UNCHANGED <<emitted, pending, item, ok, errors>>
    PROVE  (QueueI /\ TakenI /\ OnceI)'
BY DEF QueueI, TakenI, OnceI, Taken, Held, Counted

\* Every step of run, the main thread, keeps the invariant: push makes one
\* request more to take and owes one notification for it.
LEMMA RunStep == ASSUME IInv, run PROVE IInv'
<1> USE LoadGenAssumption DEF mainVars, queueVars, workerVars
<1>1. TypeOK /\ QueueI /\ SendI /\ TakenI /\ OnceI /\ LifeI /\ NoLostWakeup
  BY DEF IInv
<1>2. Len(pending) \in Nat /\ (pending = << >> <=> Len(pending) = 0) /\ Cardinality(Workers) \in Nat
  BY <1>1, QueueLen, FS_CardinalityType DEF TypeOK
<1>3. CASE Connect \/ ConnectFails \/ Close \/ Finish \/ \E w \in Workers : Join(w)
  <2>1. UNCHANGED <<emitted, pending, item, ok, errors, wpc, broken>>
    BY <1>3 DEF Connect, ConnectFails, Close, Finish, Join
  <2>2. (QueueI /\ TakenI /\ OnceI)'
    BY <1>1, <2>1, Unmoved
  <2>3. SendI'
    BY <1>1, <2>1 DEF SendI
  <2>4. scheduling_done' \in BOOLEAN
    BY <1>1, <1>3, Zenon DEF TypeOK, Connect, ConnectFails, Close, Finish, Join
  <2>5. TypeOK'
    BY <1>1, <1>2, <1>3, <2>1, <2>4 DEF TypeOK, MainPcs, Connect, ConnectFails, Close, Finish, Join
  <2>6. LifeI'
    BY <1>1, <1>3, <2>1 DEF TypeOK, LifeI, Connect, ConnectFails, Close, Finish, Join
  <2>7. NoLostWakeup'
    BY <1>1, <1>3, <2>1 DEF NoLostWakeup, Waiting, Popping, Connect, ConnectFails, Close, Finish, Join
  <2> QED
    BY <2>2, <2>3, <2>5, <2>6, <2>7 DEF IInv
<1>4. CASE Spawn
  <2>1. UNCHANGED <<emitted, pending, item, ok, errors, joined, scheduling_done>>
    BY <1>4 DEF Spawn
  <2>2. (QueueI /\ TakenI /\ OnceI)'
    BY <1>1, <2>1, Unmoved
  <2>3. TypeOK' /\ SendI' /\ LifeI'
    BY <1>1, <1>4 DEF TypeOK, SendI, LifeI, MainPcs, WorkerPcs, Spawn
  <2>4. Waiting' = {}
    BY <1>4 DEF Waiting, Spawn
  <2>5. NoLostWakeup'
    BY <2>4 DEF NoLostWakeup
  <2> QED
    BY <2>2, <2>3, <2>5 DEF IInv
<1>5. CASE Push
  <2>1. /\ UNCHANGED <<joined, scheduling_done, wpc, item, ok, errors>>
        /\ emitted' = emitted + 1 /\ emitted + 1 \in Requests /\ mpc = "emit" /\ mpc' = "notify"
    BY <1>1, <1>5 DEF Push, TypeOK, Requests
  <2>2. /\ pending' \in Seq(Requests) /\ Len(pending') = Len(pending) + 1 /\ pending'[Len(pending) + 1] = emitted + 1
        /\ \A i \in 1 .. Len(pending) : pending'[i] = pending[i]
    BY <1>1, <1>5, <2>1, QueueAppend DEF Push, TypeOK
  <2>3. TypeOK'
    BY <1>1, <1>5, <2>1, <2>2 DEF TypeOK, MainPcs, Push, Requests
  <2>4. Taken' = Taken
    BY <1>1, <1>2, <2>1, <2>2 DEF TypeOK, Taken
  <2>5. QueueI'
    <3>1. Len(pending)' <= emitted'
      BY <1>1, <1>2, <2>1, <2>2 DEF QueueI, TypeOK
    <3>2. ASSUME NEW i \in 1 .. Len(pending') PROVE pending'[i] = Taken + i
      <4>1. CASE i \in 1 .. Len(pending)
        BY <1>1, <2>2, <4>1 DEF QueueI
      <4>2. CASE i = Len(pending) + 1
        BY <1>1, <1>2, <2>2, <4>2 DEF TypeOK, Taken
      <4> QED
        BY <1>2, <2>2, <4>1, <4>2
    <3> QED
      BY <2>4, <3>1, <3>2 DEF QueueI
  <2>6. SendI' /\ TakenI' /\ OnceI'
    BY <1>1, <2>1, <2>4 DEF SendI, TakenI, OnceI, Held, Counted
  <2>7. LifeI'
    BY <1>1, <2>1 DEF LifeI
  <2>8. NoLostWakeup'
    BY <1>1, <1>2, <2>1, <2>2, PoppingCount DEF NoLostWakeup, Waiting, Popping
  <2> QED
    BY <2>3, <2>5, <2>6, <2>7, <2>8 DEF IInv
<1>6. CASE NotifyOne
  <2>1. UNCHANGED <<emitted, pending, item, ok, errors, joined, scheduling_done>> /\ mpc = "notify" /\ mpc' = "emit"
    BY <1>6 DEF NotifyOne
  <2>2. (QueueI /\ TakenI /\ OnceI)'
    BY <1>1, <2>1, Unmoved
  <2>3. TypeOK' /\ SendI' /\ LifeI'
    BY <1>1, <1>6 DEF TypeOK, SendI, LifeI, MainPcs, WorkerPcs, NotifyOne, Waiting
  <2>4. ASSUME Waiting = {}, wpc' = wpc PROVE NoLostWakeup'
    BY <2>1, <2>4 DEF NoLostWakeup, Waiting
  <2>5. ASSUME NEW w \in Waiting, wpc' = [wpc EXCEPT ![w] = "pop"] PROVE NoLostWakeup'
    <3>1. w \notin Popping /\ Popping' = Popping \cup {w}
      BY <1>1, <2>5 DEF TypeOK, Popping, Waiting
    <3>2. Cardinality(Popping)' = Cardinality(Popping) + 1 /\ Cardinality(Popping) \in Nat
      BY <3>1, PoppingCount
    <3>3. Waiting # {}
      BY <2>5
    <3> QED
      BY <1>1, <1>2, <2>1, <3>2, <3>3 DEF NoLostWakeup
  <2>6. NoLostWakeup'
    BY <1>6, <2>4, <2>5 DEF NotifyOne
  <2> QED
    BY <2>2, <2>3, <2>6 DEF IInv
<1>7. CASE NotifyAll
  <2>1. UNCHANGED <<emitted, pending, item, ok, errors, joined, scheduling_done>> /\ mpc = "wake" /\ mpc' = "join"
    BY <1>7 DEF NotifyAll
  <2>2. (QueueI /\ TakenI /\ OnceI)'
    BY <1>1, <2>1, Unmoved
  <2>3. TypeOK' /\ SendI' /\ LifeI'
    BY <1>1, <1>7 DEF TypeOK, SendI, LifeI, MainPcs, WorkerPcs, NotifyAll, Waiting
  <2>4. Waiting' = {}
    BY <1>7 DEF Waiting, NotifyAll
  <2>5. NoLostWakeup'
    BY <2>4 DEF NoLostWakeup
  <2> QED
    BY <2>2, <2>3, <2>5 DEF IInv
<1> QED
  BY <1>3, <1>4, <1>5, <1>6, <1>7 DEF run

\* Every step of a worker keeps it: pop takes the oldest request, and the
\* worker that took it counts it.
LEMMA WorkerStep == ASSUME IInv, NEW w \in Workers, worker(w) \/ Spurious(w) PROVE IInv'
<1> USE LoadGenAssumption DEF mainVars, queueVars, workerVars
<1>1. TypeOK /\ QueueI /\ SendI /\ TakenI /\ OnceI /\ LifeI /\ NoLostWakeup
  BY DEF IInv
<1>2. Len(pending) \in Nat /\ (pending = << >> <=> Len(pending) = 0)
  BY <1>1, QueueLen DEF TypeOK
<1>3. UNCHANGED <<mpc, connected, emitted, joined, scheduling_done>>
  BY DEF worker, Setup, PopTake, PopNone, PopWait, Spurious, SendOk, SendFails
<1>4. CASE Setup(w) \/ Spurious(w)
  <2>1. UNCHANGED <<pending, item, ok, errors>> /\ wpc[w] \in {"setup", "wait"} /\ wpc' = [wpc EXCEPT ![w] = "pop"]
    BY <1>4 DEF Setup, Spurious
  <2>2. (QueueI /\ TakenI /\ OnceI)'
    BY <1>1, <1>3, <2>1, Unmoved
  <2>3. broken' \in [Workers -> BOOLEAN]
    BY <1>1, <1>4 DEF TypeOK, Setup, Spurious
  <2>4. TypeOK' /\ SendI' /\ LifeI'
    BY <1>1, <1>3, <2>1, <2>3 DEF TypeOK, SendI, LifeI, WorkerPcs
  <2>5. Waiting' \subseteq Waiting /\ Popping \subseteq Popping'
    BY <1>1, <2>1 DEF TypeOK, Waiting, Popping
  <2>6. Cardinality(Popping) <= Cardinality(Popping)' /\ Cardinality(Popping) \in Nat /\ Cardinality(Popping)' \in Nat
    BY <2>5, PoppingCount
  <2>7. NoLostWakeup'
    BY <1>1, <1>2, <1>3, <2>1, <2>5, <2>6 DEF NoLostWakeup
  <2> QED
    BY <2>2, <2>4, <2>7 DEF IInv
<1>5. CASE PopNone(w) \/ PopWait(w)
  <2>1. /\ UNCHANGED <<pending, item, ok, errors, broken>> /\ pending = << >> /\ wpc[w] = "pop"
        /\ \/ scheduling_done /\ wpc' = [wpc EXCEPT ![w] = "exited"]
           \/ ~scheduling_done /\ wpc' = [wpc EXCEPT ![w] = "wait"]
    BY <1>5 DEF PopNone, PopWait
  <2>2. (QueueI /\ TakenI /\ OnceI)'
    BY <1>1, <1>3, <2>1, Unmoved
  <2>3. TypeOK' /\ SendI' /\ LifeI'
    BY <1>1, <1>3, <2>1 DEF TypeOK, SendI, LifeI, WorkerPcs
  <2>4. mpc' \in {"join", "done"} => Waiting' = {}
    BY <1>1, <1>3, <2>1 DEF TypeOK, LifeI, NoLostWakeup, Waiting
  <2>5. Len(pending') = 0 /\ Cardinality(Popping)' \in Nat
    BY <1>2, <2>1, PoppingCount
  <2>6. NoLostWakeup'
    BY <2>4, <2>5 DEF NoLostWakeup
  <2> QED
    BY <2>2, <2>3, <2>6 DEF IInv
<1>6. CASE PopTake(w)
  <2>0. PICK r : r = Head(pending)
    OBVIOUS
  <2>1. /\ Len(pending) > 0 /\ r = pending[1] /\ r \in Requests /\ pending' \in Seq(Requests)
        /\ Len(pending') = Len(pending) - 1 /\ \A i \in 1 .. Len(pending) - 1 : pending'[i] = pending[i + 1]
    BY <1>1, <1>2, <1>6, <2>0, QueueTail DEF TypeOK, PopTake
  <2>2. /\ wpc[w] = "pop" /\ UNCHANGED <<ok, broken>>
        /\ \/ /\ item' = [item EXCEPT ![w] = r] /\ wpc' = [wpc EXCEPT ![w] = "send"] /\ errors' = errors
           \/ /\ errors' = [errors EXCEPT ![w] = @ \cup {r}] /\ UNCHANGED <<item, wpc>>
    BY <1>6, <2>0 DEF PopTake
  <2>3. r = Taken + 1 /\ Taken' = r /\ Taken \in Nat
    BY <1>1, <1>2, <1>3, <2>1 DEF TypeOK, QueueI, Taken
  <2>4. TypeOK'
    <3>1. wpc' \in [Workers -> WorkerPcs]
      BY <1>1, <2>2 DEF TypeOK, WorkerPcs
    <3>2. item' \in [Workers -> 0 .. Total]
      <4>1. r \in 0 .. Total
        BY <2>1 DEF Requests
      <4> QED
        BY <1>1, <2>2, <4>1 DEF TypeOK
    <3>3. errors' \in [Workers -> SUBSET Requests]
      BY <1>1, <2>1, <2>2 DEF TypeOK
    <3> QED
      BY <1>1, <1>3, <2>1, <2>2, <3>1, <3>2, <3>3 DEF TypeOK
  <2>5. QueueI'
    <3>1. Len(pending)' <= emitted'
      BY <1>1, <1>2, <1>3, <2>1 DEF QueueI, TypeOK
    <3>2. ASSUME NEW i \in 1 .. Len(pending') PROVE pending'[i] = Taken' + i
      <4>1. i + 1 \in 1 .. Len(pending) /\ pending'[i] = pending[i + 1]
        BY <1>2, <2>1
      <4> QED
        BY <1>1, <2>3, <4>1 DEF QueueI
    <3> QED
      BY <3>1, <3>2 DEF QueueI
  <2>6. item[w] = 0
    BY <1>1, <2>2 DEF SendI
  <2>7. SendI'
    BY <1>1, <2>2, <2>3 DEF TypeOK, SendI
  <2>a. /\ \A v \in Workers : v # w => item'[v] = item[v] /\ errors'[v] = errors[v]
        /\ \/ item'[w] = r /\ errors'[w] = errors[w]
           \/ item'[w] = 0 /\ errors'[w] = errors[w] \cup {r}
    <3>1. \A v \in Workers : v # w => item'[v] = item[v] /\ errors'[v] = errors[v]
      BY <1>1, <2>2 DEF TypeOK
    <3>2. CASE item' = [item EXCEPT ![w] = r] /\ errors' = errors
      BY <1>1, <3>1, <3>2 DEF TypeOK
    <3>3. CASE errors' = [errors EXCEPT ![w] = @ \cup {r}] /\ item' = item
      BY <1>1, <2>6, <3>1, <3>3 DEF TypeOK
    <3> QED
      BY <2>2, <3>2, <3>3
  <2>8. \A q \in 1 .. Taken' : (Held(q) \/ Counted(q))'
    <3>1. (Held(r) \/ Counted(r))'
      <4>1. item'[w] = r \/ r \in ok'[w] \cup errors'[w]
        BY <2>a
      <4> QED
        BY <4>1 DEF Held, Counted
    <3>2. ASSUME NEW q \in 1 .. Taken PROVE (Held(q) \/ Counted(q))'
      <4>1. CASE Held(q)
        <5>1. PICK v \in Workers : item[v] = q
          BY <4>1 DEF Held
        <5>2. v # w
          BY <2>6, <5>1
        <5>3. item'[v] = q
          BY <1>1, <2>2, <5>1, <5>2 DEF TypeOK
        <5> QED
          BY <5>3 DEF Held
      <4>2. CASE Counted(q)
        BY <1>1, <2>2, <4>2 DEF TypeOK, Counted
      <4> QED
        BY <1>1, <4>1, <4>2 DEF TakenI
    <3>3. \A q \in 1 .. Taken' : q = r \/ q \in 1 .. Taken
      BY <2>3
    <3> QED
      BY <3>1, <3>2, <3>3
  <2>9. \A v \in Workers : item'[v] <= Taken' /\ \A q \in ok'[v] \cup errors'[v] : q <= Taken'
    BY <1>1, <2>2, <2>3, <2>a DEF TypeOK, TakenI, Requests
  <2>10. TakenI'
    BY <2>8, <2>9 DEF TakenI
  <2>11. \A v \in Workers : item[v] # r /\ r \notin ok[v] \cup errors[v] /\ item[v] \in Nat
    BY <1>1, <2>3 DEF TypeOK, TakenI
  <2>12. OnceI'
    <3>1. \A v \in Workers : ok'[v] \intersect errors'[v] = {}
      BY <1>1, <2>2, <2>11, <2>a DEF OnceI
    <3>2. \A v \in Workers : 0 \notin ok[v] \cup errors[v] /\ r # 0
      BY <1>1, <2>1 DEF TypeOK, Requests
    <3>3. \A u, v \in Workers : item'[u] \notin ok'[v] \cup errors'[v]
      BY <1>1, <2>2, <2>11, <2>a, <3>2 DEF OnceI
    <3>4. \A u, v \in Workers : u # v /\ item'[u] # 0 => item'[u] # item'[v]
      BY <1>1, <2>2, <2>11, <2>a, <3>2 DEF OnceI
    <3>5. \A u, v \in Workers : u # v => (ok'[u] \cup errors'[u]) \intersect (ok'[v] \cup errors'[v]) = {}
      BY <1>1, <2>2, <2>11, <2>a DEF OnceI
    <3> QED
      BY <3>1, <3>3, <3>4, <3>5 DEF OnceI
  <2>13. LifeI'
    BY <1>1, <1>2, <1>3, <2>1, <2>2 DEF TypeOK, LifeI
  <2>14. NoLostWakeup'
    <3>1. Waiting' = Waiting /\ (Popping' = Popping \/ Popping' = Popping \ {w}) /\ w \in Popping
      BY <1>1, <2>2 DEF TypeOK, Waiting, Popping
    <3>2. Cardinality(Popping)' \in {Cardinality(Popping), Cardinality(Popping) - 1} /\ Cardinality(Popping) \in Nat
      BY <3>1, PoppingCount
    <3> QED
      BY <1>1, <1>2, <1>3, <2>1, <3>1, <3>2 DEF NoLostWakeup
  <2> QED
    BY <2>4, <2>5, <2>7, <2>10, <2>12, <2>13, <2>14 DEF IInv
<1>7. CASE SendOk(w) \/ SendFails(w)
  <2>0. PICK r : r = item[w]
    OBVIOUS
  <2>1. r \in Requests
    BY <1>1, <1>7, <2>0 DEF TypeOK, SendI, SendOk, SendFails, Requests
  <2>2. /\ wpc[w] = "send" /\ wpc' = [wpc EXCEPT ![w] = "pop"] /\ item' = [item EXCEPT ![w] = 0]
        /\ pending' = pending
        /\ \/ ok' = [ok EXCEPT ![w] = @ \cup {r}] /\ errors' = errors
           \/ errors' = [errors EXCEPT ![w] = @ \cup {r}] /\ ok' = ok
    BY <1>7, <2>0 DEF SendOk, SendFails
  <2>3. broken' \in [Workers -> BOOLEAN]
    BY <1>1, <1>7 DEF TypeOK, SendOk, SendFails
  <2>4. r <= Taken /\ \A v \in Workers : r \notin ok[v] \cup errors[v] /\ (v # w => item[v] # r)
    BY <1>1, <2>0, <2>1 DEF TakenI, OnceI, Requests
  <2>5. TypeOK'
    <3>1. wpc' \in [Workers -> WorkerPcs] /\ item' \in [Workers -> 0 .. Total]
      BY <1>1, <2>2 DEF TypeOK, WorkerPcs
    <3>2. ok' \in [Workers -> SUBSET Requests] /\ errors' \in [Workers -> SUBSET Requests]
      BY <1>1, <2>1, <2>2 DEF TypeOK
    <3> QED
      BY <1>1, <1>3, <2>2, <2>3, <3>1, <3>2 DEF TypeOK
  <2>a. /\ \A v \in Workers : v # w => item'[v] = item[v] /\ ok'[v] = ok[v] /\ errors'[v] = errors[v]
        /\ item'[w] = 0
        /\ \/ ok'[w] = ok[w] \cup {r} /\ errors'[w] = errors[w]
           \/ errors'[w] = errors[w] \cup {r} /\ ok'[w] = ok[w]
    BY <1>1, <2>2 DEF TypeOK
  <2>6. QueueI' /\ Taken' = Taken
    BY <1>1, <1>3, <2>2 DEF QueueI, Taken
  <2>7. SendI'
    BY <1>1, <2>2 DEF TypeOK, SendI
  <2>8. \A q \in 1 .. Taken : (Held(q) \/ Counted(q))'
    <3> SUFFICES ASSUME NEW q \in 1 .. Taken PROVE (Held(q) \/ Counted(q))'
      OBVIOUS
    <3>1. CASE q = r
      BY <1>1, <2>2, <3>1 DEF TypeOK, Counted
    <3>2. CASE Held(q) /\ q # r
      <4>1. PICK v \in Workers : item[v] = q
        BY <3>2 DEF Held
      <4>2. item'[v] = q
        BY <1>1, <2>0, <2>2, <3>2, <4>1 DEF TypeOK
      <4> QED
        BY <4>2 DEF Held
    <3>3. CASE Counted(q)
      BY <1>1, <2>2, <3>3 DEF TypeOK, Counted
    <3> QED
      BY <1>1, <3>1, <3>2, <3>3 DEF TakenI
  <2>9. \A v \in Workers : item'[v] <= Taken /\ \A q \in ok'[v] \cup errors'[v] : q <= Taken
    <3>1. 0 <= Taken
      BY <1>1, <1>2 DEF TypeOK, QueueI, Taken
    <3> QED
      BY <1>1, <2>4, <2>a, <3>1 DEF TypeOK, TakenI, Requests
  <2>10. TakenI'
    BY <2>6, <2>8, <2>9 DEF TakenI
  <2>11. OnceI'
    <3>1. \A v \in Workers : ok'[v] \intersect errors'[v] = {}
      BY <1>1, <2>4, <2>a DEF OnceI
    <3>2. \A v \in Workers : 0 \notin ok[v] \cup errors[v] /\ r # 0
      BY <1>1, <2>1 DEF TypeOK, Requests
    <3>3. \A u, v \in Workers : item'[u] \notin ok'[v] \cup errors'[v]
      BY <1>1, <2>4, <2>a, <3>2 DEF OnceI
    <3>4. \A u, v \in Workers : u # v /\ item'[u] # 0 => item'[u] # item'[v]
      BY <1>1, <2>a DEF OnceI
    <3>5. \A u, v \in Workers : u # v => (ok'[u] \cup errors'[u]) \intersect (ok'[v] \cup errors'[v]) = {}
      BY <1>1, <2>4, <2>a DEF OnceI
    <3> QED
      BY <3>1, <3>3, <3>4, <3>5 DEF OnceI
  <2>12. LifeI'
    BY <1>1, <1>3, <2>2 DEF TypeOK, LifeI
  <2>13. NoLostWakeup'
    <3>1. Waiting' = Waiting /\ Popping \subseteq Popping'
      BY <1>1, <2>2 DEF TypeOK, Waiting, Popping
    <3>2. Cardinality(Popping) <= Cardinality(Popping)' /\ Cardinality(Popping) \in Nat /\ Cardinality(Popping)' \in Nat
      BY <3>1, PoppingCount
    <3> QED
      BY <1>1, <1>2, <1>3, <2>2, <3>1, <3>2 DEF NoLostWakeup
  <2> QED
    BY <2>5, <2>6, <2>7, <2>10, <2>11, <2>12, <2>13 DEF IInv
<1> QED
  BY <1>4, <1>5, <1>6, <1>7 DEF worker

\* The invariant is inductive.
LEMMA StepIInv == IInv /\ [Next]_vars => IInv'
<1> SUFFICES ASSUME IInv, [Next]_vars PROVE IInv'
  OBVIOUS
<1>1. CASE Next
  BY <1>1, RunStep, WorkerStep DEF Next
<1>2. CASE UNCHANGED vars
  BY <1>2 DEF vars, mainVars, queueVars, workerVars, IInv, TypeOK, QueueI, SendI, TakenI, OnceI, LifeI,
     NoLostWakeup, Taken, Held, Counted, Waiting, Popping
<1> QED
  BY <1>1, <1>2

-----------------------------------------------------------------------------
(* The theorems *)

\* The load generator never leaves the invariant.
THEOREM LoadGenInvariant == Spec => []IInv
BY InitIInv, StepIInv, PTL DEF Spec

\* No variable leaves its domain: no request is made up and no more than one is
\* in a worker's hands.
THEOREM LoadGenTypeCorrect == Spec => []TypeOK
<1>1. IInv => TypeOK
  BY DEF IInv
<1> QED
  BY <1>1, LoadGenInvariant, PTL

\* For any number of workers and requests, the notifications of push and close,
\* sent after the lock is released, leave no worker asleep beside a request
\* that no one else is awake to take.
THEOREM NoWakeupIsLost == Spec => []NoLostWakeup
<1>1. IInv => NoLostWakeup
  BY DEF IInv
<1> QED
  BY <1>1, LoadGenInvariant, PTL

\* For any number of workers and requests, whichever connections break, every
\* scheduled request is counted once, and all of them when run returns.
THEOREM RequestsAreCountedOnce == Spec => []EachRequestOnce
<1>1. IInv => EachRequestOnce
  <2> SUFFICES ASSUME IInv PROVE EachRequestOnce
    OBVIOUS
  <2>1. TypeOK /\ QueueI /\ SendI /\ TakenI /\ OnceI /\ LifeI
    BY DEF IInv
  <2>2. Len(pending) \in Nat /\ Taken \in Nat /\ emitted \in Nat /\ (pending = << >> <=> Len(pending) = 0)
    BY <2>1, QueueLen DEF TypeOK, QueueI, Taken
  <2>3. \A r \in 1 .. emitted : r > Taken => InQueue(r)
    <3> SUFFICES ASSUME NEW r \in 1 .. emitted, r > Taken PROVE InQueue(r)
      OBVIOUS
    <3>1. r - Taken \in 1 .. Len(pending)
      BY <2>1, <2>2 DEF Taken
    <3>2. pending[r - Taken] = r
      BY <2>1, <2>2, <3>1 DEF QueueI
    <3> QED
      BY <3>1, <3>2 DEF InQueue
  <2>4. \A r \in 1 .. emitted : InQueue(r) \/ Held(r) \/ Counted(r)
    BY <2>1, <2>2, <2>3 DEF TakenI
  <2>5. \A r \in Requests : (InQueue(r) => r > Taken) /\ (Held(r) \/ Counted(r) => r <= Taken)
    <3> SUFFICES ASSUME NEW r \in Requests PROVE (InQueue(r) => r > Taken) /\ (Held(r) \/ Counted(r) => r <= Taken)
      OBVIOUS
    <3>1. InQueue(r) => r > Taken
      BY <2>1, <2>2 DEF InQueue, QueueI
    <3>2. Held(r) \/ Counted(r) => r <= Taken
      BY <2>1 DEF Held, Counted, TakenI
    <3> QED
      BY <3>1, <3>2
  <2>6. \A r \in Requests : ~ (InQueue(r) /\ Held(r)) /\ ~ (InQueue(r) /\ Counted(r))
    BY <2>2, <2>5 DEF Requests
  <2>7. \A r \in Requests : ~ (Held(r) /\ Counted(r))
    BY <2>1 DEF Held, Counted, OnceI
  <2>8. \A r \in Requests : \A v, w \in Workers :
            /\ r \in ok[v] \cup errors[v] /\ r \in ok[w] \cup errors[w] => v = w
            /\ item[v] = r /\ item[w] = r => v = w
            /\ ~ (r \in ok[v] /\ r \in errors[w])
    BY <2>1 DEF OnceI, Requests
  <2>9. mpc = "done" => \A r \in Requests : \E w \in joined : r \in ok[w] \cup errors[w]
    <3> SUFFICES ASSUME mpc = "done", NEW r \in Requests PROVE \E w \in joined : r \in ok[w] \cup errors[w]
      OBVIOUS
    <3>1. joined = Workers /\ emitted = Total /\ \A w \in Workers : wpc[w] = "exited"
      BY <2>1 DEF LifeI
    <3>2. pending = << >>
      BY <2>1, <3>1, LoadGenAssumption DEF LifeI
    <3>3. r \in 1 .. Taken
      BY <2>2, <3>1, <3>2, LoadGenAssumption DEF Taken, Requests
    <3>4. ~Held(r)
      BY <2>1, <3>1 DEF Held, SendI, Requests
    <3> QED
      BY <2>1, <3>1, <3>3, <3>4 DEF TakenI, Counted
  <2> QED
    BY <2>4, <2>6, <2>7, <2>8, <2>9 DEF EachRequestOnce
<1> QED
  BY <1>1, LoadGenInvariant, PTL
=============================================================================
