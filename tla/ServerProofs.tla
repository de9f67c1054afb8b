---------------------------- MODULE ServerProofs ----------------------------
(***************************************************************************)
(* The safety of the accept loops and of the reactors' life, and that all  *)
(* the blocking models implement Dispatch, for every number of             *)
(* connections, workers, permits and faults.                               *)
(***************************************************************************)
EXTENDS Server, FiniteSetTheorems, FunctionTheorems, SequenceTheorems, TLAPS

-----------------------------------------------------------------------------
(* The inductive invariant *)

\* The variables of the models that are not picked stay as they start.
OthersIdle ==
    /\ model # "thread-per-conn" => thread = [c \in Conns |-> "none"]
    /\ model # "thread-pool" =>
          /\ chan = << >> /\ rx = NoWorker
          /\ worker = [w \in Workers |-> "absent"] /\ job = [w \in Workers |-> NoConn]
    /\ model # "forking" => child = [c \in Conns |-> "none"] /\ ~handling
    /\ model # "preforked" =>
          /\ pworker = [w \in Workers |-> "absent"]
          /\ pbacklog = [w \in Workers |-> {}] /\ serving = [w \in Workers |-> NoConn]
    /\ model \notin Reactors => reactor = [w \in Workers |-> "absent"]

\* A connection is not made, or in the backlog, or past accept; serve_connection
\* is not called before accept.
Apart ==
    /\ fresh \intersect backlog = {}
    /\ hand \notin fresh \union backlog
    /\ \A c \in fresh \union backlog : calls[c] = 0

IterI ==
    /\ status = "up" /\ pc \in {"accept", "call", "serve"}
    /\ hand # NoConn <=> pc # "accept"
    /\ pc = "call"  => calls[hand] = 0
    /\ pc = "serve" => calls[hand] > 0

TpcBusy == TpcThreads("serve") \union TpcThreads("release")

TpcI ==
    /\ pc \in {"accept", "acquire", "wait", "spawn"}
    /\ \A c \in Conns : calls[c] = 0 <=> thread[c] = "none"
    /\ hand # NoConn => thread[hand] = "none"
    /\ status = "up" => hand # NoConn <=> pc # "accept"
    /\ status # "up" =>
          backlog = {} /\ hand = NoConn /\ \A c \in Conns : thread[c] \in {"none", "done"}
    /\ status = "up" =>
          /\ permits >= 0
          /\ permits + Cardinality(TpcBusy) = IF pc = "spawn" THEN MaxConnections - 1 ELSE MaxConnections
          /\ pc = "wait" => permits = 0

PoolI ==
    /\ pc \in {"spawn", "accept", "send"}
    /\ pc = "spawn" => worker = [w \in Workers |-> "absent"] /\ chan = << >>
    /\ status # "up" => pc = "spawn" /\ backlog = {}
    /\ hand # NoConn <=> pc = "send"
    /\ hand # NoConn => calls[hand] = 0
    /\ \A i \in 1 .. Len(chan) : chan[i] \notin fresh \union backlog /\ calls[chan[i]] = 0
    /\ \A w \in Workers : job[w] # NoConn => calls[job[w]] > 0
    /\ OneOwner

\* The children that LIVE_CHILDREN counts.
Unreaped == Live \union Zombies

ForkI ==
    /\ pc \in {"accept", "check", "reserve", "fork", "drop"}
    /\ \A c \in Conns : calls[c] = 0 <=> child[c] = "none"
    /\ status = "up" =>
          /\ hand # NoConn <=> pc # "accept"
          /\ pc \in {"check", "reserve", "fork"} => child[hand] = "none"
          /\ LIVE_CHILDREN <= MaxConnections
          /\ LIVE_CHILDREN = Cardinality(Unreaped) + (IF pc = "fork" THEN 1 ELSE 0)
          /\ Zombies # {} => sigchld \/ handling
          /\ pc = "reserve" => LIVE_CHILDREN < MaxConnections
    /\ status # "up" => hand = NoConn /\ ~handling /\ Zombies = {}

PreI ==
    /\ backlog = {} /\ hand = NoConn
    /\ pc \in {"fork", "idle", "forward", "reap"}
    /\ \A w \in Workers : \A c \in pbacklog[w] : c \notin fresh /\ calls[c] = 0
    /\ \A v, w \in Workers : v # w => pbacklog[v] \intersect pbacklog[w] = {}
    /\ \A v, w \in Workers : v # w /\ serving[v] # NoConn => serving[v] # serving[w]
    /\ \A w \in Workers : serving[w] # NoConn => calls[serving[w]] > 0
    /\ \A w \in Workers : serving[w] # NoConn <=> pworker[w] = "serve"
    /\ \A w \in Workers : w > forked => pworker[w] = "absent"
    /\ pc = "reap" => \A w \in Workers : Running(w) => wflag[w]
    /\ \A w \in Workers : w <= waited => pworker[w] = "gone" \/ (w \in skipped /\ wflag[w])
    /\ status \in {"ok", "err"} => waited = forked
    /\ waited > 0 => pc = "reap"

MultiI ==
    /\ fresh = Conns /\ backlog = {} /\ hand = NoConn
    /\ pc \in {"install", "reset", "spawn", "join"}
    /\ pc # "join" => joined = 0
    /\ model = "event-loop" => spawned = (IF pc = "join" THEN 1 ELSE 0)
    /\ model = "multireactor" /\ pc = "join" => spawned = NumWorkers
    /\ \A w \in 1 .. joined : reactor[w] \in {"ok", "err", "panicked"}
    /\ first_err = NoReactor => \A w \in 1 .. joined : reactor[w] # "err"
    /\ first_err # NoReactor =>
          /\ first_err <= joined /\ reactor[first_err] = "err"
          /\ \A w \in 1 .. first_err - 1 : reactor[w] # "err"
    /\ status = "up" => \A w \in Workers : reactor[w] # "cut"
    /\ FirstErrorReturned

IInv ==
    /\ model \in Models
    /\ TypeOK /\ OthersIdle /\ Apart
    /\ model = "iterative"       => IterI
    /\ model = "thread-per-conn" => TpcI
    /\ model = "thread-pool"     => PoolI
    /\ model = "forking"         => ForkI
    /\ model = "preforked"       => PreI
    /\ model \in Reactors        => MultiI

-----------------------------------------------------------------------------
(* Initial states *)

\* Every model starts with nothing connected, spawned or forked.
LEMMA InitIInv == Init => IInv
<1> SUFFICES ASSUME Init PROVE IInv
  OBVIOUS
<1> USE ListeningAssumption
<1>0. model \in Models /\ ListenInit /\ TpcInit /\ PoolInit /\ ForkInit /\ PreInit /\ MultiInit
  BY DEF Init
<1>1. TypeOK
  <2>1. ListenTypeOK
    BY <1>0 DEF ListenInit, ListenTypeOK
  <2>2. TpcTypeOK
    BY <1>0 DEF TpcInit, TpcTypeOK
  <2>3. PoolTypeOK
    BY <1>0 DEF PoolInit, PoolTypeOK, queue_capacity, NoWorker
  <2>4. ForkTypeOK
    <3>1. LIVE_CHILDREN \in Int /\ child \in [Conns -> {"none", "new", "serve", "zombie", "gone"}]
      BY <1>0 DEF ForkInit
    <3>2. sigchld \in BOOLEAN /\ handling \in BOOLEAN
      BY <1>0, Zenon DEF ForkInit
    <3> QED
      BY <3>1, <3>2, Zenon DEF ForkTypeOK
  <2>5. PreTypeOK
    <3>1. /\ pworker \in [Workers -> {"absent", "new", "bind", "check", "accept", "serve", "zombie", "gone"}]
          /\ pbacklog \in [Workers -> SUBSET Conns]
          /\ serving \in [Workers -> Conns \union {NoConn}]
          /\ forked \in 0 .. NumWorkers /\ waited \in 0 .. forked
          /\ orphans \subseteq Workers /\ skipped \subseteq Workers
      BY <1>0 DEF PreInit
    <3>2. flag \in BOOLEAN /\ fork_err \in BOOLEAN /\ wflag \in [Workers -> BOOLEAN]
      BY <1>0, Zenon DEF PreInit
    <3> QED
      BY <3>1, <3>2, Zenon DEF PreTypeOK
  <2>6. MultiTypeOK
    <3>1. /\ reactor \in [Workers -> {"absent", "bind", "run", "ok", "err", "panicked", "cut"}]
          /\ spawned \in 0 .. NumWorkers /\ joined \in 0 .. spawned
          /\ first_err \in Workers \union {NoReactor}
      BY <1>0 DEF MultiInit
    <3>2. SHUTDOWN \in BOOLEAN /\ heeded \in BOOLEAN
      BY <1>0, Zenon DEF MultiInit
    <3> QED
      BY <3>1, <3>2, Zenon DEF MultiTypeOK
  <2> QED
    BY <2>1, <2>2, <2>3, <2>4, <2>5, <2>6 DEF TypeOK
<1>2. OthersIdle /\ Apart
  BY <1>0 DEF OthersIdle, Apart, ListenInit, TpcInit, PoolInit, ForkInit, PreInit, MultiInit
<1>3. /\ model \in {"iterative", "thread-per-conn", "forking"} => pc = "accept"
      /\ model = "thread-pool" => pc = "spawn"
      /\ model = "preforked" => pc = "fork"
      /\ model \in Reactors => pc = "install"
  BY DEF Init, Entry, Reactors
<1>4. model = "iterative" => IterI
  BY <1>0, <1>3 DEF IterI, ListenInit
<1>5. model = "thread-per-conn" => TpcI
  <2>1. TpcBusy = {}
    BY <1>0 DEF TpcBusy, TpcThreads, TpcInit
  <2>2. Cardinality(TpcBusy) = 0
    BY <2>1, FS_EmptySet, Zenon
  <2> QED
    BY <1>0, <1>3, <2>2 DEF TpcI, ListenInit, TpcInit
<1>6. model = "thread-pool" => PoolI
  <2>1. OneOwner
    BY <1>0 DEF OneOwner, PoolInit, ListenInit, Workers, NoWorker
  <2> QED
    BY <1>0, <1>3, <2>1 DEF PoolI, PoolInit, ListenInit
<1>7. model = "forking" => ForkI
  <2>1. Unreaped = {} /\ Zombies = {}
    BY <1>0 DEF Unreaped, Live, Zombies, InChild, ForkInit
  <2>2. Cardinality(Unreaped) = 0
    BY <2>1, FS_EmptySet, Zenon
  <2> QED
    BY <1>0, <1>3, <2>1, <2>2 DEF ForkI, ForkInit, ListenInit
<1>8. model = "preforked" => PreI
  BY <1>0, <1>3 DEF PreI, PreInit, ListenInit, Workers, Running
<1>9. model \in Reactors => MultiI
  BY <1>0, <1>3 DEF MultiI, MultiInit, ListenInit, Reactors, FirstErrorReturned, NoReactor, Workers
<1> QED
  BY <1>0, <1>1, <1>2, <1>4, <1>5, <1>6, <1>7, <1>8, <1>9 DEF IInv

-----------------------------------------------------------------------------
(* iterative *)

\* Each step of the iterative loop keeps the invariant.
LEMMA IterStep ==
    ASSUME IInv, IterNext, UNCHANGED <<tpcOnly, poolOnly, forkOnly, preOnly, multiOnly>>
    PROVE  IInv'
<1> USE ListeningAssumption
<1>1. model = "iterative" /\ model' = model
  BY DEF IterNext, IterLoop, Connect, IterAccept, AcceptThen, IterCall, IterReturn, At
<1>2. TypeOK'
  <2>1. ListenTypeOK'
    BY <1>1 DEF IInv, TypeOK, ListenTypeOK, IterNext, IterLoop,
       Connect, IterAccept, AcceptThen, IterCall, IterReturn, CallServe
  <2> QED
    BY <2>1 DEF IInv, TypeOK, TpcTypeOK, PoolTypeOK, ForkTypeOK, PreTypeOK, MultiTypeOK,
       tpcOnly, poolOnly, forkOnly, preOnly, multiOnly, reaperVars, procVars, workerVars
<1>3. OthersIdle'
  BY <1>1 DEF IInv, OthersIdle,
     tpcOnly, poolOnly, forkOnly, preOnly, multiOnly, reaperVars, procVars, workerVars
<1>4. Apart' /\ IterI'
  BY <1>1 DEF IInv, IterI, TypeOK, ListenTypeOK, Apart,
     IterNext, IterLoop, Connect, IterAccept, AcceptThen, IterCall, IterReturn, At, CallServe, Goto
<1> QED
  BY <1>1, <1>2, <1>3, <1>4 DEF IInv, Reactors

-----------------------------------------------------------------------------
(* thread-per-conn *)

\* The threads that still own a permit can be counted.
LEMMA TpcBusyFinite == IsFiniteSet(TpcBusy) /\ Cardinality(TpcBusy) \in Nat
<1>1. TpcBusy \in SUBSET Conns
  BY DEF TpcBusy, TpcThreads
<1> QED
  BY <1>1, FS_Subset, FS_CardinalityType, ListeningAssumption

\* Each step of thread-per-conn keeps it: acquire, spawn and release move one
\* permit between the semaphore and a thread.
LEMMA TpcStep ==
    ASSUME IInv, TpcNext, UNCHANGED <<poolOnly, forkOnly, preOnly, multiOnly>>
    PROVE  IInv'
<1> USE ListeningAssumption
<1>1. model = "thread-per-conn" /\ model' = model
  BY DEF IInv, OthersIdle, TpcNext, TpcAcceptor, Connect, TpcAccept, AcceptThen, Acquire, AcquireWaits,
     AcquireWoken, TpcSpawn, TpcSpawnPanics, ProcessEnds, TpcThread, TpcReturn, Release, At, listenVars
<1>2. ListenTypeOK /\ TpcTypeOK /\ Apart /\ TpcI
  BY <1>1 DEF IInv, TypeOK
<1>3. OthersIdle' /\ PoolTypeOK' /\ ForkTypeOK' /\ PreTypeOK' /\ MultiTypeOK'
  BY <1>1 DEF IInv, OthersIdle, TypeOK, PoolTypeOK, ForkTypeOK, PreTypeOK, MultiTypeOK,
     poolOnly, forkOnly, preOnly, multiOnly, reaperVars, procVars, workerVars
<1> DEFINE Good == (ListenTypeOK /\ TpcTypeOK /\ Apart /\ TpcI)'
<1> SUFFICES Good
  BY <1>1, <1>3 DEF IInv, TypeOK, Reactors
<1> USE DEF ListenTypeOK, TpcTypeOK, Apart, TpcI, At, Goto
<1>4. thread' = thread => TpcBusy' = TpcBusy
  BY DEF TpcBusy, TpcThreads
<1>5. CASE Connect("thread-per-conn") /\ UNCHANGED <<permits, thread>>
  BY <1>2, <1>4, <1>5 DEF Connect
<1>6. CASE TpcAccept
  BY <1>2, <1>4, <1>6 DEF TpcAccept, AcceptThen
<1>7. CASE Acquire
  BY <1>2, <1>4, <1>7, TpcBusyFinite DEF Acquire
<1>8. CASE AcquireWaits
  BY <1>2, <1>4, <1>8 DEF AcquireWaits
<1>9. CASE AcquireWoken
  BY <1>2, <1>4, <1>9 DEF AcquireWoken
<1>10. CASE TpcSpawn
  <2>1. hand \in Conns /\ thread[hand] = "none"
    BY <1>2, <1>10 DEF TpcSpawn
  <2>2. hand \notin TpcBusy /\ TpcBusy' = TpcBusy \union {hand}
    BY <1>2, <1>10, <2>1 DEF TpcSpawn, TpcBusy, TpcThreads
  <2>3. Cardinality(TpcBusy') = Cardinality(TpcBusy) + 1
    BY <2>2, TpcBusyFinite, FS_AddElement, Zenon
  <2> QED
    BY <1>2, <1>10, <2>1, <2>3, TpcBusyFinite DEF TpcSpawn, CallServe
<1>11. CASE TpcSpawnPanics
  BY <1>2, <1>11 DEF TpcSpawnPanics, ProcessEnds, Fault
<1>12. ASSUME NEW c \in Conns, TpcReturn(c) PROVE Good
  <2>1. TpcBusy' = TpcBusy
    BY <1>2, <1>12 DEF TpcReturn, TpcBusy, TpcThreads
  <2> QED
    BY <1>2, <1>12, <2>1 DEF TpcReturn, listenVars
<1>13. ASSUME NEW c \in Conns, Release(c) PROVE Good
  <2>1. c \in TpcBusy /\ TpcBusy' = TpcBusy \ {c}
    BY <1>2, <1>13 DEF Release, TpcBusy, TpcThreads
  <2>2. Cardinality(TpcBusy') = Cardinality(TpcBusy) - 1
    BY <2>1, TpcBusyFinite, FS_RemoveElement, Zenon
  <2> QED
    BY <1>2, <1>13, <2>2, TpcBusyFinite DEF Release
<1> HIDE DEF Good
<1> QED
  BY <1>5, <1>6, <1>7, <1>8, <1>9, <1>10, <1>11, <1>12, <1>13 DEF TpcNext, TpcAcceptor, TpcThread

-----------------------------------------------------------------------------
(* thread-pool *)

\* What a stream at the end of the channel, or one less at its front, changes.
LEMMA ChanAppend ==
    ASSUME chan \in Seq(Conns), NEW c \in Conns
    PROVE  /\ Append(chan, c) \in Seq(Conns)
           /\ Len(Append(chan, c)) = Len(chan) + 1
           /\ \A i \in 1 .. Len(chan) : Append(chan, c)[i] = chan[i]
           /\ Append(chan, c)[Len(chan) + 1] = c
BY AppendProperties

LEMMA ChanTail ==
    ASSUME chan \in Seq(Conns), chan # << >>
    PROVE  /\ Len(chan) \in Nat \ {0} /\ Head(chan) = chan[1] /\ Head(chan) \in Conns
           /\ Tail(chan) \in Seq(Conns)
           /\ Len(Tail(chan)) = Len(chan) - 1
           /\ \A i \in 1 .. Len(chan) - 1 : Tail(chan)[i] = chan[i + 1]
BY HeadTailProperties, EmptySeq

\* Each step of thread-pool keeps it: try_send and recv move a stream from one
\* owner to the next.
LEMMA PoolStep ==
    ASSUME IInv, PoolNext, UNCHANGED <<tpcOnly, forkOnly, preOnly, multiOnly>>
    PROVE  IInv'
<1> USE ListeningAssumption
<1>1. model = "thread-pool" /\ model' = model
  BY DEF IInv, OthersIdle, PoolNext, PoolAcceptor, Connect, PoolSpawn, PoolAccept, AcceptThen, TrySendOk,
     TrySendFull, PoolSpawnPanics, ProcessEnds, worker_loop, RxLock, Recv, PoolReturn, At, listenVars
<1>2. ListenTypeOK /\ PoolTypeOK /\ Apart /\ PoolI
  BY <1>1 DEF IInv, TypeOK
<1>3. OthersIdle' /\ TpcTypeOK' /\ ForkTypeOK' /\ PreTypeOK' /\ MultiTypeOK'
  BY <1>1 DEF IInv, OthersIdle, TypeOK, TpcTypeOK, ForkTypeOK, PreTypeOK, MultiTypeOK,
     tpcOnly, forkOnly, preOnly, multiOnly, reaperVars, procVars, workerVars
<1> DEFINE Good == (ListenTypeOK /\ PoolTypeOK /\ Apart /\ PoolI)'
<1> SUFFICES Good
  BY <1>1, <1>3 DEF IInv, TypeOK, Reactors
<1> USE DEF ListenTypeOK, PoolTypeOK, Apart, PoolI, OneOwner, At, Goto, NoWorker, Workers
<1>4. CASE Connect("thread-pool") /\ UNCHANGED <<chan, rx, worker, job>>
  BY <1>2, <1>4 DEF Connect
<1>5. CASE PoolSpawn
  <2>1. /\ \A w \in Workers : worker[w] = "absent" /\ job[w] = NoConn /\ rx # w
        /\ chan = << >> /\ status = "up" /\ hand = NoConn
    BY <1>2, <1>5 DEF PoolSpawn
  <2>2. /\ worker' = [w \in Workers |-> "lock"] /\ pc' = "accept"
        /\ UNCHANGED <<model, status, fresh, backlog, hand, calls, faults, chan, rx, job>>
    BY <1>5 DEF PoolSpawn
  <2>3. (ListenTypeOK /\ PoolTypeOK /\ Apart)'
    BY <1>2, <2>2 DEF queue_capacity
  <2>4. OneOwner'
    <3>1. \A i \in 1 .. Len(chan') : FALSE
      BY <2>1, <2>2
    <3>2. \A w \in Workers : worker'[w] = "lock" /\ job'[w] = NoConn /\ rx' # w
      BY <2>1, <2>2
    <3> QED
      BY <2>1, <2>2, <3>1, <3>2
  <2> QED
    BY <1>2, <2>1, <2>2, <2>3, <2>4
<1>6. CASE PoolAccept
  BY <1>2, <1>6 DEF PoolAccept, AcceptThen
<1>7. CASE TrySendOk
  <2>1. hand \in Conns
    BY <1>2, <1>7 DEF TrySendOk
  <2>2. /\ chan' \in Seq(Conns) /\ Len(chan') = Len(chan) + 1 /\ chan'[Len(chan) + 1] = hand
        /\ \A i \in 1 .. Len(chan) : chan'[i] = chan[i]
    BY <1>2, <1>7, <2>1, ChanAppend DEF TrySendOk
  <2> QED
    BY <1>2, <1>7, <2>1, <2>2 DEF TrySendOk, queue_capacity
<1>8. CASE TrySendFull
  BY <1>2, <1>8 DEF TrySendFull
<1>9. ASSUME NEW w \in Workers, RxLock(w) PROVE Good
  BY <1>2, <1>9 DEF RxLock, listenVars
<1>10. ASSUME NEW w \in Workers, Recv(w) PROVE Good
  <2>1. /\ Len(chan) \in Nat \ {0} /\ Head(chan) = chan[1] /\ Head(chan) \in Conns
        /\ chan' \in Seq(Conns)
        /\ Len(chan') = Len(chan) - 1
        /\ \A i \in 1 .. Len(chan) - 1 : chan'[i] = chan[i + 1]
    BY <1>2, <1>10, ChanTail DEF Recv
  <2> DEFINE h == Head(chan)
  <2>2. /\ calls' = [calls EXCEPT ![h] = @ + 1] /\ job' = [job EXCEPT ![w] = h]
        /\ worker' = [worker EXCEPT ![w] = "serve"] /\ rx' = NoWorker
        /\ UNCHANGED <<model, status, pc, fresh, backlog, hand, faults>>
        /\ worker[w] = "recv" /\ rx = w /\ job[w] = NoConn
    BY <1>2, <1>10 DEF Recv, CallServe
  <2>3. /\ \A i \in 2 .. Len(chan) : chan[i] # h
        /\ h # hand /\ \A v \in Workers : job[v] # h
        /\ h \notin fresh \union backlog /\ calls[h] = 0 /\ h \in Conns
    BY <1>2, <2>1
  <2> HIDE DEF h
  <2>4. (ListenTypeOK /\ PoolTypeOK /\ Apart)'
    <3>1. Len(chan') <= queue_capacity
      BY <1>2, <2>1 DEF queue_capacity
    <3> QED
      BY <1>2, <2>1, <2>2, <2>3, <3>1 DEF queue_capacity
  <2>5. /\ \A i \in 1 .. Len(chan') : chan'[i] \notin fresh \union backlog /\ calls'[chan'[i]] = 0
        /\ \A i, j \in 1 .. Len(chan') : i # j => chan'[i] # chan'[j]
        /\ \A i \in 1 .. Len(chan') : chan'[i] # hand /\ \A v \in Workers : chan'[i] # job'[v]
    <3>1. \A i \in 1 .. Len(chan') : i + 1 \in 2 .. Len(chan) /\ chan'[i] = chan[i + 1]
      BY <2>1
    <3>2. \A i \in 2 .. Len(chan) :
             /\ i \in 1 .. Len(chan) /\ chan[i] # h /\ chan[i] \in Conns
             /\ chan[i] \notin fresh \union backlog /\ calls[chan[i]] = 0
             /\ chan[i] # hand /\ \A v \in Workers : chan[i] # job[v]
      BY <1>2, <2>1, <2>3
    <3>3. \A i, j \in 1 .. Len(chan') : i # j => chan'[i] # chan'[j]
      <4>1. \A i, j \in 2 .. Len(chan) : i # j => chan[i] # chan[j]
        BY <1>2, <3>2
      <4>2. \A i, j \in 1 .. Len(chan') : i # j => i + 1 # j + 1
        OBVIOUS
      <4> QED
        BY <3>1, <4>1, <4>2, Zenon
    <3>4. \A c \in Conns : c # h => calls'[c] = calls[c]
      BY <1>2, <2>2
    <3>5. \A v \in Workers : job'[v] = job[v] \/ job'[v] = h
      BY <1>2, <2>2
    <3>6. ASSUME NEW i \in 1 .. Len(chan')
          PROVE  /\ chan'[i] \notin fresh \union backlog /\ calls'[chan'[i]] = 0
                 /\ chan'[i] # hand /\ \A v \in Workers : chan'[i] # job'[v]
      <4>1. /\ chan'[i] # h /\ chan'[i] \in Conns
            /\ chan'[i] \notin fresh \union backlog /\ calls[chan'[i]] = 0
            /\ chan'[i] # hand /\ \A v \in Workers : chan'[i] # job[v]
        BY <3>1, <3>2, Zenon
      <4> QED
        BY <3>4, <3>5, <4>1, Zenon
    <3> QED
      BY <3>3, <3>6, Zenon
  <2>6. OneOwner'
    BY <1>2, <2>2, <2>3, <2>5
  <2>7. PoolI'
    BY <1>2, <2>2, <2>3, <2>5, <2>6
  <2> QED
    BY <2>4, <2>7
<1>11. ASSUME NEW w \in Workers, PoolReturn(w) PROVE Good
  BY <1>2, <1>11 DEF PoolReturn, listenVars
<1>12. CASE PoolSpawnPanics
  BY <1>2, <1>12 DEF PoolSpawnPanics, ProcessEnds, Fault
<1> HIDE DEF Good
<1> QED
  BY <1>4, <1>5, <1>6, <1>7, <1>8, <1>9, <1>10, <1>11, <1>12 DEF PoolNext, PoolAcceptor, worker_loop

-----------------------------------------------------------------------------
(* forking *)

\* The children that run or wait to be reaped can be counted.
LEMMA UnreapedFinite == IsFiniteSet(Unreaped) /\ Cardinality(Unreaped) \in Nat
<1>1. Unreaped \in SUBSET Conns
  BY DEF Unreaped, Live, Zombies, InChild
<1> QED
  BY <1>1, FS_Subset, FS_CardinalityType, ListeningAssumption

\* Each step of forking keeps it, the handler's between any two of the loop's.
LEMMA ForkStep ==
    ASSUME IInv, ForkNext, UNCHANGED <<tpcOnly, poolOnly, preOnly, multiOnly>>
    PROVE  IInv'
<1> USE ListeningAssumption
<1>1. model = "forking" /\ model' = model
  BY DEF IInv, OthersIdle, ForkNext, ForkParent, Connect, ForkAccept, AcceptThen, ForkRefuse, ForkCheck,
     Reserve, Fork, ForkFails, DropStream, SigchldDelivered, Reap, HandlerReturns, ForkChild, ChildStarts,
     ChildExits, ForkParentKilled, Parent, At, listenVars
<1>2. ListenTypeOK /\ ForkTypeOK /\ Apart /\ ForkI
  BY <1>1 DEF IInv, TypeOK
<1>3. OthersIdle' /\ TpcTypeOK' /\ PoolTypeOK' /\ PreTypeOK' /\ MultiTypeOK'
  BY <1>1 DEF IInv, OthersIdle, TypeOK, TpcTypeOK, PoolTypeOK, PreTypeOK, MultiTypeOK,
     tpcOnly, poolOnly, preOnly, multiOnly, procVars, workerVars
<1> DEFINE Good == (ListenTypeOK /\ ForkTypeOK /\ Apart /\ ForkI)'
<1> SUFFICES Good
  BY <1>1, <1>3 DEF IInv, TypeOK, Reactors
<1>4. child' = child => Unreaped' = Unreaped /\ Zombies' = Zombies
  BY DEF Unreaped, Live, Zombies, InChild
<1> USE DEF ListenTypeOK, ForkTypeOK, Apart, ForkI, At, Goto, Parent, reaperVars
<1>5. CASE Connect("forking") /\ UNCHANGED <<LIVE_CHILDREN, reaperVars>>
  BY <1>2, <1>4, <1>5 DEF Connect
<1>6. CASE ForkAccept
  BY <1>2, <1>4, <1>6 DEF ForkAccept, AcceptThen
<1>7. CASE ForkRefuse
  BY <1>2, <1>4, <1>7 DEF ForkRefuse
<1>8. CASE ForkCheck
  BY <1>2, <1>4, <1>8 DEF ForkCheck
<1>9. CASE Reserve
  BY <1>2, <1>4, <1>9, UnreapedFinite DEF Reserve
<1>10. CASE Fork
  <2>1. hand \in Conns /\ child[hand] = "none"
    BY <1>2, <1>10 DEF Fork
  <2>2. hand \notin Unreaped /\ Unreaped' = Unreaped \union {hand} /\ Zombies' = Zombies
    BY <1>2, <1>10, <2>1 DEF Fork, Unreaped, Live, Zombies, InChild
  <2>3. Cardinality(Unreaped') = Cardinality(Unreaped) + 1
    BY <2>2, UnreapedFinite, FS_AddElement, Zenon
  <2> QED
    BY <1>2, <1>10, <2>1, <2>2, <2>3, UnreapedFinite DEF Fork, CallServe
<1>11. CASE ForkFails
  BY <1>2, <1>4, <1>11, UnreapedFinite DEF ForkFails, Fault
<1>12. CASE DropStream
  BY <1>2, <1>4, <1>12 DEF DropStream
<1>13. CASE SigchldDelivered
  BY <1>2, <1>4, <1>13 DEF SigchldDelivered, listenVars
<1>14. CASE Reap
  <2>1. PICK c \in Zombies : child' = [child EXCEPT ![c] = "gone"]
    BY <1>14 DEF Reap
  <2>2. c \in Unreaped /\ Unreaped' = Unreaped \ {c}
    BY <1>2, <2>1 DEF Unreaped, Live, Zombies, InChild
  <2>3. Cardinality(Unreaped') = Cardinality(Unreaped) - 1
    BY <2>2, UnreapedFinite, FS_RemoveElement, Zenon
  <2>4. c \in Conns /\ child[c] = "zombie"
    BY DEF Zombies, InChild
  <2> QED
    BY <1>2, <1>14, <2>1, <2>3, <2>4, UnreapedFinite DEF Reap, listenVars
<1>15. CASE HandlerReturns
  BY <1>2, <1>4, <1>15 DEF HandlerReturns, listenVars
<1>16. ASSUME NEW c \in Conns, ChildStarts(c) PROVE Good
  <2>1. Unreaped' = Unreaped /\ Zombies' = Zombies
    BY <1>2, <1>16 DEF ChildStarts, Unreaped, Live, Zombies, InChild
  <2> QED
    BY <1>2, <1>16, <2>1 DEF ChildStarts
<1>17. ASSUME NEW c \in Conns, ChildExits(c) PROVE Good
  <2>1. status = "up" => Unreaped' = Unreaped
    BY <1>2, <1>17 DEF ChildExits, Unreaped, Live, Zombies, InChild, listenVars
  <2>2. status # "up" => Zombies' = Zombies
    BY <1>2, <1>17 DEF ChildExits, Zombies, InChild, listenVars
  <2> QED
    BY <1>2, <1>17, <2>1, <2>2 DEF ChildExits, listenVars
<1>18. CASE ForkParentKilled
  <2>1. Zombies' = {}
    BY <1>2, <1>18 DEF ForkParentKilled, Zombies, InChild
  <2> QED
    <3>1. (ListenTypeOK /\ Apart)'
      BY <1>2, <1>18 DEF ForkParentKilled, Fault
    <3>2. child' \in [Conns -> {"none", "new", "serve", "zombie", "gone"}] /\ LIVE_CHILDREN' \in Int
      BY <1>2, <1>18 DEF ForkParentKilled
    <3>3. sigchld' \in BOOLEAN /\ handling' \in BOOLEAN /\ ~handling'
      BY <1>18, Zenon DEF ForkParentKilled
    <3>4. \A c \in Conns : calls'[c] = 0 <=> child'[c] = "none"
      BY <1>2, <1>18 DEF ForkParentKilled
    <3> QED
      BY <1>2, <1>18, <2>1, <3>1, <3>2, <3>3, <3>4 DEF ForkParentKilled
<1> HIDE DEF Good
<1> QED
  BY <1>5, <1>6, <1>7, <1>8, <1>9, <1>10, <1>11, <1>12, <1>13, <1>14, <1>15, <1>16, <1>17, <1>18
  DEF ForkNext, ForkParent, ForkChild

-----------------------------------------------------------------------------
(* preforked *)

\* Each step of preforked keeps it: of the parent, of a worker, of a signal.
LEMMA PreStep ==
    ASSUME IInv, PreNext, UNCHANGED <<tpcOnly, poolOnly, forkOnly, multiOnly>>
    PROVE  IInv'
<1> USE ListeningAssumption
<1>1. model = "preforked" /\ model' = model
  BY DEF IInv, OthersIdle, PreNext, PreParent, PreFork, PreForked, PreStop, forward_signal, reap, PreReturn,
     PreForkFails, PreConnect, PreSignal, PreParentKilled, child_main, Prctl, Bind, Check, CheckStop,
     WorkerAccept, AcceptTimeout, WorkerReturn, BindFails, WorkerExits, Worker, ProcessEnds, At, listenVars
<1>2. ListenTypeOK /\ PreTypeOK /\ Apart /\ PreI
  BY <1>1 DEF IInv, TypeOK
<1>3. OthersIdle' /\ TpcTypeOK' /\ PoolTypeOK' /\ ForkTypeOK' /\ MultiTypeOK'
  BY <1>1 DEF IInv, OthersIdle, TypeOK, TpcTypeOK, PoolTypeOK, ForkTypeOK, MultiTypeOK,
     tpcOnly, poolOnly, forkOnly, multiOnly, reaperVars
<1> DEFINE Good == (ListenTypeOK /\ PreTypeOK /\ Apart /\ PreI)'
<1> SUFFICES Good
  BY <1>1, <1>3 DEF IInv, TypeOK, Reactors
<1> USE DEF ListenTypeOK, PreTypeOK, Apart, PreI, At, Goto, procVars, workerVars, Workers, Worker, WorkerGoto
<1>4. CASE PreFork
  BY <1>2, <1>4 DEF PreFork, listenVars, Running
<1>5. CASE PreForkFails
  BY <1>2, <1>5 DEF PreForkFails, Fault
<1>6. CASE PreForked
  BY <1>2, <1>6 DEF PreForked
<1>7. CASE PreStop
  BY <1>2, <1>7 DEF PreStop
<1>8. CASE forward_signal
  <2>1. \A w \in Workers : Running(w) => wflag'[w]
    <3>1. \A w \in Workers : Running(w) => w \in Children
      BY <1>2 DEF Running, Children
    <3>2. \A w \in Workers : wflag'[w] = (wflag[w] \/ (w \in Children /\ Running(w)))
      BY <1>8, Zenon DEF forward_signal, Raise
    <3> QED
      BY <3>1, <3>2, Zenon
  <2>2. wflag' \in [Workers -> BOOLEAN]
    BY <1>2, <1>8 DEF forward_signal, Raise
  <2>3. waited = 0
    BY <1>2, <1>8 DEF forward_signal
  <2> QED
    BY <1>2, <1>8, <2>1, <2>2, <2>3 DEF forward_signal, Running
<1>9. CASE reap
  BY <1>2, <1>9 DEF reap, listenVars, Running
<1>10. CASE PreReturn
  BY <1>2, <1>10 DEF PreReturn, ProcessEnds, Inherited, Running
<1>11. CASE PreConnect
  BY <1>2, <1>11 DEF PreConnect, Running
<1>12. CASE PreSignal
  <2>1. /\ wflag' \in [Workers -> BOOLEAN]
        /\ \A w \in Workers : wflag[w] => wflag'[w]
    BY <1>2, <1>12 DEF PreSignal, Raise
  <2>2. /\ waited' \in 0 .. forked /\ skipped' \subseteq Workers
        /\ \A w \in Workers : w <= waited' => pworker[w] = "gone" \/ (w \in skipped' /\ wflag'[w])
        /\ waited' > 0 => pc = "reap"
    <3>1. CASE UNCHANGED <<waited, skipped>>
      BY <1>2, <2>1, <3>1
    <3>2. CASE reap_interrupted
      BY <1>2, <2>1, <3>2 DEF reap_interrupted
    <3> QED
      BY <1>12, <3>1, <3>2 DEF PreSignal
  <2>3. flag' \in BOOLEAN /\ status = "up"
    BY <1>12, Zenon DEF PreSignal
  <2>4. UNCHANGED <<listenVars, forked, fork_err, orphans, pworker, pbacklog, serving>>
    BY <1>12 DEF PreSignal
  <2> QED
    BY <1>2, <2>1, <2>2, <2>3, <2>4 DEF listenVars, Running
<1>13. CASE PreParentKilled
  <2>1. /\ wflag' \in [Workers -> BOOLEAN]
        /\ \A w \in Workers : wflag[w] => wflag'[w]
    BY <1>2, <1>13 DEF PreParentKilled, Raise
  <2> QED
    BY <1>2, <1>13, <2>1 DEF PreParentKilled, ProcessEnds, Inherited, Running, Fault
<1>14. ASSUME NEW w \in Workers, Prctl(w) \/ Bind(w) \/ Check(w) \/ AcceptTimeout(w) PROVE Good
  <2>1. /\ pworker[w] \in {"new", "bind", "check", "accept"}
        /\ \E l \in {"bind", "check", "accept"} : pworker' = [pworker EXCEPT ![w] = l]
    BY <1>2, <1>14 DEF Prctl, Bind, Check, AcceptTimeout
  <2>2. UNCHANGED <<listenVars, procVars, wflag, pbacklog, serving>>
    BY <1>14 DEF Prctl, Bind, Check, AcceptTimeout
  <2> QED
    BY <1>2, <2>1, <2>2 DEF listenVars, Running
<1>15. ASSUME NEW w \in Workers, CheckStop(w) \/ BindFails(w) PROVE Good
  <2>1. /\ pworker[w] \in {"check", "bind"}
        /\ \E l \in {"zombie", "gone"} : pworker' = [pworker EXCEPT ![w] = l]
        /\ pbacklog' = [pbacklog EXCEPT ![w] = {}]
    BY <1>2, <1>15 DEF CheckStop, BindFails, WorkerExits
  <2>2. faults' \in 0 .. MaxFaults
    BY <1>2, <1>15 DEF CheckStop, BindFails, Fault
  <2>3. UNCHANGED <<model, status, pc, fresh, backlog, hand, calls, procVars, wflag, serving>>
    BY <1>15 DEF CheckStop, BindFails, WorkerExits
  <2> QED
    BY <1>2, <2>1, <2>2, <2>3 DEF Running
<1>16. ASSUME NEW w \in Workers, WorkerAccept(w) PROVE Good
  BY <1>2, <1>16 DEF WorkerAccept, CallServe, Running
<1>17. ASSUME NEW w \in Workers, WorkerReturn(w) PROVE Good
  BY <1>2, <1>17 DEF WorkerReturn, listenVars, Running
<1> HIDE DEF Good
<1> QED
  BY <1>4, <1>5, <1>6, <1>7, <1>8, <1>9, <1>10, <1>11, <1>12, <1>13, <1>14, <1>15, <1>16, <1>17
  DEF PreNext, PreParent, child_main

-----------------------------------------------------------------------------
(* multireactor and event-loop *)

\* Each step of the reactor models keeps it.
LEMMA MultiStep ==
    ASSUME IInv, MultiNext, UNCHANGED <<tpcOnly, poolOnly, forkOnly, preOnly>>
    PROVE  IInv'
<1> USE ListeningAssumption
<1>1. model \in Reactors /\ model' = model
  BY DEF IInv, OthersIdle, MultiNext, MultiMain, InstallShutdownFlag, ResetFlag, EventLoopStarts, MultiSpawn,
     Spawned, Join, MultiReturn, SpawnFails, MultiSignal, MultiEnds, ProcessEnds, MultiReactor, ReactorBinds,
     ReactorStops, ReactorFails, ReactorPanics, ReactorGoto, Main, listenVars, multiOnly
<1>2. ListenTypeOK /\ MultiTypeOK /\ Apart /\ MultiI
  BY <1>1 DEF IInv, TypeOK
<1>3. OthersIdle' /\ TpcTypeOK' /\ PoolTypeOK' /\ ForkTypeOK' /\ PreTypeOK'
  BY <1>1 DEF IInv, OthersIdle, TypeOK, TpcTypeOK, PoolTypeOK, ForkTypeOK, PreTypeOK,
     tpcOnly, poolOnly, forkOnly, preOnly, reaperVars, procVars, workerVars
<1> DEFINE Good == (ListenTypeOK /\ MultiTypeOK /\ Apart /\ MultiI)'
<1> SUFFICES Good
  BY <1>1, <1>3 DEF IInv, TypeOK, Reactors
<1> USE DEF ListenTypeOK, MultiTypeOK, Apart, MultiI, Main, Goto, Workers, multiOnly, NoReactor, Reactors,
            FirstErrorReturned
<1>4. CASE InstallShutdownFlag
  BY <1>1, <1>2, <1>4 DEF InstallShutdownFlag
<1>5. CASE ResetFlag
  BY <1>1, <1>2, <1>5 DEF ResetFlag
<1>6. CASE EventLoopStarts
  BY <1>1, <1>2, <1>6 DEF EventLoopStarts
<1>7. CASE MultiSpawn
  BY <1>1, <1>2, <1>7 DEF MultiSpawn, listenVars
<1>8. CASE Spawned
  BY <1>1, <1>2, <1>8 DEF Spawned
<1>9. CASE Join
  BY <1>1, <1>2, <1>9 DEF Join, listenVars
<1>10. CASE MultiReturn
  BY <1>1, <1>2, <1>10 DEF MultiReturn, MultiEnds, ProcessEnds
<1>11. CASE SpawnFails
  BY <1>1, <1>2, <1>11 DEF SpawnFails, MultiEnds, ProcessEnds, Fault
<1>12. CASE MultiSignal
  <2>1. CASE pc = "install"
    BY <1>1, <1>2, <1>12, <2>1 DEF MultiSignal, MultiEnds, ProcessEnds
  <2>2. CASE pc # "install"
    <3>1. UNCHANGED <<listenVars, reactor, spawned, joined, first_err>>
      BY <1>12, <2>2 DEF MultiSignal
    <3>2. SHUTDOWN' \in BOOLEAN /\ heeded' \in BOOLEAN
      BY <1>12, <2>2, Zenon DEF MultiSignal
    <3> QED
      BY <1>1, <1>2, <3>1, <3>2 DEF listenVars
  <2> QED
    BY <2>1, <2>2
<1>13. ASSUME NEW w \in Workers, ReactorBinds(w) PROVE Good
  BY <1>1, <1>2, <1>13 DEF ReactorBinds, ReactorGoto
<1>14. ASSUME NEW w \in Workers, ReactorStops(w) PROVE Good
  BY <1>1, <1>2, <1>14 DEF ReactorStops, ReactorGoto
<1>15. ASSUME NEW w \in Workers, ReactorFails(w) PROVE Good
  BY <1>1, <1>2, <1>15 DEF ReactorFails, ReactorGoto, Fault
<1>16. ASSUME NEW w \in Workers, ReactorPanics(w) PROVE Good
  <2>1. CASE model = "multireactor"
    BY <1>1, <1>2, <1>16, <2>1 DEF ReactorPanics, ReactorGoto, Fault
  <2>2. CASE model = "event-loop"
    BY <1>1, <1>2, <1>16, <2>2 DEF ReactorPanics, MultiEnds, ProcessEnds, Fault
  <2> QED
    BY <1>1, <2>1, <2>2
<1> HIDE DEF Good
<1> QED
  BY <1>4, <1>5, <1>6, <1>7, <1>8, <1>9, <1>10, <1>11, <1>12, <1>13, <1>14, <1>15, <1>16
  DEF MultiNext, MultiMain, MultiReactor

-----------------------------------------------------------------------------
(* The theorems *)

\* The invariant is inductive.
LEMMA StepIInv == IInv /\ [Next]_vars => IInv'
<1> SUFFICES ASSUME IInv, [Next]_vars PROVE IInv'
  OBVIOUS
<1>1. CASE Next
  BY <1>1, IterStep, TpcStep, PoolStep, ForkStep, PreStep, MultiStep, Zenon DEF Next
<1>2. CASE UNCHANGED vars
  <2>1. /\ UNCHANGED <<model, status, pc, fresh, backlog, hand, calls, faults>>
        /\ UNCHANGED <<permits, thread, chan, rx, worker, job, LIVE_CHILDREN, child, sigchld, handling>>
        /\ UNCHANGED <<flag, forked, waited, skipped, fork_err, orphans, wflag, pworker, pbacklog, serving>>
        /\ UNCHANGED <<SHUTDOWN, reactor, spawned, joined, first_err, heeded>>
    BY <1>2 DEF vars, listenVars, tpcOnly, poolOnly, forkOnly, preOnly, multiOnly, reaperVars, procVars, workerVars
  <2>2. (TypeOK /\ OthersIdle /\ Apart)'
    BY <2>1 DEF IInv, TypeOK, ListenTypeOK, TpcTypeOK, PoolTypeOK, ForkTypeOK, PreTypeOK, MultiTypeOK,
       OthersIdle, Apart
  <2>3. /\ IterI => IterI' 
        /\ TpcI => TpcI'
        /\ PoolI => PoolI'
    BY <2>1 DEF IterI, TpcI, TpcBusy, TpcThreads, PoolI, OneOwner
  <2>4. /\ ForkI => ForkI'
        /\ PreI => PreI'
        /\ MultiI => MultiI'
    BY <2>1 DEF ForkI, Unreaped, Live, Zombies, InChild, PreI, Running, MultiI, FirstErrorReturned
  <2> QED
    BY <2>1, <2>2, <2>3, <2>4 DEF IInv
<1> QED
  BY <1>1, <1>2

\* The accept loops and the reactors' owner never leave the invariant, whichever
\* model is picked.
THEOREM ServerInvariant == Spec => []IInv
BY InitIInv, StepIInv, PTL DEF Spec

\* No variable of any model leaves its domain.
THEOREM ServerTypeCorrect == Spec => []TypeOK
<1>1. IInv => TypeOK
  BY DEF IInv
<1> QED
  BY <1>1, ServerInvariant, PTL

\* The semaphore of thread-per-conn leaks no permit and makes none up, for any
\* number of connections and permits.
THEOREM PermitsAreAccounted == Spec => []PermitsAccounted
<1>1. IInv => PermitsAccounted
  BY DEF IInv, TpcI, PermitsAccounted, TpcBusy, At
<1> QED
  BY <1>1, ServerInvariant, PTL

\* In thread-pool a stream has one owner, whatever the number of workers and
\* the capacity of the channel.
THEOREM StreamsHaveOneOwner == Spec => []OneOwner
<1>1. IInv => OneOwner
  <2> SUFFICES ASSUME IInv PROVE OneOwner
    OBVIOUS
  <2>1. CASE model = "thread-pool"
    BY <2>1 DEF IInv, PoolI
  <2>2. CASE model # "thread-pool"
    BY <2>2 DEF IInv, OthersIdle, OneOwner, Workers, NoWorker
  <2> QED
    BY <2>1, <2>2
<1> QED
  BY <1>1, ServerInvariant, PTL

\* LIVE_CHILDREN of forking is exact, whenever SIGCHLD comes.
THEOREM ChildrenAreCounted == Spec => []ChildrenCounted
<1>1. IInv => ChildrenCounted
  BY DEF IInv, ForkI, ChildrenCounted, Unreaped
<1> QED
  BY <1>1, ServerInvariant, PTL

\* preforked returns, also after a fork that failed, with every worker exited
\* and reaped, except those whose waitpid a further signal interrupted, and
\* these have been told to stop.
THEOREM WorkersAreReaped == Spec => []WorkersReaped
<1>1. IInv => WorkersReaped
  BY ListeningAssumption DEF IInv, TypeOK, PreTypeOK, PreI, WorkersReaped, Workers
<1> QED
  BY <1>1, ServerInvariant, PTL

\* multireactor returns the error of the first reactor that returned one, and Ok
\* only when all were started and joined and none did; a reactor that panicked
\* counts for neither.
THEOREM FirstErrorIsReturned == Spec => []FirstErrorReturned
<1>1. IInv => FirstErrorReturned
  BY DEF IInv, MultiI, FirstErrorReturned
<1> QED
  BY <1>1, ServerInvariant, PTL

-----------------------------------------------------------------------------
(* The refinement of Dispatch.  For each model, phase is read off its own    *)
(* variables: the invariant makes the cases of phase exclude one another.    *)

IterPhase(c) ==
    IF c \in fresh THEN "none" ELSE IF c \in backlog THEN "waiting"
    ELSE IF hand = c THEN IF pc = "serve" THEN "serving" ELSE "held"
    ELSE IF calls[c] = 0 THEN "refused" ELSE "closed"

TpcPhase(c) ==
    IF c \in fresh THEN "none" ELSE IF c \in backlog THEN "waiting"
    ELSE IF hand = c THEN "held" ELSE IF thread[c] = "serve" THEN "serving"
    ELSE IF calls[c] = 0 THEN "refused" ELSE "closed"

PoolPhase(c) ==
    IF c \in fresh THEN "none" ELSE IF c \in backlog THEN "waiting"
    ELSE IF hand = c \/ \E i \in 1 .. Len(chan) : chan[i] = c THEN "held"
    ELSE IF \E w \in Workers : job[w] = c THEN "serving"
    ELSE IF calls[c] = 0 THEN "refused" ELSE "closed"

ForkPhase(c) ==
    IF c \in fresh THEN "none" ELSE IF c \in backlog THEN "waiting"
    ELSE IF hand = c /\ child[c] = "none" THEN "held"
    ELSE IF hand = c \/ child[c] \in {"new", "serve"} THEN "serving"
    ELSE IF calls[c] = 0 THEN "refused" ELSE "closed"

PrePhase(c) ==
    IF c \in fresh THEN "none" ELSE IF \E w \in Workers : c \in pbacklog[w] THEN "waiting"
    ELSE IF \E w \in Workers : serving[w] = c THEN "serving"
    ELSE IF calls[c] = 0 THEN "refused" ELSE "closed"

\* iterative: a stream in hand is served once serve_connection is called.
LEMMA IterPhases == IInv /\ model = "iterative" => \A c \in Conns : phase[c] = IterPhase(c)
<1> SUFFICES ASSUME IInv, model = "iterative", NEW c \in Conns PROVE phase[c] = IterPhase(c)
  OBVIOUS
<1> USE ListeningAssumption DEF IInv, OthersIdle
<1>1. Waiting(c) <=> c \in backlog
  BY DEF Waiting
<1>2. Held(c) <=> hand = c /\ pc # "serve"
  BY DEF Held, At, IterI
<1>3. Served(c) <=> hand = c /\ pc = "serve"
  BY DEF Served, At, IterI
<1> QED
  BY <1>1, <1>2, <1>3 DEF phase, IterPhase, Apart

\* thread-per-conn: a stream in hand is held, one moved to a thread is served.
LEMMA TpcPhases == IInv /\ model = "thread-per-conn" => \A c \in Conns : phase[c] = TpcPhase(c)
<1> SUFFICES ASSUME IInv, model = "thread-per-conn", NEW c \in Conns PROVE phase[c] = TpcPhase(c)
  OBVIOUS
<1> USE ListeningAssumption DEF IInv, OthersIdle
<1>1. Waiting(c) <=> c \in backlog
  BY DEF Waiting
<1>2. Held(c) <=> hand = c
  BY DEF Held, At
<1>3. Served(c) <=> thread[c] = "serve"
  BY DEF Served, At
<1> QED
  BY <1>1, <1>2, <1>3 DEF phase, TpcPhase, Apart, TpcI

\* thread-pool: a stream in hand or in the channel is held, a job is served.
LEMMA PoolPhases == IInv /\ model = "thread-pool" => \A c \in Conns : phase[c] = PoolPhase(c)
<1> SUFFICES ASSUME IInv, model = "thread-pool", NEW c \in Conns PROVE phase[c] = PoolPhase(c)
  OBVIOUS
<1> USE ListeningAssumption DEF IInv, OthersIdle
<1>1. Waiting(c) <=> c \in backlog
  BY DEF Waiting
<1>2. Held(c) <=> hand = c \/ \E i \in 1 .. Len(chan) : chan[i] = c
  BY DEF Held, At
<1>3. Served(c) <=> \E w \in Workers : job[w] = c
  BY DEF Served, At
<1>4. /\ c \in fresh \union backlog => ~(hand = c \/ \E i \in 1 .. Len(chan) : chan[i] = c)
      /\ c \in fresh \union backlog => ~\E w \in Workers : job[w] = c
      /\ hand = c \/ (\E i \in 1 .. Len(chan) : chan[i] = c) => ~\E w \in Workers : job[w] = c
  BY DEF Apart, PoolI, OneOwner
<1> QED
  BY <1>1, <1>2, <1>3, <1>4 DEF phase, PoolPhase, Apart

\* forking: a stream is served while the parent or its child has a copy of it.
LEMMA ForkPhases == IInv /\ model = "forking" => \A c \in Conns : phase[c] = ForkPhase(c)
<1> SUFFICES ASSUME IInv, model = "forking", NEW c \in Conns PROVE phase[c] = ForkPhase(c)
  OBVIOUS
<1> USE ListeningAssumption DEF IInv, OthersIdle
<1>1. Waiting(c) <=> c \in backlog
  BY DEF Waiting
<1>2. Held(c) <=> hand = c /\ child[c] = "none"
  BY DEF Held, At
<1>3. Served(c) <=> (hand = c /\ child[c] # "none") \/ child[c] \in {"new", "serve"}
  BY DEF Served, At
<1> QED
  BY <1>1, <1>2, <1>3 DEF phase, ForkPhase, Apart, ForkI

\* preforked: a worker serves what it accepts from its own backlog.
LEMMA PrePhases == IInv /\ model = "preforked" => \A c \in Conns : phase[c] = PrePhase(c)
<1> SUFFICES ASSUME IInv, model = "preforked", NEW c \in Conns PROVE phase[c] = PrePhase(c)
  OBVIOUS
<1> USE ListeningAssumption DEF IInv, OthersIdle
<1>1. Waiting(c) <=> \E w \in Workers : c \in pbacklog[w]
  BY DEF Waiting, PreI
<1>2. ~Held(c)
  BY DEF Held, PreI
<1>3. Served(c) <=> \E w \in Workers : serving[w] = c
  BY DEF Served, At, PreI
<1>4. /\ c \in fresh => ~\E w \in Workers : c \in pbacklog[w] \/ serving[w] = c
      /\ (\E w \in Workers : c \in pbacklog[w]) => ~\E w \in Workers : serving[w] = c
  BY DEF Apart, PreI
<1> QED
  BY <1>1, <1>2, <1>3, <1>4 DEF phase, PrePhase

\* The reactor models accept nothing here: their connections are Reactor's.
LEMMA MultiPhases == IInv /\ model \in Reactors => \A c \in Conns : phase[c] = "none"
<1> SUFFICES ASSUME IInv, model \in Reactors, NEW c \in Conns PROVE phase[c] = "none"
  OBVIOUS
<1> USE ListeningAssumption DEF IInv, OthersIdle, MultiI, Reactors
<1>1. c \in fresh /\ ~Waiting(c)
  BY DEF Waiting
<1>2. ~Held(c) /\ ~Served(c)
  BY DEF Held, Served, At
<1> QED
  BY <1>1, <1>2 DEF phase

-----------------------------------------------------------------------------
(* Steps of Dispatch, from what happens to the phase of each connection *)

\* phase is a function of the connections, before and after a step.
LEMMA PhaseFunctions ==
    /\ phase = [c \in Conns |-> phase[c]]
    /\ phase' = [c \in Conns |-> phase'[c]]
BY DEF phase

\* A step that changes the phase of one connection is a Move of it.
LEMMA MoveStep ==
    ASSUME NEW c \in Conns, model' = model, \A d \in Conns : d # c => phase'[d] = phase[d]
    PROVE  Promise!Move(c, phase[c], phase'[c])
BY PhaseFunctions DEF Promise!Move

\* A step that ends the connections of S is a Reset of S.
LEMMA ResetStep ==
    ASSUME NEW S \in SUBSET Conns, model' = model,
           \A c \in S : phase[c] \in {"waiting", "held", "serving"},
           \A c \in Conns : phase'[c] = IF c \notin S THEN phase[c]
                                        ELSE IF phase[c] = "serving" THEN "closed" ELSE "refused"
    PROVE  Promise!Reset(S)
BY PhaseFunctions DEF Promise!Reset

\* A step that changes no phase is none of Dispatch.
LEMMA StutterStep ==
    ASSUME model' = model, \A c \in Conns : phase'[c] = phase[c]
    PROVE  UNCHANGED <<model, phase>>
BY PhaseFunctions

\* The caps of each model.
LEMMA Caps ==
    /\ model \in {"iterative", "thread-per-conn", "forking"} => HeldCap[model] = 1
    /\ model = "thread-pool" => HeldCap[model] = MaxConnections + 1
    /\ model = "iterative" => ServeCap[model] = 1
    /\ model \in {"thread-per-conn", "forking"} => ServeCap[model] = MaxConnections
    /\ model \in {"thread-pool", "preforked"} => ServeCap[model] = NumWorkers
BY DEF HeldCap, ServeCap, Models, queue_capacity

\* The instance has a Cardinality of its own.
LEMMA SameCardinality == \A S : Promise!Cardinality(S) = Cardinality(S)
BY DEF Promise!Cardinality, Cardinality

\* No connection in a phase counts as 0.
LEMMA NoneIn ==
    ASSUME NEW p, \A c \in Conns : phase[c] # p
    PROVE  Cardinality(Promise!In(p)) = 0
<1>1. Promise!In(p) = {}
  BY DEF Promise!In
<1> QED
  BY <1>1, FS_EmptySet, Zenon

\* One connection moves along Dispatch.
LEMMA MoveNext ==
    ASSUME NEW c \in Conns, model' = model, \A d \in Conns : d # c => phase'[d] = phase[d]
    PROVE  /\ phase[c] = "none" /\ phase'[c] = "waiting" => Promise!Next
           /\ phase[c] = "waiting" /\ phase'[c] = "held" /\ Cardinality(Promise!In("held")) < HeldCap[model]
                 => Promise!Next
           /\ phase[c] \in {"held", "waiting"} /\ phase'[c] = "serving"
                    /\ Cardinality(Promise!In("serving")) < ServeCap[model]
                 => Promise!Next
           /\ phase[c] = "held" /\ phase'[c] = "refused" => Promise!Next
           /\ phase[c] = "serving" /\ phase'[c] = "closed" => Promise!Next
<1>1. Promise!Move(c, phase[c], phase'[c])
  BY MoveStep
<1>2. phase[c] = "none" /\ phase'[c] = "waiting" => Promise!Connect(c)
  BY <1>1 DEF Promise!Connect
<1>3. phase[c] = "waiting" /\ phase'[c] = "held" /\ Cardinality(Promise!In("held")) < HeldCap[model]
         => Promise!Accept(c)
  BY <1>1, SameCardinality DEF Promise!Accept
<1>4. phase[c] \in {"held", "waiting"} /\ phase'[c] = "serving"
            /\ Cardinality(Promise!In("serving")) < ServeCap[model]
         => Promise!Start(c) \/ Promise!Take(c)
  BY <1>1, SameCardinality DEF Promise!Start, Promise!Take
<1>5. phase[c] = "held" /\ phase'[c] = "refused" => Promise!Refuse(c)
  BY <1>1 DEF Promise!Refuse
<1>6. phase[c] = "serving" /\ phase'[c] = "closed" => Promise!Finish(c)
  BY <1>1 DEF Promise!Finish
<1> QED
  BY <1>2, <1>3, <1>4, <1>5, <1>6 DEF Promise!Next

\* The connections of a process that ended are a step of Dispatch.
LEMMA ResetNext ==
    ASSUME NEW S \in SUBSET Conns, model' = model,
           \A c \in S : phase[c] \in {"waiting", "held", "serving"},
           \A c \in Conns : phase'[c] = IF c \notin S THEN phase[c]
                                        ELSE IF phase[c] = "serving" THEN "closed" ELSE "refused"
    PROVE  Promise!Next
BY ResetStep DEF Promise!Next

\* Fewer than NumWorkers connections are assigned to workers one of which has none.
LEMMA WorkerFree ==
    ASSUME NEW g \in [Workers -> Conns \union {NoConn}], NEW w \in Workers, g[w] = NoConn,
           NEW T \in SUBSET Conns, \A c \in T : \E v \in Workers : g[v] = c
    PROVE  Cardinality(T) < NumWorkers
<1> DEFINE f == [c \in T |-> CHOOSE v \in Workers : g[v] = c]
<1>1. \A c \in T : f[c] \in Workers \ {w} /\ g[f[c]] = c
  BY ListeningAssumption
<1>2. f \in Injection(T, Workers \ {w})
  <2>1. f \in [T -> Workers \ {w}]
    BY <1>1
  <2>2. \A c, d \in T : f[c] = f[d] => c = d
    BY <1>1
  <2> QED
    BY <2>1, <2>2 DEF Injection, IsInjective
<1>3. IsFiniteSet(Workers) /\ Cardinality(Workers) = NumWorkers
  BY FS_Interval, ListeningAssumption DEF Workers
<1>4. IsFiniteSet(Workers \ {w}) /\ Cardinality(Workers \ {w}) = NumWorkers - 1
  BY <1>3, FS_RemoveElement
<1>5. Cardinality(T) <= NumWorkers - 1
  BY <1>2, <1>4, FS_Injection
<1>6. IsFiniteSet(T)
  BY FS_Subset, ListeningAssumption
<1>7. Cardinality(T) \in Nat
  BY <1>6, FS_CardinalityType
<1> QED
  BY <1>5, <1>7, ListeningAssumption

\* The channel holds no more connections than its length.
LEMMA ChanCount ==
    ASSUME chan \in Seq(Conns), NEW T \in SUBSET Conns,
           \A c \in T : \E i \in 1 .. Len(chan) : chan[i] = c
    PROVE  Cardinality(T) <= Len(chan)
<1> DEFINE f == [c \in T |-> CHOOSE i \in 1 .. Len(chan) : chan[i] = c]
<1>1. \A c \in T : f[c] \in 1 .. Len(chan) /\ chan[f[c]] = c
  OBVIOUS
<1>2. f \in Injection(T, 1 .. Len(chan))
  <2>1. f \in [T -> 1 .. Len(chan)]
    BY <1>1
  <2>2. \A c, d \in T : f[c] = f[d] => c = d
    BY <1>1
  <2> QED
    BY <2>1, <2>2 DEF Injection, IsInjective
<1>3. Len(chan) \in Nat
  OBVIOUS
<1>4. IsFiniteSet(1 .. Len(chan)) /\ Cardinality(1 .. Len(chan)) = Len(chan)
  BY <1>3, FS_Interval
<1> HIDE DEF f
<1> QED
  BY <1>2, <1>4, FS_Injection

\* iterative: accept, serve_connection and its return are Accept, Start, Finish.
LEMMA IterRefines ==
    ASSUME IInv, IInv', IterNext, UNCHANGED <<tpcOnly, poolOnly, forkOnly, preOnly, multiOnly>>
    PROVE  Promise!Next \/ UNCHANGED <<model, phase>>
<1> USE ListeningAssumption
<1>1. model = "iterative" /\ model' = model
  BY DEF IterNext, IterLoop, Connect, IterAccept, AcceptThen, IterCall, IterReturn, At
<1>2. /\ \A c \in Conns : phase[c] = IterPhase(c)
      /\ (\A c \in Conns : phase[c] = IterPhase(c))'
  <2>1. (IInv /\ model = "iterative" => \A c \in Conns : phase[c] = IterPhase(c))'
    BY IterPhases, PTL
  <2> QED
    BY <1>1, <2>1, IterPhases
<1>3. ListenTypeOK /\ Apart /\ IterI
  BY <1>1 DEF IInv, TypeOK
<1> USE DEF ListenTypeOK, Apart, IterI, At, Goto
<1>4. CASE Connect("iterative")
  <2>1. PICK c \in fresh : fresh' = fresh \ {c} /\ backlog' = backlog \union {c}
    BY <1>4 DEF Connect
  <2>2. phase[c] = "none" /\ phase'[c] = "waiting" /\ \A d \in Conns : d # c => phase'[d] = phase[d]
    BY <1>2, <1>3, <1>4, <2>1 DEF IterPhase, Connect
  <2> QED
    BY <1>1, <1>3, <2>2, MoveNext
<1>5. CASE IterAccept
  <2>1. PICK c \in backlog : hand' = c /\ backlog' = backlog \ {c}
    BY <1>5 DEF IterAccept, AcceptThen
  <2>2. phase[c] = "waiting" /\ phase'[c] = "held" /\ \A d \in Conns : d # c => phase'[d] = phase[d]
    BY <1>2, <1>3, <1>5, <2>1 DEF IterPhase, IterAccept, AcceptThen
  <2>3. \A d \in Conns : phase[d] # "held"
    BY <1>2, <1>3, <1>5 DEF IterPhase, IterAccept, AcceptThen
  <2>4. Cardinality(Promise!In("held")) < HeldCap[model]
    BY <1>1, <2>3, NoneIn, Caps
  <2> QED
    BY <1>1, <1>3, <2>2, <2>4, MoveNext
<1>6. CASE IterCall
  <2>1. hand \in Conns
    BY <1>3, <1>6 DEF IterCall
  <2>2. phase[hand] = "held" /\ phase'[hand] = "serving" /\ \A d \in Conns : d # hand => phase'[d] = phase[d]
    BY <1>2, <1>3, <1>6, <2>1 DEF IterPhase, IterCall, CallServe
  <2>3. \A d \in Conns : phase[d] # "serving"
    BY <1>2, <1>3, <1>6 DEF IterPhase, IterCall
  <2>4. Cardinality(Promise!In("serving")) < ServeCap[model]
    BY <1>1, <2>3, NoneIn, Caps
  <2> QED
    BY <1>1, <2>1, <2>2, <2>4, MoveNext
<1>7. CASE IterReturn
  <2>1. hand \in Conns
    BY <1>3, <1>7 DEF IterReturn
  <2>2. phase[hand] = "serving" /\ phase'[hand] = "closed" /\ \A d \in Conns : d # hand => phase'[d] = phase[d]
    BY <1>2, <1>3, <1>7, <2>1 DEF IterPhase, IterReturn
  <2> QED
    BY <1>1, <2>1, <2>2, MoveNext
<1> QED
  BY <1>4, <1>5, <1>6, <1>7 DEF IterNext, IterLoop

\* thread-per-conn: likewise, with the permit keeping Start within its cap; a
\* spawn that panics resets everything.
LEMMA TpcRefines ==
    ASSUME IInv, IInv', TpcNext, UNCHANGED <<poolOnly, forkOnly, preOnly, multiOnly>>
    PROVE  Promise!Next \/ UNCHANGED <<model, phase>>
<1> USE ListeningAssumption
<1>1. model = "thread-per-conn" /\ model' = model
  BY DEF IInv, OthersIdle, TpcNext, TpcAcceptor, Connect, TpcAccept, AcceptThen, Acquire, AcquireWaits,
     AcquireWoken, TpcSpawn, TpcSpawnPanics, ProcessEnds, TpcThread, TpcReturn, Release, At, listenVars
<1>2. /\ \A c \in Conns : phase[c] = TpcPhase(c)
      /\ (\A c \in Conns : phase[c] = TpcPhase(c))'
  <2>1. (IInv /\ model = "thread-per-conn" => \A c \in Conns : phase[c] = TpcPhase(c))'
    BY TpcPhases, PTL
  <2> QED
    BY <1>1, <2>1, TpcPhases
<1>3. ListenTypeOK /\ TpcTypeOK /\ Apart /\ TpcI
  BY <1>1 DEF IInv, TypeOK
<1> USE DEF ListenTypeOK, TpcTypeOK, Apart, TpcI, At, Goto
<1>4. CASE Connect("thread-per-conn") /\ UNCHANGED <<permits, thread>>
  <2>1. PICK c \in fresh : fresh' = fresh \ {c} /\ backlog' = backlog \union {c}
    BY <1>4 DEF Connect
  <2>2. phase[c] = "none" /\ phase'[c] = "waiting" /\ \A d \in Conns : d # c => phase'[d] = phase[d]
    BY <1>2, <1>3, <1>4, <2>1 DEF TpcPhase, Connect
  <2> QED
    BY <1>1, <1>3, <2>2, MoveNext
<1>5. CASE TpcAccept
  <2>1. PICK c \in backlog : hand' = c /\ backlog' = backlog \ {c}
    BY <1>5 DEF TpcAccept, AcceptThen
  <2>2. phase[c] = "waiting" /\ phase'[c] = "held" /\ \A d \in Conns : d # c => phase'[d] = phase[d]
    BY <1>2, <1>3, <1>5, <2>1 DEF TpcPhase, TpcAccept, AcceptThen
  <2>3. \A d \in Conns : phase[d] # "held"
    BY <1>2, <1>3, <1>5 DEF TpcPhase, TpcAccept, AcceptThen
  <2>4. Cardinality(Promise!In("held")) < HeldCap[model]
    BY <1>1, <2>3, NoneIn, Caps
  <2> QED
    BY <1>1, <1>3, <2>2, <2>4, MoveNext
<1>6. CASE Acquire \/ AcquireWaits \/ AcquireWoken
  <2>1. UNCHANGED <<fresh, backlog, hand, calls, thread>>
    BY <1>6 DEF Acquire, AcquireWaits, AcquireWoken
  <2> QED
    BY <1>1, <1>2, <2>1, StutterStep DEF TpcPhase
<1>7. CASE TpcSpawn
  <2>1. hand \in Conns
    BY <1>3, <1>7 DEF TpcSpawn
  <2>2. phase[hand] = "held" /\ phase'[hand] = "serving" /\ \A d \in Conns : d # hand => phase'[d] = phase[d]
    BY <1>2, <1>3, <1>7, <2>1 DEF TpcPhase, TpcSpawn, CallServe
  <2>3. Promise!In("serving") \in SUBSET TpcBusy
    BY <1>2 DEF Promise!In, TpcPhase, TpcBusy, TpcThreads
  <2>4. Cardinality(Promise!In("serving")) <= Cardinality(TpcBusy)
    BY <2>3, TpcBusyFinite, FS_Subset
  <2>5. Cardinality(Promise!In("serving")) \in Nat
    BY <2>3, TpcBusyFinite, FS_Subset, FS_CardinalityType
  <2>6. Cardinality(Promise!In("serving")) < ServeCap[model]
    BY <1>1, <1>3, <1>7, <2>4, <2>5, TpcBusyFinite, Caps DEF TpcSpawn
  <2> QED
    BY <1>1, <2>1, <2>2, <2>6, MoveNext
<1>8. CASE TpcSpawnPanics
  <2> DEFINE S == {c \in Conns : phase[c] \in {"waiting", "held", "serving"}}
  <2>1. \A c \in Conns : phase'[c] = IF c \notin S THEN phase[c]
                                     ELSE IF phase[c] = "serving" THEN "closed" ELSE "refused"
    BY <1>2, <1>3, <1>8 DEF TpcPhase, TpcSpawnPanics, ProcessEnds
  <2> QED
    BY <1>1, <2>1, ResetNext
<1>9. ASSUME NEW c \in Conns, TpcReturn(c) PROVE Promise!Next
  <2>1. phase[c] = "serving" /\ phase'[c] = "closed" /\ \A d \in Conns : d # c => phase'[d] = phase[d]
    BY <1>2, <1>3, <1>9 DEF TpcPhase, TpcReturn, listenVars
  <2> QED
    BY <1>1, <2>1, MoveNext
<1>10. ASSUME NEW c \in Conns, Release(c) PROVE UNCHANGED <<model, phase>>
  <2>1. \A d \in Conns : phase'[d] = phase[d]
    BY <1>2, <1>3, <1>10 DEF TpcPhase, Release
  <2> QED
    BY <1>1, <2>1, StutterStep
<1> QED
  BY <1>4, <1>5, <1>6, <1>7, <1>8, <1>9, <1>10 DEF TpcNext, TpcAcceptor, TpcThread

\* thread-pool: try_send keeps a stream held or refuses it, and a worker without
\* a job makes room for the Start of recv.
LEMMA PoolRefines ==
    ASSUME IInv, IInv', PoolNext, UNCHANGED <<tpcOnly, forkOnly, preOnly, multiOnly>>
    PROVE  Promise!Next \/ UNCHANGED <<model, phase>>
<1> USE ListeningAssumption
<1>1. model = "thread-pool" /\ model' = model
  BY DEF IInv, OthersIdle, PoolNext, PoolAcceptor, Connect, PoolSpawn, PoolAccept, AcceptThen, TrySendOk,
     TrySendFull, PoolSpawnPanics, ProcessEnds, worker_loop, RxLock, Recv, PoolReturn, At, listenVars
<1>2. /\ \A c \in Conns : phase[c] = PoolPhase(c)
      /\ (\A c \in Conns : phase[c] = PoolPhase(c))'
  <2>1. (IInv /\ model = "thread-pool" => \A c \in Conns : phase[c] = PoolPhase(c))'
    BY PoolPhases, PTL
  <2> QED
    BY <1>1, <2>1, PoolPhases
<1>3. ListenTypeOK /\ PoolTypeOK /\ Apart /\ PoolI
  BY <1>1 DEF IInv, TypeOK
<1> USE DEF ListenTypeOK, PoolTypeOK, Apart, PoolI, OneOwner, At, Goto, NoWorker
<1>4. CASE Connect("thread-pool") /\ UNCHANGED <<chan, rx, worker, job>>
  <2>1. PICK c \in fresh : fresh' = fresh \ {c} /\ backlog' = backlog \union {c}
    BY <1>4 DEF Connect
  <2>2. phase[c] = "none" /\ phase'[c] = "waiting" /\ \A d \in Conns : d # c => phase'[d] = phase[d]
    BY <1>2, <1>3, <1>4, <2>1 DEF PoolPhase, Connect
  <2> QED
    BY <1>1, <1>3, <2>2, MoveNext
<1>5. CASE PoolSpawn
  BY <1>1, <1>2, <1>5, StutterStep DEF PoolPhase, PoolSpawn
<1>6. CASE PoolAccept
  <2>1. PICK c \in backlog : hand' = c /\ backlog' = backlog \ {c}
    BY <1>6 DEF PoolAccept, AcceptThen
  <2>2. phase[c] = "waiting" /\ phase'[c] = "held" /\ \A d \in Conns : d # c => phase'[d] = phase[d]
    BY <1>2, <1>3, <1>6, <2>1 DEF PoolPhase, PoolAccept, AcceptThen
  <2>3. \A d \in Promise!In("held") : \E i \in 1 .. Len(chan) : chan[i] = d
    BY <1>2, <1>3, <1>6 DEF PoolPhase, PoolAccept, AcceptThen, Promise!In
  <2>4. Promise!In("held") \in SUBSET Conns
    BY DEF Promise!In
  <2>5. Cardinality(Promise!In("held")) <= Len(chan)
    BY <1>3, <2>3, <2>4, ChanCount
  <2>6. Cardinality(Promise!In("held")) \in Nat
    BY <2>4, FS_Subset, FS_CardinalityType
  <2>7. Cardinality(Promise!In("held")) < HeldCap[model]
    BY <1>1, <1>3, <2>5, <2>6, Caps DEF queue_capacity
  <2> QED
    BY <1>1, <1>3, <2>2, <2>7, MoveNext
<1>7. CASE TrySendOk
  <2>1. hand \in Conns
    BY <1>3, <1>7 DEF TrySendOk
  <2>2. /\ Len(chan') = Len(chan) + 1 /\ chan'[Len(chan) + 1] = hand
        /\ \A i \in 1 .. Len(chan) : chan'[i] = chan[i]
    BY <1>3, <1>7, <2>1, ChanAppend DEF TrySendOk
  <2>3. \A c : (\E i \in 1 .. Len(chan') : chan'[i] = c) <=> hand = c \/ \E i \in 1 .. Len(chan) : chan[i] = c
    <3>1. /\ \A i \in 1 .. Len(chan') : i = Len(chan) + 1 \/ i \in 1 .. Len(chan)
          /\ \A i \in 1 .. Len(chan) : i \in 1 .. Len(chan')
          /\ Len(chan) + 1 \in 1 .. Len(chan')
      BY <1>3, <2>2
    <3> QED
      BY <2>2, <3>1, Zenon
  <2>4. \A c \in Conns : phase'[c] = phase[c]
    BY <1>2, <1>3, <1>7, <2>3 DEF PoolPhase, TrySendOk
  <2> QED
    BY <1>1, <2>4, StutterStep
<1>8. CASE TrySendFull
  <2>1. hand \in Conns
    BY <1>3, <1>8 DEF TrySendFull
  <2>2. phase[hand] = "held" /\ phase'[hand] = "refused" /\ \A d \in Conns : d # hand => phase'[d] = phase[d]
    BY <1>2, <1>3, <1>8, <2>1 DEF PoolPhase, TrySendFull
  <2> QED
    BY <1>1, <2>1, <2>2, MoveNext
<1>9. ASSUME NEW w \in Workers, RxLock(w) PROVE UNCHANGED <<model, phase>>
  <2>1. \A c \in Conns : phase'[c] = phase[c]
    BY <1>2, <1>9 DEF PoolPhase, RxLock, listenVars
  <2> QED
    BY <1>1, <2>1, StutterStep
<1>10. ASSUME NEW w \in Workers, Recv(w) PROVE Promise!Next
  <2> DEFINE h == Head(chan)
  <2>1. /\ h \in Conns /\ h = chan[1] /\ Len(chan) \in Nat \ {0} /\ Len(chan') = Len(chan) - 1
        /\ \A i \in 1 .. Len(chan) - 1 : chan'[i] = chan[i + 1]
    BY <1>3, <1>10, ChanTail DEF Recv
  <2>2. /\ UNCHANGED <<fresh, backlog, hand>> /\ job[w] = NoConn /\ job' = [job EXCEPT ![w] = h]
        /\ calls' = [calls EXCEPT ![h] = @ + 1]
    BY <1>3, <1>10 DEF Recv, CallServe
  <2> HIDE DEF h
  <2>3. \A c \in Conns : (\E i \in 1 .. Len(chan) : chan[i] = c)
                            <=> c = h \/ \E i \in 1 .. Len(chan') : chan'[i] = c
    <3>1. \A i \in 1 .. Len(chan') : i + 1 \in 1 .. Len(chan) /\ chan'[i] = chan[i + 1]
      BY <2>1
    <3>2. \A i \in 1 .. Len(chan) : i = 1 \/ (i - 1 \in 1 .. Len(chan') /\ chan'[i - 1] = chan[i])
      BY <2>1
    <3>3. 1 \in 1 .. Len(chan)
      BY <2>1
    <3> QED
      BY <2>1, <3>1, <3>2, <3>3, Zenon
  <2>4. /\ h \notin fresh \union backlog /\ h # hand /\ \A v \in Workers : job[v] # h
        /\ ~\E i \in 1 .. Len(chan') : chan'[i] = h
    <3>1. \A i \in 1 .. Len(chan') : i + 1 \in 1 .. Len(chan) /\ i + 1 # 1 /\ chan'[i] = chan[i + 1]
      BY <2>1
    <3> QED
      BY <1>3, <2>1, <3>1
  <2>5. \A c \in Conns : c # h => ((\E v \in Workers : job'[v] = c) <=> \E v \in Workers : job[v] = c)
    BY <1>3, <2>2
  <2>6. \E v \in Workers : job'[v] = h
    BY <1>3, <2>2
  <2>7. phase[h] = "held"
    BY <1>2, <2>1, <2>3, <2>4 DEF PoolPhase
  <2>8. phase'[h] = "serving"
    BY <1>2, <2>1, <2>2, <2>4, <2>6 DEF PoolPhase
  <2>9. \A c \in Conns : c # h => phase'[c] = phase[c]
    <3>1. \A c \in Conns : c # h => calls'[c] = calls[c]
      BY <1>3, <2>2
    <3> QED
      BY <1>2, <2>2, <2>3, <2>5, <3>1 DEF PoolPhase
  <2>10. \A c \in Promise!In("serving") : \E v \in Workers : job[v] = c
    BY <1>2 DEF PoolPhase, Promise!In
  <2>11. Promise!In("serving") \in SUBSET Conns
    BY DEF Promise!In
  <2>12. job \in [Workers -> Conns \union {NoConn}] /\ job[w] = NoConn
    BY <1>3, <2>2
  <2>13. Cardinality(Promise!In("serving")) < NumWorkers
    BY <2>10, <2>11, <2>12, WorkerFree
  <2> QED
    BY <1>1, <2>1, <2>7, <2>8, <2>9, <2>13, MoveNext, Caps
<1>11. ASSUME NEW w \in Workers, PoolReturn(w) PROVE Promise!Next
  <2> DEFINE c == job[w]
  <2>1. /\ c \in Conns /\ UNCHANGED <<fresh, backlog, hand, calls, chan>> /\ job' = [job EXCEPT ![w] = NoConn]
        /\ calls[c] > 0 /\ c # hand /\ c \notin fresh \union backlog /\ \A i \in 1 .. Len(chan) : chan[i] # c
        /\ \A v \in Workers : v # w => job[v] # c
    BY <1>3, <1>11 DEF PoolReturn, listenVars
  <2>2. \E v \in Workers : job[v] = c
    OBVIOUS
  <2> HIDE DEF c
  <2>3. phase[c] = "serving"
    BY <1>2, <2>1, <2>2 DEF PoolPhase
  <2>4. /\ ~\E v \in Workers : job'[v] = c
        /\ \A d \in Conns : d # c => ((\E v \in Workers : job'[v] = d) <=> \E v \in Workers : job[v] = d)
    BY <1>3, <2>1 DEF c
  <2>5. phase'[c] = "closed"
    BY <1>2, <2>1, <2>4 DEF PoolPhase
  <2>6. \A d \in Conns : d # c => phase'[d] = phase[d]
    BY <1>2, <2>1, <2>4 DEF PoolPhase
  <2> QED
    BY <1>1, <2>1, <2>3, <2>5, <2>6, MoveNext
<1>12. CASE PoolSpawnPanics
  <2> DEFINE S == backlog
  <2>1. hand = NoConn /\ chan = << >> /\ \A w \in Workers : job[w] = NoConn
    BY <1>3, <1>12 DEF PoolSpawnPanics
  <2>2. UNCHANGED <<fresh, calls, chan, job, hand>> /\ backlog' = {}
    BY <1>12, <2>1 DEF PoolSpawnPanics, ProcessEnds
  <2>3. \A c \in S : c \in Conns /\ phase[c] = "waiting"
    BY <1>2, <1>3 DEF PoolPhase
  <2>4. \A c \in Conns : phase'[c] = IF c \in S THEN "refused" ELSE phase[c]
    BY <1>2, <1>3, <2>1, <2>2 DEF PoolPhase
  <2> QED
    BY <1>1, <2>3, <2>4, ResetNext
<1> QED
  BY <1>4, <1>5, <1>6, <1>7, <1>8, <1>9, <1>10, <1>11, <1>12 DEF PoolNext, PoolAcceptor, worker_loop

\* forking: fork is Start within the cap because the slot was reserved, and the
\* last copy of the stream to be closed, the parent's or the child's, is Finish.
LEMMA ForkRefines ==
    ASSUME IInv, IInv', ForkNext, UNCHANGED <<tpcOnly, poolOnly, preOnly, multiOnly>>
    PROVE  Promise!Next \/ UNCHANGED <<model, phase>>
<1> USE ListeningAssumption
<1>1. model = "forking" /\ model' = model
  BY DEF IInv, OthersIdle, TypeOK, ForkNext, ForkParent, Connect, ForkAccept, AcceptThen, ForkRefuse, ForkCheck,
     Reserve, Fork, ForkFails, DropStream, SigchldDelivered, Reap, HandlerReturns, ForkChild, ChildStarts,
     ChildExits, ForkParentKilled, Parent, At, listenVars
<1>2. /\ \A c \in Conns : phase[c] = ForkPhase(c)
      /\ (\A c \in Conns : phase[c] = ForkPhase(c))'
  <2>1. (IInv /\ model = "forking" => \A c \in Conns : phase[c] = ForkPhase(c))'
    BY ForkPhases, PTL
  <2> QED
    BY <1>1, <2>1, ForkPhases
<1>3. ListenTypeOK /\ ForkTypeOK /\ Apart /\ ForkI
  BY <1>1 DEF IInv, TypeOK
<1> USE DEF ListenTypeOK, ForkTypeOK, Apart, ForkI, Parent, At, Goto, reaperVars
<1>4. CASE Connect("forking") /\ UNCHANGED <<LIVE_CHILDREN, reaperVars>>
  <2>1. PICK c \in fresh : fresh' = fresh \ {c} /\ backlog' = backlog \union {c}
    BY <1>4 DEF Connect
  <2>2. phase[c] = "none" /\ phase'[c] = "waiting" /\ \A d \in Conns : d # c => phase'[d] = phase[d]
    BY <1>2, <1>3, <1>4, <2>1 DEF ForkPhase, Connect
  <2> QED
    BY <1>1, <1>3, <2>2, MoveNext
<1>5. CASE ForkAccept
  <2>1. PICK c \in backlog : hand' = c /\ backlog' = backlog \ {c}
    BY <1>5 DEF ForkAccept, AcceptThen
  <2>2. phase[c] = "waiting" /\ phase'[c] = "held" /\ \A d \in Conns : d # c => phase'[d] = phase[d]
    BY <1>2, <1>3, <1>5, <2>1 DEF ForkPhase, ForkAccept, AcceptThen
  <2>3. \A d \in Conns : phase[d] # "held"
    BY <1>2, <1>3, <1>5 DEF ForkPhase, ForkAccept, AcceptThen
  <2>4. Cardinality(Promise!In("held")) < HeldCap[model]
    BY <1>1, <2>3, NoneIn, Caps
  <2> QED
    BY <1>1, <1>3, <2>2, <2>4, MoveNext
<1>6. CASE ForkRefuse
  <2>1. hand \in Conns
    BY <1>3, <1>6 DEF ForkRefuse
  <2>2. phase[hand] = "held" /\ phase'[hand] = "refused" /\ \A d \in Conns : d # hand => phase'[d] = phase[d]
    BY <1>2, <1>3, <1>6, <2>1 DEF ForkPhase, ForkRefuse
  <2> QED
    BY <1>1, <2>1, <2>2, MoveNext
<1>7. CASE ForkCheck \/ Reserve \/ ForkFails \/ SigchldDelivered \/ HandlerReturns
  <2>1. UNCHANGED <<fresh, backlog, hand, calls, child>>
    BY <1>7 DEF ForkCheck, Reserve, ForkFails, SigchldDelivered, HandlerReturns, listenVars
  <2> QED
    BY <1>1, <1>2, <2>1, StutterStep DEF ForkPhase
<1>8. CASE Fork
  <2>1. hand \in Conns
    BY <1>3, <1>8 DEF Fork
  <2>2. phase[hand] = "held" /\ phase'[hand] = "serving" /\ \A d \in Conns : d # hand => phase'[d] = phase[d]
    BY <1>2, <1>3, <1>8, <2>1 DEF ForkPhase, Fork, CallServe
  <2>3. Promise!In("serving") \in SUBSET Unreaped
    BY <1>2, <1>3, <1>8 DEF Promise!In, ForkPhase, Unreaped, Live, InChild, Fork
  <2>4. Cardinality(Promise!In("serving")) <= Cardinality(Unreaped)
    BY <2>3, UnreapedFinite, FS_Subset
  <2>5. Cardinality(Promise!In("serving")) \in Nat
    BY <2>3, UnreapedFinite, FS_Subset, FS_CardinalityType
  <2>6. Cardinality(Promise!In("serving")) < ServeCap[model]
    BY <1>1, <1>3, <1>8, <2>4, <2>5, UnreapedFinite, Caps DEF Fork
  <2> QED
    BY <1>1, <2>1, <2>2, <2>6, MoveNext
<1>9. CASE DropStream
  <2>1. hand \in Conns
    BY <1>3, <1>9 DEF DropStream
  <2>2. \A d \in Conns : d # hand => phase'[d] = phase[d]
    BY <1>2, <1>3, <1>9, <2>1 DEF ForkPhase, DropStream
  <2>3. CASE child[hand] = "none"
    <3>1. phase[hand] = "held" /\ phase'[hand] = "refused"
      BY <1>2, <1>3, <1>9, <2>1, <2>3 DEF ForkPhase, DropStream
    <3> QED
      BY <1>1, <2>1, <2>2, <3>1, MoveNext
  <2>4. CASE child[hand] \in {"new", "serve"}
    <3>1. phase'[hand] = phase[hand]
      BY <1>2, <1>3, <1>9, <2>1, <2>4 DEF ForkPhase, DropStream
    <3> QED
      BY <1>1, <2>2, <3>1, StutterStep
  <2>5. CASE child[hand] \in {"zombie", "gone"}
    <3>1. phase[hand] = "serving" /\ phase'[hand] = "closed"
      BY <1>2, <1>3, <1>9, <2>1, <2>5 DEF ForkPhase, DropStream
    <3> QED
      BY <1>1, <2>1, <2>2, <3>1, MoveNext
  <2> QED
    BY <1>3, <2>1, <2>3, <2>4, <2>5
<1>10. CASE Reap
  <2>1. \A c \in Conns : phase'[c] = phase[c]
    BY <1>2, <1>3, <1>10 DEF ForkPhase, Reap, Zombies, InChild, listenVars
  <2> QED
    BY <1>1, <2>1, StutterStep
<1>11. ASSUME NEW c \in Conns, ChildStarts(c) PROVE Promise!Next \/ UNCHANGED <<model, phase>>
  <2> DEFINE S == backlog \ backlog'
  <2>1. S \in SUBSET Conns /\ \A d \in S : phase[d] = "waiting"
    BY <1>2, <1>3 DEF ForkPhase
  <2>2. \A d \in Conns : phase'[d] = IF d \in S THEN "refused" ELSE phase[d]
    BY <1>2, <1>3, <1>11 DEF ForkPhase, ChildStarts
  <2> HIDE DEF S
  <2> QED
    BY <1>1, <2>1, <2>2, ResetNext
<1>12. ASSUME NEW c \in Conns, ChildExits(c) PROVE Promise!Next \/ UNCHANGED <<model, phase>>
  <2>1. \A d \in Conns : d # c => phase'[d] = phase[d]
    BY <1>2, <1>3, <1>12 DEF ForkPhase, ChildExits, listenVars
  <2>2. CASE hand = c
    <3>1. phase'[c] = phase[c]
      BY <1>2, <1>3, <1>12, <2>2 DEF ForkPhase, ChildExits, listenVars
    <3> QED
      BY <1>1, <2>1, <3>1, StutterStep
  <2>3. CASE hand # c
    <3>1. phase[c] = "serving" /\ phase'[c] = "closed"
      BY <1>2, <1>3, <1>12, <2>3 DEF ForkPhase, ChildExits, listenVars
    <3> QED
      BY <1>1, <2>1, <3>1, MoveNext
  <2> QED
    BY <2>2, <2>3
<1>13. CASE ForkParentKilled
  <2> DEFINE S == {c \in Conns : phase'[c] # phase[c]}
  <2>1. \A c \in S : phase[c] \in {"waiting", "held", "serving"}
    BY <1>2, <1>3, <1>13 DEF ForkPhase, ForkParentKilled
  <2>2. \A c \in S : phase'[c] = IF phase[c] = "serving" THEN "closed" ELSE "refused"
    BY <1>2, <1>3, <1>13 DEF ForkPhase, ForkParentKilled
  <2>3. S \in SUBSET Conns /\ \A c \in Conns : c \notin S => phase'[c] = phase[c]
    OBVIOUS
  <2> HIDE DEF S
  <2> QED
    BY <1>1, <2>1, <2>2, <2>3, ResetNext
<1> QED
  BY <1>4, <1>5, <1>6, <1>7, <1>8, <1>9, <1>10, <1>11, <1>12, <1>13 DEF ForkNext, ForkParent, ForkChild

\* preforked: a worker without a stream makes room for the Take of its accept,
\* and a worker that exits resets its backlog.
LEMMA PreRefines ==
    ASSUME IInv, IInv', PreNext, UNCHANGED <<tpcOnly, poolOnly, forkOnly, multiOnly>>
    PROVE  Promise!Next \/ UNCHANGED <<model, phase>>
<1> USE ListeningAssumption
<1>1. model = "preforked" /\ model' = model
  BY DEF IInv, OthersIdle, PreNext, PreParent, PreFork, PreForked, PreStop, forward_signal, reap, PreReturn,
     PreForkFails, PreConnect, PreSignal, PreParentKilled, child_main, Prctl, Bind, Check, CheckStop,
     WorkerAccept, AcceptTimeout, WorkerReturn, BindFails, WorkerExits, Worker, ProcessEnds, At, listenVars
<1>2. /\ \A c \in Conns : phase[c] = PrePhase(c)
      /\ (\A c \in Conns : phase[c] = PrePhase(c))'
  <2>1. (IInv /\ model = "preforked" => \A c \in Conns : phase[c] = PrePhase(c))'
    BY PrePhases, PTL
  <2> QED
    BY <1>1, <2>1, PrePhases
<1>3. ListenTypeOK /\ PreTypeOK /\ Apart /\ PreI
  BY <1>1 DEF IInv, TypeOK
<1> USE DEF ListenTypeOK, PreTypeOK, Apart, PreI, WorkerGoto, Worker
<1>4. CASE UNCHANGED <<fresh, calls, pbacklog, serving>>
  BY <1>1, <1>2, <1>4, StutterStep DEF PrePhase
<1>5. CASE PreConnect
  <2>1. PICK w \in Workers, c \in fresh : fresh' = fresh \ {c} /\ pbacklog' = [pbacklog EXCEPT ![w] = @ \union {c}]
    BY <1>5 DEF PreConnect
  <2>2. UNCHANGED <<calls, serving>>
    BY <1>5 DEF PreConnect
  <2>3. /\ \E v \in Workers : c \in pbacklog'[v]
        /\ \A d \in Conns : d # c => ((\E v \in Workers : d \in pbacklog'[v]) <=> \E v \in Workers : d \in pbacklog[v])
    BY <1>3, <2>1
  <2>4. phase[c] = "none" /\ phase'[c] = "waiting" /\ \A d \in Conns : d # c => phase'[d] = phase[d]
    BY <1>2, <1>3, <2>1, <2>2, <2>3 DEF PrePhase
  <2> QED
    BY <1>1, <1>3, <2>4, MoveNext
<1>6. ASSUME NEW w \in Workers, CheckStop(w) \/ BindFails(w) PROVE Promise!Next
  <2>1. UNCHANGED <<fresh, calls, serving>> /\ pbacklog' = [pbacklog EXCEPT ![w] = {}]
    BY <1>6 DEF CheckStop, BindFails, WorkerExits
  <2> DEFINE S == pbacklog[w]
  <2>2. S \in SUBSET Conns
    BY <1>3
  <2>3. \A c \in Conns : (\E v \in Workers : c \in pbacklog'[v]) <=> (\E v \in Workers : c \in pbacklog[v]) /\ c \notin S
    BY <1>3, <2>1
  <2>4. \A c \in S : phase[c] = "waiting"
    BY <1>2, <1>3 DEF PrePhase
  <2>5. \A c \in S : calls[c] = 0 /\ c \notin fresh /\ \A v \in Workers : serving[v] # c
    BY <1>3
  <2> HIDE DEF S
  <2>6. \A c \in Conns : phase'[c] = IF c \in S THEN "refused" ELSE phase[c]
    BY <1>2, <2>1, <2>3, <2>5 DEF PrePhase
  <2> QED
    BY <1>1, <2>2, <2>4, <2>6, ResetNext
<1>7. ASSUME NEW w \in Workers, WorkerAccept(w) PROVE Promise!Next
  <2>1. PICK c \in pbacklog[w] : /\ pbacklog' = [pbacklog EXCEPT ![w] = @ \ {c}]
                                 /\ serving' = [serving EXCEPT ![w] = c]
                                 /\ calls' = [calls EXCEPT ![c] = @ + 1]
    BY <1>7 DEF WorkerAccept, CallServe
  <2>2. c \in Conns /\ c \notin fresh /\ fresh' = fresh /\ \A v \in Workers : serving[v] # c
    BY <1>3, <1>7 DEF WorkerAccept
  <2>3. /\ \A v \in Workers : c \notin pbacklog'[v]
        /\ \A d \in Conns : d # c => ((\E v \in Workers : d \in pbacklog'[v]) <=> \E v \in Workers : d \in pbacklog[v])
    BY <1>3, <2>1
  <2>4. serving \in [Workers -> Conns \union {NoConn}] /\ serving[w] = NoConn
    BY <1>3, <1>7 DEF WorkerAccept
  <2>5. /\ \E v \in Workers : serving'[v] = c
        /\ \A d \in Conns : d # c => ((\E v \in Workers : serving'[v] = d) <=> \E v \in Workers : serving[v] = d)
    BY <2>1, <2>4
  <2>6. \A d \in Conns : d # c => calls'[d] = calls[d]
    BY <1>3, <2>1
  <2>7. phase[c] = "waiting" /\ phase'[c] = "serving"
    BY <1>2, <2>1, <2>2, <2>3, <2>5 DEF PrePhase
  <2>8. \A d \in Conns : d # c => phase'[d] = phase[d]
    BY <1>2, <2>2, <2>3, <2>5, <2>6 DEF PrePhase
  <2>9. \A d \in Promise!In("serving") : \E v \in Workers : serving[v] = d
    BY <1>2 DEF PrePhase, Promise!In
  <2>10. Promise!In("serving") \in SUBSET Conns
    BY DEF Promise!In
  <2>11. Cardinality(Promise!In("serving")) < NumWorkers
    BY <2>4, <2>9, <2>10, WorkerFree
  <2> QED
    BY <1>1, <2>2, <2>7, <2>8, <2>11, MoveNext, Caps
<1>8. ASSUME NEW w \in Workers, WorkerReturn(w) PROVE Promise!Next
  <2>1. PICK c \in Conns : serving[w] = c
    BY <1>3, <1>8 DEF WorkerReturn
  <2>2. UNCHANGED <<fresh, calls, pbacklog>> /\ serving' = [serving EXCEPT ![w] = NoConn]
    BY <1>8 DEF WorkerReturn, listenVars
  <2>3. calls[c] > 0 /\ c \notin fresh /\ \A v \in Workers : c \notin pbacklog[v]
    BY <1>3, <2>1
  <2>4. /\ \A v \in Workers : serving'[v] # c
        /\ \A d \in Conns : d # c => ((\E v \in Workers : serving'[v] = d) <=> \E v \in Workers : serving[v] = d)
    BY <1>3, <2>1, <2>2
  <2>5. phase[c] = "serving" /\ phase'[c] = "closed" /\ \A d \in Conns : d # c => phase'[d] = phase[d]
    BY <1>2, <2>1, <2>2, <2>3, <2>4 DEF PrePhase
  <2> QED
    BY <1>1, <2>5, MoveNext
<1>9. CASE PreParent \/ PreForkFails \/ PreSignal \/ PreParentKilled
  <2>1. UNCHANGED <<fresh, calls, pbacklog, serving>>
    BY <1>9 DEF PreParent, PreFork, PreForked, PreStop, forward_signal, reap, PreReturn, PreForkFails, PreSignal,
       PreParentKilled, ProcessEnds, listenVars, workerVars
  <2> QED
    BY <1>4, <2>1
<1>10. ASSUME NEW w \in Workers, Prctl(w) \/ Bind(w) \/ Check(w) \/ AcceptTimeout(w)
       PROVE  UNCHANGED <<fresh, calls, pbacklog, serving>>
  BY <1>10 DEF Prctl, Bind, Check, AcceptTimeout, listenVars
<1> QED
  BY <1>4, <1>5, <1>6, <1>7, <1>8, <1>9, <1>10 DEF PreNext, child_main

\* The reactor models take no step of Dispatch.
LEMMA MultiRefines ==
    ASSUME IInv, IInv', MultiNext
    PROVE  UNCHANGED <<model, phase>>
<1>1. model \in Reactors /\ model' = model
  BY DEF IInv, OthersIdle, MultiNext, MultiMain, InstallShutdownFlag, ResetFlag, EventLoopStarts, MultiSpawn,
     Spawned, Join, MultiReturn, SpawnFails, MultiSignal, MultiEnds, ProcessEnds, MultiReactor, ReactorBinds,
     ReactorStops, ReactorFails, ReactorPanics, ReactorGoto, Main, listenVars, multiOnly
<1>2. (IInv /\ model \in Reactors => \A c \in Conns : phase[c] = "none")'
  BY MultiPhases, PTL
<1>3. model' \in Reactors
  BY <1>1
<1> QED
  BY <1>1, <1>2, <1>3, MultiPhases, StutterStep DEF Reactors

\* Nothing is connected to begin with, in any model.
LEMMA InitRefines == Init => Promise!Init
<1> SUFFICES ASSUME Init PROVE \A c \in Conns : phase[c] = "none"
  BY PhaseFunctions DEF Promise!Init
<1>1. IInv
  BY InitIInv
<1>2. fresh = Conns
  BY DEF Init, ListenInit
<1>3. /\ model = "iterative"       => \A c \in Conns : phase[c] = "none"
      /\ model = "thread-per-conn" => \A c \in Conns : phase[c] = "none"
      /\ model = "thread-pool"     => \A c \in Conns : phase[c] = "none"
  BY <1>1, <1>2, IterPhases, TpcPhases, PoolPhases DEF IterPhase, TpcPhase, PoolPhase
<1>4. /\ model = "forking"         => \A c \in Conns : phase[c] = "none"
      /\ model = "preforked"       => \A c \in Conns : phase[c] = "none"
      /\ model \in Reactors        => \A c \in Conns : phase[c] = "none"
  BY <1>1, <1>2, ForkPhases, PrePhases, MultiPhases DEF ForkPhase, PrePhase
<1> QED
  BY <1>1, <1>3, <1>4 DEF IInv, Models

\* Every step of every model is a step of Dispatch or changes no phase.
LEMMA StepRefines == IInv /\ IInv' /\ [Next]_vars => [Promise!Next]_<<model, phase>>
<1> SUFFICES ASSUME IInv, IInv', [Next]_vars PROVE Promise!Next \/ UNCHANGED <<model, phase>>
  OBVIOUS
<1>1. CASE Next
  BY <1>1, IterRefines, TpcRefines, PoolRefines, ForkRefines, PreRefines, MultiRefines, Zenon DEF Next
<1>2. CASE UNCHANGED vars
  <2>1. UNCHANGED <<model, status, pc, fresh, backlog, hand, calls, thread, chan, job, child, pbacklog, serving>>
    BY <1>2 DEF vars, listenVars, tpcOnly, poolOnly, forkOnly, preOnly, reaperVars, workerVars
  <2> QED
    BY <2>1 DEF phase, Waiting, Held, Served, At
<1> QED
  BY <1>1, <1>2

\* Every model main.rs can pick implements Dispatch, for any number of
\* connections, workers, permits and faults: serve_connection is called at most
\* once for a connection, only between its accept and its close, for no more
\* than ServeCap at once, and a connection not served is refused.
THEOREM ModelsImplementDispatch == Spec => ImplementsDispatch
BY InitRefines, StepRefines, ServerInvariant, PTL DEF Spec, ImplementsDispatch, Promise!Spec
=============================================================================
