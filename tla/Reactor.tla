------------------------------- MODULE Reactor -------------------------------
(***************************************************************************)
(* The single-threaded epoll server: Reactor of server/src/reactor.rs (the *)
(* event-loop model, one of it per multireactor thread) and run_epoll of   *)
(* server/src/models/epoll.rs (epoll-lt, epoll-et), which share drive_io   *)
(* of event_io.rs.  Trigger picks the discipline: "Edge" drains each       *)
(* socket to EAGAIN, "Level" does one system call per event.               *)
(*                                                                         *)
(* The loop thread is cut at its system calls (pc), so peers and the clock *)
(* act between any two of them.  The kernel's epoll is external: reg is    *)
(* the interest list and rdy the ready list.  An fd is queued on rdy when  *)
(* its socket changes in a way it is registered for, and when epoll_ctl    *)
(* registers it while ready; epoll_wait reports the queued fds that are    *)
(* ready, and forgets them (edge) or leaves them queued (level).           *)
(***************************************************************************)
EXTENDS Connection, FiniteSets, FiniteSetsExt

CONSTANTS
    Peers,      \* peers; each connects at most once
    NoPeer,     \* the peer of an fd that is not in the table
    Streams,    \* the streams a peer may send
    Trigger,    \* "Edge" or "Level"
    MaxConns,   \* cfg.max_connections
    NumFds,     \* fds the process may hold for connections
    SndBuf,     \* units a socket's send queue holds
    ReadChunk,  \* READ_CHUNK
    Depth,      \* most requests a peer has in flight
    MaxFaults   \* bound on injected epoll_ctl failures

ASSUME ReactorAssumption ==
    /\ NoPeer \notin Peers
    /\ Streams \subseteq Seq(Units)
    /\ Trigger \in {"Edge", "Level"}
    /\ {MaxConns, NumFds, SndBuf, ReadChunk, Depth} \subseteq Nat \ {0}
    /\ MaxFaults \in Nat

Listener  == 0
Fds       == 1 .. NumFds
Polled    == {Listener} \cup Fds
Drain     == Trigger = "Edge"
Interests == {"None", "Read", "Write"}
Actions   == {"WantRead", "WantWrite", "Close"}
Phases    == {"idle", "queued", "open", "closed"}
PCs       == {"wait", "batch", "accept", "io", "apply", "sweep", "stopped"}

VARIABLES
    \* the peers and their sockets
    stream,    \* what each peer sends in all
    phase,     \* "idle", "queued" (in the backlog), "open" (accepted), "closed"
    backlog,   \* the listener's accept queue
    sent,      \* units of the stream that have reached the receive queue
    taken,     \* units of the stream that read() has returned
    fin, rst,  \* the peer has shut its sending side, has reset the connection
    tx,        \* units of responses in the send queue
    answered,  \* history: responses written in full
    \* the kernel's epoll instance
    reg,       \* registered interest
    rdy,       \* ready list
    \* the loop
    conns,     \* fds in the ConnTable
    peer,      \* the peer at the other end of each fd in the ConnTable
    conn,      \* the Connection of each fd in the ConnTable
    wants,     \* the loop's record of registered interests
    listener_registered,
    events,    \* events of the last epoll_wait not handled yet
    pc, cur, action,  \* where the loop is, the fd it drives, drive_io's action
    shutdown,  \* the SHUTDOWN flag
    faults     \* epoll_ctl failures so far

sockVars  == <<stream, phase, backlog, sent, taken, fin, rst, tx, answered>>
epollVars == <<reg, rdy>>
tableVars == <<conns, peer, conn, wants>>
loopVars  == <<listener_registered, events, pc, cur, action, shutdown, faults>>
vars      == <<sockVars, epollVars, tableVars, loopVars>>

-----------------------------------------------------------------------------
(* Readiness *)

RequestsIn(c, n) == Cardinality({i \in Ends(stream[c]) : i <= n})

Readable(fd) == taken[peer[fd]] < sent[peer[fd]] \/ fin[peer[fd]]
Writable(fd) == tx[peer[fd]] < SndBuf

\* The event epoll reports for fd if it is registered with interest i.
EventFor(fd, i) ==
    IF i = "None"       THEN "None" ELSE
    IF fd = Listener    THEN (IF backlog # << >> THEN "Io" ELSE "None") ELSE
    IF rst[peer[fd]]    THEN "Hup" ELSE
    IF i = "Read"  /\ Readable(fd) THEN "Io" ELSE
    IF i = "Write" /\ Writable(fd) THEN "Io" ELSE "None"

Event(fd) == EventFor(fd, reg[fd])

\* The fds a change to c's socket queues, by the interests it concerns.
Wake(c, interests) == {fd \in conns : peer[fd] = c /\ reg[fd] \in interests}

-----------------------------------------------------------------------------
Init ==
    /\ stream \in [Peers -> Streams]
    /\ phase = [c \in Peers |-> "idle"]
    /\ backlog = << >>
    /\ sent = [c \in Peers |-> 0]
    /\ taken = [c \in Peers |-> 0]
    /\ fin = [c \in Peers |-> FALSE]
    /\ rst = [c \in Peers |-> FALSE]
    /\ tx = [c \in Peers |-> 0]
    /\ answered = [c \in Peers |-> 0]
    /\ reg = [fd \in Polled |-> IF fd = Listener THEN "Read" ELSE "None"]
    /\ rdy = {}
    /\ conns = {}
    /\ peer = [fd \in Fds |-> NoPeer]
    /\ conn = [fd \in Fds |-> New]
    /\ wants = [fd \in Fds |-> "None"]
    /\ listener_registered = TRUE
    /\ events = [fd \in Polled |-> "None"]
    /\ pc = "wait"
    /\ cur = Listener
    /\ action = "WantRead"
    /\ shutdown = FALSE
    /\ faults = 0

-----------------------------------------------------------------------------
(* Peers, the clock and the operator *)

Connect(c) ==
    /\ phase[c] = "idle" /\ pc # "stopped"
    /\ phase' = [phase EXCEPT ![c] = "queued"]
    /\ backlog' = Append(backlog, c)
    /\ rdy' = IF reg[Listener] = "None" THEN rdy ELSE rdy \cup {Listener}
    /\ UNCHANGED <<stream, sent, taken, fin, rst, tx, answered, reg, tableVars, loopVars>>

Connected(c) == phase[c] \in {"queued", "open"} /\ ~rst[c]

PeerSend(c) ==
    /\ Connected(c) /\ ~fin[c]
    /\ sent[c] < Len(stream[c])
    /\ RequestsIn(c, sent[c]) < answered[c] + Depth
    /\ sent' = [sent EXCEPT ![c] = @ + 1]
    /\ rdy' = rdy \cup Wake(c, {"Read"})
    /\ UNCHANGED <<stream, phase, backlog, taken, fin, rst, tx, answered, reg, tableVars, loopVars>>

PeerRead(c) ==
    /\ Connected(c)
    /\ tx[c] > 0
    /\ tx' = [tx EXCEPT ![c] = 0]
    /\ rdy' = rdy \cup Wake(c, {"Write"})
    /\ UNCHANGED <<stream, phase, backlog, sent, taken, fin, rst, answered, reg, tableVars, loopVars>>

PeerShutdown(c) ==
    /\ Connected(c) /\ ~fin[c]
    /\ fin' = [fin EXCEPT ![c] = TRUE]
    /\ rdy' = rdy \cup Wake(c, {"Read", "Write"})
    /\ UNCHANGED <<stream, phase, backlog, sent, taken, rst, tx, answered, reg, tableVars, loopVars>>

PeerReset(c) ==
    /\ Connected(c)
    /\ rst' = [rst EXCEPT ![c] = TRUE]
    /\ rdy' = rdy \cup Wake(c, {"Read", "Write"})
    /\ UNCHANGED <<stream, phase, backlog, sent, taken, fin, tx, answered, reg, tableVars, loopVars>>

Deadline(fd) ==
    /\ fd \in conns /\ ~IsExpired(conn[fd])
    /\ conn' = [conn EXCEPT ![fd] = PassDeadline(@)]
    /\ UNCHANGED <<sockVars, epollVars, conns, peer, wants, loopVars>>

Signal ==
    /\ ~shutdown
    /\ shutdown' = TRUE
    /\ UNCHANGED <<sockVars, epollVars, tableVars, listener_registered, events, pc, cur, action, faults>>

-----------------------------------------------------------------------------
(* The loop *)

\* drop_conn of every fd in S: EPOLL_CTL_DEL, forget the interest, close.
DropConns(S) ==
    /\ reg'   = [fd \in Polled |-> IF fd \in S THEN "None" ELSE reg[fd]]
    /\ rdy'   = rdy \ S
    /\ wants' = [fd \in Fds |-> IF fd \in S THEN "None" ELSE wants[fd]]
    /\ conns' = conns \ S
    /\ phase' = [c \in Peers |-> IF \E fd \in S \cap conns : peer[fd] = c
                                 THEN "closed" ELSE phase[c]]
    /\ peer'  = [fd \in Fds |-> IF fd \in S THEN NoPeer ELSE peer[fd]]
    /\ conn'  = [fd \in Fds |-> IF fd \in S THEN New ELSE conn[fd]]

\* Mutant: the shutdown flag is not looked at.
WaitIgnoresShutdown ==
    /\ pc = "wait"
    /\ events' = [fd \in Polled |-> IF fd \in rdy THEN Event(fd) ELSE "None"]
    /\ rdy' = IF Drain THEN {} ELSE {fd \in rdy : Event(fd) # "None"}
    /\ pc' = "batch"
    /\ UNCHANGED <<sockVars, reg, tableVars, listener_registered, cur, action, shutdown, faults>>

Wait ==
    /\ pc = "wait" /\ ~shutdown
    /\ events' = [fd \in Polled |-> IF fd \in rdy THEN Event(fd) ELSE "None"]
    /\ rdy' = IF Drain THEN {} ELSE {fd \in rdy : Event(fd) # "None"}
    /\ pc' = "batch"
    /\ UNCHANGED <<sockVars, reg, tableVars, listener_registered, cur, action, shutdown, faults>>

TakeListener ==
    /\ pc = "batch"
    /\ events[Listener] # "None"
    /\ events' = [events EXCEPT ![Listener] = "None"]
    /\ pc' = "accept"
    /\ UNCHANGED <<sockVars, epollVars, tableVars, listener_registered, cur, action, shutdown, faults>>

TakeHup(fd) ==
    /\ pc = "batch"
    /\ events[fd] = "Hup"
    /\ events' = [events EXCEPT ![fd] = "None"]
    /\ DropConns({fd})
    /\ UNCHANGED <<stream, backlog, sent, taken, fin, rst, tx, answered,
                   listener_registered, pc, cur, action, shutdown, faults>>

\* drive looks the fd up; drive_io starts in the direction of pending_write.
TakeIo(fd) ==
    /\ pc = "batch"
    /\ events[fd] = "Io"
    /\ events' = [events EXCEPT ![fd] = "None"]
    /\ pc' = IF fd \in conns THEN "io" ELSE "batch"
    /\ cur' = fd
    /\ action' = IF PendingWrite(conn[fd]) = 0 THEN "WantRead" ELSE "WantWrite"
    /\ UNCHANGED <<sockVars, epollVars, tableVars, listener_registered, shutdown, faults>>

-----------------------------------------------------------------------------
(* accept_ready *)

FreeFds == Fds \ conns

\* The cap is reached, or accept4 returns EMFILE or EAGAIN.
AcceptStop ==
    /\ pc = "accept"
    /\ Cardinality(conns) >= MaxConns \/ FreeFds = {} \/ backlog = << >>
    /\ pc' = "batch"
    /\ UNCHANGED <<sockVars, epollVars, tableVars, listener_registered, events, cur, action, shutdown, faults>>

Accepting ==
    /\ pc = "accept"
    /\ Cardinality(conns) < MaxConns
    /\ backlog # << >>
    /\ backlog' = Tail(backlog)
    /\ pc' = IF Drain THEN "accept" ELSE "batch"
    /\ UNCHANGED <<stream, sent, taken, fin, rst, tx, answered, listener_registered, events, cur, action, shutdown>>

\* accept4 returns the lowest free fd.
AcceptOk ==
    /\ Accepting
    /\ \E fd \in FreeFds :
          /\ \A g \in FreeFds : fd <= g
          /\ conns' = conns \cup {fd}
          /\ peer' = [peer EXCEPT ![fd] = Head(backlog)]
          /\ conn' = [conn EXCEPT ![fd] = New]
          /\ reg' = [reg EXCEPT ![fd] = "Read"]
          /\ wants' = [wants EXCEPT ![fd] = "Read"]
          /\ rdy' = LET c == Head(backlog)
                    IN  IF taken[c] < sent[c] \/ fin[c] \/ rst[c]
                        THEN rdy \cup {fd} ELSE rdy
    /\ phase' = [phase EXCEPT ![Head(backlog)] = "open"]
    /\ UNCHANGED faults

\* set_nonblocking or EPOLL_CTL_ADD fails: the accepted socket is closed.
AcceptFault ==
    /\ Accepting
    /\ FreeFds # {}
    /\ faults < MaxFaults
    /\ faults' = faults + 1
    /\ phase' = [phase EXCEPT ![Head(backlog)] = "closed"]
    /\ UNCHANGED <<epollVars, tableVars>>

-----------------------------------------------------------------------------
(* drive_io on cur, then drive's epoll_ctl *)

\* Mutant: an edge-triggered loop returns after one system call.
ResumeOnce(a, returns) == action' = a /\ pc' = "apply"

\* drive_io returns a, or loops on it when draining.
Resume(a, returns) ==
    /\ action' = a
    /\ pc' = IF returns \/ a = "Close" \/ ~Drain THEN "apply" ELSE "io"

IoRead ==
    /\ pc = "io" /\ action = "WantRead"
    /\ LET c == peer[cur]
           n == Min({ReadChunk, sent[c] - taken[c]})
           k == OnBytes(conn[cur], SubSeq(stream[c], taken[c] + 1, taken[c] + n))
       IN  /\ taken[c] < sent[c]
           /\ taken' = [taken EXCEPT ![c] = @ + n]
           /\ conn' = [conn EXCEPT ![cur] = k]
           /\ Resume(ActionForState(k), FALSE)
    /\ UNCHANGED <<stream, phase, backlog, sent, fin, rst, tx, answered, epollVars, conns, peer, wants,
                   listener_registered, events, cur, shutdown, faults>>

\* Mutant: EAGAIN is taken for the end of the stream.
IoReadNoneCloses ==
    /\ pc = "io" /\ action = "WantRead"
    /\ taken[peer[cur]] = sent[peer[cur]]
    /\ Resume("Close", TRUE)
    /\ UNCHANGED <<sockVars, epollVars, tableVars, listener_registered, events, cur, shutdown, faults>>

\* Nothing to read: end of stream or a reset closes, EAGAIN waits.
IoReadNone ==
    /\ pc = "io" /\ action = "WantRead"
    /\ taken[peer[cur]] = sent[peer[cur]]
    /\ Resume(IF fin[peer[cur]] \/ rst[peer[cur]] THEN "Close" ELSE "WantRead", TRUE)
    /\ UNCHANGED <<sockVars, epollVars, tableVars, listener_registered, events, cur, shutdown, faults>>

IoWrite ==
    /\ pc = "io" /\ action = "WantWrite"
    /\ ~rst[peer[cur]] /\ Writable(cur)
    /\ LET c == peer[cur]
           n == Min({PendingWrite(conn[cur]), SndBuf - tx[c]})
           k == OnWritten(conn[cur], n)
       IN  /\ tx' = [tx EXCEPT ![c] = @ + n]
           /\ conn' = [conn EXCEPT ![cur] = k]
           /\ answered' = [answered EXCEPT ![c] = IF k.state = "Writing" THEN @ ELSE @ + 1]
           /\ Resume(ActionForState(k), k.state = "Writing")
    /\ UNCHANGED <<stream, phase, backlog, sent, taken, fin, rst, epollVars, conns, peer, wants,
                   listener_registered, events, cur, shutdown, faults>>

\* Mutant: EAGAIN on a write asks to read.
IoWriteNoneReads ==
    /\ pc = "io" /\ action = "WantWrite"
    /\ rst[peer[cur]] \/ ~Writable(cur)
    /\ Resume(IF rst[peer[cur]] THEN "Close" ELSE "WantRead", TRUE)
    /\ UNCHANGED <<sockVars, epollVars, tableVars, listener_registered, events, cur, shutdown, faults>>

\* EPIPE closes, EAGAIN waits.
IoWriteNone ==
    /\ pc = "io" /\ action = "WantWrite"
    /\ rst[peer[cur]] \/ ~Writable(cur)
    /\ Resume(IF rst[peer[cur]] THEN "Close" ELSE "WantWrite", TRUE)
    /\ UNCHANGED <<sockVars, epollVars, tableVars, listener_registered, events, cur, shutdown, faults>>

NextInterest == IF action = "WantRead" THEN "Read" ELSE "Write"

ApplyClose ==
    /\ pc = "apply" /\ action = "Close"
    /\ DropConns({cur})
    /\ pc' = "batch"
    /\ UNCHANGED <<stream, backlog, sent, taken, fin, rst, tx, answered,
                   listener_registered, events, cur, action, shutdown, faults>>

\* Mutant: epoll_ctl is skipped although the interest changed.
ApplyKeepAlways ==
    /\ pc = "apply" /\ action # "Close"
    /\ pc' = "batch"
    /\ UNCHANGED <<sockVars, epollVars, tableVars, listener_registered, events, cur, action, shutdown, faults>>

ApplyKeep ==
    /\ pc = "apply" /\ action # "Close"
    /\ wants[cur] = NextInterest
    /\ pc' = "batch"
    /\ UNCHANGED <<sockVars, epollVars, tableVars, listener_registered, events, cur, action, shutdown, faults>>

\* Mutant: the new interest is not recorded.
ApplyModifyUnrecorded ==
    /\ pc = "apply" /\ action # "Close"
    /\ wants[cur] # NextInterest
    /\ reg' = [reg EXCEPT ![cur] = NextInterest]
    /\ rdy' = IF EventFor(cur, NextInterest) = "None" THEN rdy ELSE rdy \cup {cur}
    /\ pc' = "batch"
    /\ UNCHANGED <<sockVars, conns, peer, conn, wants, listener_registered, events, cur, action, shutdown, faults>>

ApplyModify ==
    /\ pc = "apply" /\ action # "Close"
    /\ wants[cur] # NextInterest
    /\ reg' = [reg EXCEPT ![cur] = NextInterest]
    /\ wants' = [wants EXCEPT ![cur] = NextInterest]
    /\ rdy' = IF EventFor(cur, NextInterest) = "None" THEN rdy ELSE rdy \cup {cur}
    /\ pc' = "batch"
    /\ UNCHANGED <<sockVars, conns, peer, conn, listener_registered, events, cur, action, shutdown, faults>>

ApplyFault ==
    /\ pc = "apply" /\ action # "Close"
    /\ wants[cur] # NextInterest
    /\ faults < MaxFaults
    /\ faults' = faults + 1
    /\ DropConns({cur})
    /\ pc' = "batch"
    /\ UNCHANGED <<stream, backlog, sent, taken, fin, rst, tx, answered,
                   listener_registered, events, cur, action, shutdown>>

-----------------------------------------------------------------------------
(* After the batch: apply_backpressure, sweep_expired, the shutdown check *)

BatchDone == pc = "batch" /\ \A fd \in Polled : events[fd] = "None"

AtCap == Cardinality(conns) >= MaxConns

\* EPOLL_CTL_DEL of the listener.
Shed ==
    /\ BatchDone
    /\ listener_registered /\ AtCap
    /\ reg' = [reg EXCEPT ![Listener] = "None"]
    /\ rdy' = rdy \ {Listener}
    /\ listener_registered' = FALSE
    /\ pc' = "sweep"
    /\ UNCHANGED <<sockVars, tableVars, events, cur, action, shutdown, faults>>

\* Mutant: the flag is set and the listener is not added.
UnshedFlagOnly ==
    /\ BatchDone
    /\ ~listener_registered /\ ~AtCap
    /\ listener_registered' = TRUE
    /\ pc' = "sweep"
    /\ UNCHANGED <<sockVars, epollVars, tableVars, events, cur, action, shutdown, faults>>

\* EPOLL_CTL_ADD of the listener, queued at once if connections wait.
Unshed ==
    /\ BatchDone
    /\ ~listener_registered /\ ~AtCap
    /\ reg' = [reg EXCEPT ![Listener] = "Read"]
    /\ rdy' = IF backlog = << >> THEN rdy ELSE rdy \cup {Listener}
    /\ listener_registered' = TRUE
    /\ pc' = "sweep"
    /\ UNCHANGED <<sockVars, tableVars, events, cur, action, shutdown, faults>>

UnshedFault ==
    /\ BatchDone
    /\ ~listener_registered /\ ~AtCap
    /\ faults < MaxFaults
    /\ faults' = faults + 1
    /\ pc' = "sweep"
    /\ UNCHANGED <<sockVars, epollVars, tableVars, listener_registered, events, cur, action, shutdown>>

NoPressure ==
    /\ BatchDone
    /\ listener_registered <=> ~AtCap
    /\ pc' = "sweep"
    /\ UNCHANGED <<sockVars, epollVars, tableVars, listener_registered, events, cur, action, shutdown, faults>>

\* Mutants: the sweep runs inside a batch; it spares connections that write.
SweepInBatch ==
    /\ pc \in {"sweep", "batch"}
    /\ DropConns({fd \in conns : IsExpired(conn[fd])})
    /\ pc' = IF pc = "sweep" THEN "wait" ELSE "batch"
    /\ UNCHANGED <<stream, backlog, sent, taken, fin, rst, tx, answered,
                   listener_registered, events, cur, action, shutdown, faults>>

SweepReadersOnly ==
    /\ pc = "sweep"
    /\ DropConns({fd \in conns : IsExpired(conn[fd]) /\ conn[fd].state = "Reading"})
    /\ pc' = "wait"
    /\ UNCHANGED <<stream, backlog, sent, taken, fin, rst, tx, answered,
                   listener_registered, events, cur, action, shutdown, faults>>

Sweep ==
    /\ pc = "sweep"
    /\ DropConns({fd \in conns : IsExpired(conn[fd])})
    /\ pc' = "wait"
    /\ UNCHANGED <<stream, backlog, sent, taken, fin, rst, tx, answered,
                   listener_registered, events, cur, action, shutdown, faults>>

\* run returns: the table, the listener and the epoll instance are dropped.
Stop ==
    /\ pc = "wait" /\ shutdown
    /\ reg' = [fd \in Polled |-> "None"]
    /\ rdy' = {}
    /\ wants' = [fd \in Fds |-> "None"]
    /\ conns' = {}
    /\ phase' = [c \in Peers |-> IF phase[c] = "idle" THEN "idle" ELSE "closed"]
    /\ peer' = [fd \in Fds |-> NoPeer]
    /\ conn' = [fd \in Fds |-> New]
    /\ backlog' = << >>
    /\ listener_registered' = FALSE
    /\ pc' = "stopped"
    /\ UNCHANGED <<stream, sent, taken, fin, rst, tx, answered, events, cur, action, shutdown, faults>>

-----------------------------------------------------------------------------
Environment ==
    \/ \E c \in Peers : \/ Connect(c) \/ PeerSend(c) \/ PeerRead(c)
                        \/ PeerShutdown(c) \/ PeerReset(c)
    \/ \E fd \in Fds : Deadline(fd)
    \/ Signal

Batch == TakeListener \/ \E fd \in Fds : TakeHup(fd) \/ TakeIo(fd)

accept_ready == AcceptStop \/ AcceptOk \/ AcceptFault

drive_io == IoRead \/ IoReadNone \/ IoWrite \/ IoWriteNone

drive == ApplyClose \/ ApplyKeep \/ ApplyModify \/ ApplyFault

apply_backpressure == Shed \/ Unshed \/ UnshedFault \/ NoPressure

run == \/ Wait \/ Batch \/ accept_ready \/ drive_io \/ drive
       \/ apply_backpressure \/ Sweep \/ Stop

Next == Environment \/ run

Spec == Init /\ [][Next]_vars

\* The loop thread is scheduled.
LoopFairness == WF_vars(run)

\* Time passes, so a deadline that is not refreshed is reached.
TimedSpec == Spec /\ LoopFairness /\ \A fd \in Fds : WF_vars(Deadline(fd))

\* Peers read their responses; deadlines may or may not be reached.
ReadingSpec == Spec /\ LoopFairness /\ \A c \in Peers : WF_vars(PeerRead(c))

-----------------------------------------------------------------------------
(* Properties *)

Driving(fd) == pc \in {"io", "apply"} /\ cur = fd

\* Every variable stays in its domain.
TypeOK ==
    /\ stream \in [Peers -> Streams]
    /\ phase \in [Peers -> Phases]
    /\ backlog \in Seq(Peers)
    /\ sent \in [Peers -> Nat] /\ taken \in [Peers -> Nat]
    /\ fin \in [Peers -> BOOLEAN] /\ rst \in [Peers -> BOOLEAN]
    /\ tx \in [Peers -> 0 .. SndBuf] /\ answered \in [Peers -> Nat]
    /\ reg \in [Polled -> Interests] /\ rdy \in SUBSET Polled
    /\ conns \in SUBSET Fds
    /\ peer \in [Fds -> Peers \cup {NoPeer}]
    /\ conn \in [Fds -> Connections]
    /\ wants \in [Fds -> Interests]
    /\ listener_registered \in BOOLEAN
    /\ events \in [Polled -> {"None", "Io", "Hup"}]
    /\ pc \in PCs /\ cur \in Polled /\ action \in Actions
    /\ shutdown \in BOOLEAN /\ faults \in 0 .. MaxFaults

\* The connection table, the loop's record of interests and the kernel's
\* interest list name the same fds with the same interests, and no more of them
\* than max_connections: no accepted fd is left unregistered, no closed fd stays
\* registered, none is leaked, however accepts, drops and sweeps interleave.
TablesAgree ==
    /\ Cardinality(conns) <= MaxConns
    /\ \A fd \in Fds : reg[fd] = wants[fd] /\ (wants[fd] # "None" <=> fd \in conns)
    /\ listener_registered <=> reg[Listener] # "None"

\* Outside drive, a connection is registered for Write exactly while it has a
\* response to send, so the loop never waits for the wrong direction.
InterestMatchesState ==
    \A fd \in conns : ~Driving(fd) =>
        /\ conn[fd].state # "Closed"
        /\ reg[fd] = "Write" <=> conn[fd].state = "Writing"

\* A connection that is ready is queued in the kernel, in the batch being
\* handled, or the one being driven: no wakeup of a connection is lost, in
\* particular when edge-triggered.
NoLostWakeup ==
    \A fd \in conns :
        Event(fd) # "None" => fd \in rdy \/ events[fd] # "None" \/ Driving(fd)

\* An event still to be handled belongs to the connection it was reported for:
\* fds closed and reused within a batch never receive a stale event.
EventsStayWithTheirConnection ==
    [][\A fd \in Fds : events[fd] # "None" /\ events'[fd] # "None" /\ pc # "wait"
            => fd \in conns' /\ peer'[fd] = peer[fd]]_vars

\* A connection is closed only because its peer reset it, its response asked for
\* it, its deadline passed, epoll_ctl failed or the server is stopping, or
\* because its peer has shut its sending side: then all it sent was read and no
\* response is under way.
ClosedForACause ==
    [][\A fd \in conns : fd \notin conns' =>
            \/ /\ fin[peer[fd]] /\ taken[peer[fd]] = sent[peer[fd]]
               /\ conn[fd].state = "Reading"
            \/ rst[peer[fd]]
            \/ conn[fd].state = "Closed" \/ IsExpired(conn[fd])
            \/ faults' # faults \/ shutdown]_vars

\* Every accepted connection is eventually closed: a peer that stalls, in
\* sending or in reading, does not hold its slot for ever.
EveryConnectionEnds ==
    \A c \in Peers : phase[c] = "open" ~> phase[c] = "closed"

\* When there is room and connections wait, one is accepted, or the room goes:
\* the listener is re-armed once capacity frees.
ListenerRearmed ==
    (backlog # << >> /\ Cardinality(conns) < MaxConns /\ pc # "stopped")
        ~> (backlog = << >> \/ Cardinality(conns) >= MaxConns \/ pc = "stopped")

\* A peer that reads is answered every complete request it sends, unless its
\* connection ends.
RequestsServed ==
    \A c \in Peers :
        (phase[c] = "open" /\ RequestsIn(c, sent[c]) > answered[c])
            ~> (phase[c] = "closed" \/ RequestsIn(c, sent[c]) = answered[c])

\* A shutdown signal stops the loop.
ShutdownStops == shutdown ~> pc = "stopped"
=============================================================================
