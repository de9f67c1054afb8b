------------------------------- MODULE IoUring -------------------------------
(***************************************************************************)
(* The completion-based server: Runtime and BufRing of                     *)
(* server/src/models/io_uring.rs, driving the same Connection.             *)
(*                                                                         *)
(* The thread pushes submission entries (sq); io_uring_enter hands them to *)
(* the kernel (kern), which completes them in any order (cq); a drain      *)
(* takes a snapshot of the completions (batch) and handles each.  As the   *)
(* kernel orders completions freely, the queues are sets.                  *)
(*                                                                         *)
(* The kernel is external: it accepts into the lowest free fd, receives    *)
(* into the next buffer of the provided ring, and sends what fits.         *)
(***************************************************************************)
EXTENDS Connection, Integers, FiniteSets, FiniteSetsExt

CONSTANTS
    Peers,      \* peers; each connects at most once
    NoPeer,     \* the peer of a closed fd
    Streams,    \* the streams a peer may send
    Caps,       \* the values of cfg.max_connections considered
    NumFds,     \* fds the process may hold for connections
    SqEntries,  \* RING_ENTRIES
    NumBufs,    \* NUM_BUFS
    TailMod,    \* 2^16, the range of the buffer ring's u16 tail
    BufSize,    \* BUF_SIZE
    Depth,      \* most requests a peer has in flight
    MaxFaults   \* bound on transient failures of accept and submission

ASSUME IoUringAssumption ==
    /\ NoPeer \notin Peers
    /\ Streams \subseteq Seq(Units)
    /\ Caps \cup {NumFds, SqEntries, NumBufs, TailMod, BufSize, Depth} \subseteq Nat \ {0}
    /\ TailMod > NumBufs /\ TailMod % NumBufs = 0
    /\ MaxFaults \in Nat

Listener == 0
Fds      == 1 .. NumFds
Bids     == 0 .. NumBufs - 1
NoBuf    == NumBufs

\* user_data: the kind of operation in the low byte, the fd above it.
OP_ACCEPT == 1
OP_RECV   == 2
OP_SEND   == 3
OP_CLOSE  == 4

pack(op, fd) == op + 256 * fd
OpOf(ud)     == ud % 256
FdOf(ud)     == ud \div 256

\* Negative results.
ECONNRESET == -1
ENOBUFS    == -2
EMFILE     == -3

UserData == {pack(OP_ACCEPT, Listener)}
                \cup {pack(op, fd) : op \in {OP_RECV, OP_SEND, OP_CLOSE}, fd \in Fds}

Sqes == [ud : UserData, len : Nat]
Cqes == [ud : UserData, res : Int, buf : Bids \cup {NoBuf}, more : BOOLEAN]

VARIABLES
    max_connections,  \* of cfg, which does not change
    \* the peers and their sockets
    stream,    \* what each peer sends in all
    phase,     \* "idle", "queued" (in the backlog), "open", "closed"
    backlog,   \* the listener's accept queue
    sent,      \* units of the stream that have reached the receive queue
    taken,     \* units of the stream that the kernel has put in buffers
    fin, rst,  \* the peer has shut its sending side, has reset the connection
    answered,  \* history: responses sent in full
    got,       \* history: units on_bytes was given
    \* the kernel
    fdPeer,    \* the peer of each open fd
    kern,      \* operations in flight
    cq,        \* completions posted
    khead,     \* head of the buffer ring
    pool,      \* contents of the buffers
    \* the runtime
    slots, tail,   \* the buffer ring's entries and its local_tail
    sq,            \* entries pushed and not submitted
    conns, conn,   \* the connection table
    accept_armed,
    batch,         \* completions of the last drain not handled yet
    pc,            \* "top" (with a batch: draining), "enter", "collect", "stopped"
    shutdown,      \* the SHUTDOWN flag
    faults, lost   \* transient failures so far, the entries they dropped

peerVars == <<max_connections, stream, phase, backlog, sent, fin, rst>>
sockVars == <<peerVars, taken, answered, got>>
kernVars == <<fdPeer, khead, pool>>
ringVars == <<kern, cq, slots, tail, sq>>
loopVars == <<conns, conn, accept_armed, batch, pc, shutdown, faults, lost>>
vars     == <<sockVars, kernVars, ringVars, loopVars>>

RequestsIn(c, n) == Cardinality({i \in Ends(stream[c]) : i <= n})

Open(fd) == fdPeer[fd] # NoPeer

\* Runtime::new and BufRing::new: every buffer staged, the tail published.
Init ==
    /\ max_connections \in Caps
    /\ stream \in [Peers -> Streams]
    /\ phase = [c \in Peers |-> "idle"]
    /\ backlog = << >>
    /\ sent = [c \in Peers |-> 0]
    /\ taken = [c \in Peers |-> 0]
    /\ fin = [c \in Peers |-> FALSE]
    /\ rst = [c \in Peers |-> FALSE]
    /\ answered = [c \in Peers |-> 0]
    /\ got = [c \in Peers |-> << >>]
    /\ fdPeer = [fd \in Fds |-> NoPeer]
    /\ kern = {} /\ cq = {} /\ sq = {}
    /\ khead = 0
    /\ pool = [b \in Bids |-> << >>]
    /\ slots = [i \in Bids |-> i]
    /\ tail = NumBufs
    /\ conns = {}
    /\ conn = [fd \in Fds |-> New]
    /\ accept_armed = FALSE
    /\ batch = {}
    /\ pc = "top"
    /\ shutdown = FALSE
    /\ faults = 0 /\ lost = {}

-----------------------------------------------------------------------------
(* Peers and the operator *)

Connect(c) ==
    /\ phase[c] = "idle" /\ pc # "stopped"
    /\ phase' = [phase EXCEPT ![c] = "queued"]
    /\ backlog' = Append(backlog, c)
    /\ UNCHANGED <<max_connections, stream, sent, fin, rst>>

Connected(c) == phase[c] \in {"queued", "open"} /\ ~rst[c]

PeerSend(c) ==
    /\ Connected(c) /\ ~fin[c]
    /\ sent[c] < Len(stream[c])
    /\ RequestsIn(c, sent[c]) < answered[c] + Depth
    /\ sent' = [sent EXCEPT ![c] = @ + 1]
    /\ UNCHANGED <<max_connections, stream, phase, backlog, fin, rst>>

PeerShutdown(c) ==
    /\ Connected(c) /\ ~fin[c]
    /\ fin' = [fin EXCEPT ![c] = TRUE]
    /\ UNCHANGED <<max_connections, stream, phase, backlog, sent, rst>>

PeerReset(c) ==
    /\ Connected(c)
    /\ rst' = [rst EXCEPT ![c] = TRUE]
    /\ UNCHANGED <<max_connections, stream, phase, backlog, sent, fin>>

Peer(c) ==
    /\ Connect(c) \/ PeerSend(c) \/ PeerShutdown(c) \/ PeerReset(c)
    /\ UNCHANGED <<taken, answered, got, kernVars, ringVars, loopVars>>

Signal ==
    /\ ~shutdown
    /\ shutdown' = TRUE
    /\ UNCHANGED <<sockVars, kernVars, ringVars, conns, conn, accept_armed, batch, pc, faults, lost>>

-----------------------------------------------------------------------------
(* The kernel *)

\* The operation e completes with c; a multishot accept stays in flight.
Post(e, c) ==
    /\ e \in kern
    /\ kern' = IF c.more THEN kern ELSE kern \ {e}
    /\ cq' = cq \cup {c}
    /\ UNCHANGED <<slots, tail, sq>>

Complete(e, c) == Post(e, c) /\ UNCHANGED loopVars

Cqe(e, res, buf, more) == [ud |-> e.ud, res |-> res, buf |-> buf, more |-> more]

FreeFds == {fd \in Fds : ~Open(fd)}

\* A connection arrives on the multishot accept, which may end with it.
KernelAccept(e) ==
    /\ OpOf(e.ud) = OP_ACCEPT
    /\ backlog # << >> /\ FreeFds # {}
    /\ \E more \in BOOLEAN : Complete(e, Cqe(e, Min(FreeFds), NoBuf, more))
    /\ fdPeer' = [fdPeer EXCEPT ![Min(FreeFds)] = Head(backlog)]
    /\ phase' = [phase EXCEPT ![Head(backlog)] = "open"]
    /\ backlog' = Tail(backlog)
    /\ UNCHANGED <<max_connections, stream, sent, taken, fin, rst, answered, got, khead, pool>>

\* EMFILE, or a transient error, ends the multishot.
KernelAcceptFails(e) ==
    /\ OpOf(e.ud) = OP_ACCEPT
    /\ backlog # << >>
    /\ FreeFds = {} \/ faults < MaxFaults
    /\ faults' = IF FreeFds = {} THEN faults ELSE faults + 1
    /\ Post(e, Cqe(e, EMFILE, NoBuf, FALSE))
    /\ UNCHANGED <<sockVars, kernVars, conns, conn, accept_armed, batch, pc, shutdown, lost>>

BufsInRing == (tail - khead) % TailMod

\* Data is received into the buffer at the head of the ring.
KernelRecv(e) ==
    /\ OpOf(e.ud) = OP_RECV
    /\ BufsInRing > 0
    /\ LET c == fdPeer[FdOf(e.ud)]
           n == Min({BufSize, sent[c] - taken[c]})
           b == slots[khead % NumBufs]
       IN  /\ taken[c] < sent[c]
           /\ Complete(e, Cqe(e, n, b, FALSE))
           /\ pool' = [pool EXCEPT ![b] = SubSeq(stream[c], taken[c] + 1, taken[c] + n)]
           /\ taken' = [taken EXCEPT ![c] = @ + n]
    /\ khead' = (khead + 1) % TailMod
    /\ UNCHANGED <<peerVars, answered, got, fdPeer>>

\* End of stream, a reset, or no buffer left.
RecvErrors(c) ==
    (IF fin[c] /\ taken[c] = sent[c] THEN {0} ELSE {})
        \cup (IF rst[c] THEN {ECONNRESET} ELSE {})
        \cup (IF BufsInRing = 0 THEN {ENOBUFS} ELSE {})

KernelRecvFails(e) ==
    /\ OpOf(e.ud) = OP_RECV
    /\ \E r \in RecvErrors(fdPeer[FdOf(e.ud)]) : Complete(e, Cqe(e, r, NoBuf, FALSE))
    /\ UNCHANGED <<sockVars, kernVars>>

\* Some of the bytes fit into the socket, or the peer is gone.
KernelSend(e) ==
    /\ OpOf(e.ud) = OP_SEND
    /\ \E n \in IF rst[fdPeer[FdOf(e.ud)]] THEN {ECONNRESET} ELSE 1 .. e.len :
            Complete(e, Cqe(e, n, NoBuf, FALSE))
    /\ UNCHANGED <<sockVars, kernVars>>

KernelClose(e) ==
    /\ OpOf(e.ud) = OP_CLOSE
    /\ Complete(e, Cqe(e, 0, NoBuf, FALSE))
    /\ fdPeer' = [fdPeer EXCEPT ![FdOf(e.ud)] = NoPeer]
    /\ phase' = [phase EXCEPT ![fdPeer[FdOf(e.ud)]] = "closed"]
    /\ UNCHANGED <<max_connections, stream, backlog, sent, taken, fin, rst, answered, got, khead, pool>>

Kernel(e) ==
    \/ KernelAccept(e) \/ KernelAcceptFails(e)
    \/ KernelRecv(e) \/ KernelRecvFails(e)
    \/ KernelSend(e) \/ KernelClose(e)

-----------------------------------------------------------------------------
(* BufRing::recycle, Runtime::push *)

\* Mutant: the buffer is not returned.
recycleForgotten(b) == UNCHANGED <<slots, tail>>

\* stage at the tail, then commit.
recycle(b) ==
    /\ slots' = [slots EXCEPT ![tail % NumBufs] = b]
    /\ tail' = (tail + 1) % TailMod

Sqe(op, fd, len) == [ud |-> pack(op, fd), len |-> len]

\* Mutant: a full queue drops the entry.
pushGivesUp(e) ==
    /\ sq' = IF Cardinality(sq) < SqEntries THEN sq \cup {e} ELSE sq
    /\ UNCHANGED <<kern, faults, lost>>

\* A full queue is submitted first; if that fails the entry is dropped.
push(e) ==
    \/ /\ Cardinality(sq) < SqEntries
       /\ sq' = sq \cup {e}
       /\ UNCHANGED <<kern, faults, lost>>
    \/ /\ Cardinality(sq) >= SqEntries
       /\ sq' = {e}
       /\ kern' = kern \cup sq
       /\ UNCHANGED <<faults, lost>>
    \/ /\ Cardinality(sq) >= SqEntries /\ faults < MaxFaults
       /\ faults' = faults + 1
       /\ lost' = lost \cup {e}
       /\ UNCHANGED <<sq, kern>>

NoPush == UNCHANGED <<sq, kern, faults, lost>>

submit_recv(fd)  == push(Sqe(OP_RECV, fd, 0))
submit_close(fd) == push(Sqe(OP_CLOSE, fd, 0))

\* Mutant: the whole response is submitted again after a partial send.
submit_sendWhole(fd, k) == push(Sqe(OP_SEND, fd, RespLen))

submit_send(fd, k) == push(Sqe(OP_SEND, fd, PendingWrite(k)))

\* Mutant: the fd is not closed.
drop_connOpen(fd) ==
    /\ conns' = conns \ {fd}
    /\ conn' = [conn EXCEPT ![fd] = New]
    /\ NoPush

drop_conn(fd) ==
    /\ conns' = conns \ {fd}
    /\ conn' = [conn EXCEPT ![fd] = New]
    /\ IF fd \in conns THEN submit_close(fd) ELSE NoPush

\* The connection at fd becomes k; its action decides the next operation.
apply(fd, k) ==
    \/ /\ ActionForState(k) = "WantRead"
       /\ conn' = [conn EXCEPT ![fd] = k]
       /\ submit_recv(fd)
       /\ UNCHANGED conns
    \/ /\ ActionForState(k) = "WantWrite"
       /\ conn' = [conn EXCEPT ![fd] = k]
       /\ submit_send(fd, k)
       /\ UNCHANGED conns
    \/ /\ ActionForState(k) = "Close"
       /\ drop_conn(fd)

-----------------------------------------------------------------------------
(* run, drain_cqes and the completion handlers *)

\* The flag is looked at; an accept that ended is armed again.
Top ==
    /\ pc = "top" /\ batch = {} /\ ~shutdown
    /\ IF accept_armed
       THEN NoPush /\ UNCHANGED accept_armed
       ELSE LET e == Sqe(OP_ACCEPT, Listener, 0)
            IN  push(e) /\ accept_armed' = (faults' = faults)
    /\ pc' = "enter"
    /\ UNCHANGED <<sockVars, kernVars, cq, slots, tail, conns, conn, batch, shutdown>>

\* io_uring_enter submits and waits for a completion or the tick.
Enter ==
    /\ pc = "enter"
    /\ kern' = kern \cup sq
    /\ sq' = {}
    /\ pc' = "collect"
    /\ UNCHANGED <<sockVars, kernVars, cq, slots, tail, conns, conn, accept_armed, batch, shutdown, faults, lost>>

\* EINTR: nothing is submitted nor drained.  (Other errors of io_uring_enter
\* also go back to the top and change nothing.)
EnterInterrupted ==
    /\ pc = "enter" /\ shutdown
    /\ pc' = "top"
    /\ UNCHANGED <<sockVars, kernVars, ringVars, conns, conn, accept_armed, batch, shutdown, faults, lost>>

drain_cqes ==
    /\ pc = "collect"
    /\ batch' = cq
    /\ cq' = {}
    /\ pc' = "top"
    /\ UNCHANGED <<sockVars, kernVars, kern, slots, tail, sq, conns, conn, accept_armed, shutdown, faults, lost>>

Take(e, op) ==
    /\ e \in batch
    /\ OpOf(e.ud) = op
    /\ batch' = batch \ {e}
    /\ UNCHANGED <<peerVars, taken, kernVars, cq, pc, shutdown>>

\* Mutant: the end of the multishot is not noticed.
StillArmedAlways(e) == accept_armed

StillArmed(e) == accept_armed /\ e.more

\* At the cap the accepted connection is closed at once.
on_accept(e) ==
    /\ Take(e, OP_ACCEPT)
    /\ accept_armed' = StillArmed(e)
    /\ \/ e.res < 0 /\ NoPush /\ UNCHANGED <<conns, conn>>
       \/ e.res > 0 /\ Cardinality(conns) >= max_connections
                    /\ submit_close(e.res) /\ UNCHANGED <<conns, conn>>
       \/ e.res > 0 /\ Cardinality(conns) < max_connections
                    /\ conns' = conns \cup {e.res}
                    /\ conn' = [conn EXCEPT ![e.res] = New]
                    /\ submit_recv(e.res)
    /\ UNCHANGED <<answered, got, slots, tail>>

\* The connection, if it is still in the table, becomes k.
deliver(fd, k) ==
    IF fd \in conns THEN apply(fd, k) ELSE NoPush /\ UNCHANGED <<conns, conn>>

\* Mutant: bytes_ptr forgets the buffer's offset in the pool.
BytesAtZero(e) == SubSeq(pool[0], 1, e.res)

Bytes(e) == SubSeq(pool[e.buf], 1, e.res)

\* End of stream or an error drops the connection; bytes are fed to it and
\* their buffer goes back to the ring.
on_recv(e) ==
    LET fd == FdOf(e.ud)
    IN  /\ Take(e, OP_RECV)
        /\ \/ e.res <= 0 /\ drop_conn(fd) /\ UNCHANGED <<slots, tail, got>>
           \/ /\ e.res > 0
              /\ deliver(fd, OnBytes(conn[fd], Bytes(e)))
              /\ recycle(e.buf)
              /\ got' = [got EXCEPT ![fdPeer[fd]] = @ \o Bytes(e)]
        /\ UNCHANGED <<accept_armed, answered>>

on_send(e) ==
    LET fd == FdOf(e.ud)
        k  == OnWritten(conn[fd], e.res)
    IN  /\ Take(e, OP_SEND)
        /\ \/ e.res < 0 /\ drop_conn(fd) /\ UNCHANGED answered
           \/ /\ e.res >= 0
              /\ deliver(fd, k)
              /\ answered' = [answered EXCEPT ![fdPeer[fd]] =
                                 IF k.state = "Writing" THEN @ ELSE @ + 1]
        /\ UNCHANGED <<accept_armed, got, slots, tail>>

on_close(e) ==
    /\ Take(e, OP_CLOSE)
    /\ NoPush
    /\ UNCHANGED <<answered, got, slots, tail, conns, conn, accept_armed>>

\* run returns: the ring is dropped first, which cancels what is in flight.
Stop ==
    /\ pc = "top" /\ batch = {} /\ shutdown
    /\ sq' = {} /\ kern' = {} /\ cq' = {}
    /\ conns' = {} /\ conn' = [fd \in Fds |-> New]
    /\ fdPeer' = [fd \in Fds |-> NoPeer]
    /\ phase' = [c \in Peers |-> IF phase[c] = "idle" THEN "idle" ELSE "closed"]
    /\ backlog' = << >>
    /\ accept_armed' = FALSE
    /\ pc' = "stopped"
    /\ lost' = {}
    /\ UNCHANGED <<max_connections, stream, sent, fin, rst, taken, answered, got, khead, pool, slots, tail,
                   batch, shutdown, faults>>

run == \/ Top \/ Enter \/ EnterInterrupted \/ drain_cqes \/ Stop
       \/ \E e \in batch : on_accept(e) \/ on_recv(e) \/ on_send(e) \/ on_close(e)

Next == \/ \E c \in Peers : Peer(c)
        \/ Signal
        \/ \E e \in kern : Kernel(e)
        \/ run

Spec == Init /\ [][Next]_vars

\* The thread is scheduled, and the kernel completes what it can: in
\* particular peers read what is sent to them.
FairSpec ==
    /\ Spec
    /\ WF_vars(run)
    /\ \A fd \in {Listener} \cup Fds :
          WF_vars(\E e \in kern : FdOf(e.ud) = fd /\ Kernel(e))

-----------------------------------------------------------------------------
(* Properties *)

\* The entries of S that are of kind op in ops and belong to fd.
Of(S, ops, fd) == {e \in S : OpOf(e.ud) \in ops /\ FdOf(e.ud) = fd}

Count(ops, fd) == Cardinality(Of(sq, ops, fd)) + Cardinality(Of(kern, ops, fd))

\* An entry of kind op in ops for fd was dropped by a push.
Lost(ops, fd) == Of(lost, ops, fd) # {}

Completed(ops, fd) == Cardinality(Of(cq, ops, fd)) + Cardinality(Of(batch, ops, fd))

\* The accept completions still to be handled that carry fd.
Arrived(fd) == Cardinality({e \in cq : OpOf(e.ud) = OP_ACCEPT /\ e.res = fd})
                 + Cardinality({e \in batch : OpOf(e.ud) = OP_ACCEPT /\ e.res = fd})

\* Every variable stays in its domain.
TypeOK ==
    /\ stream \in [Peers -> Streams]
    /\ phase \in [Peers -> {"idle", "queued", "open", "closed"}]
    /\ backlog \in Seq(Peers)
    /\ sent \in [Peers -> Nat] /\ taken \in [Peers -> Nat]
    /\ fin \in [Peers -> BOOLEAN] /\ rst \in [Peers -> BOOLEAN]
    /\ answered \in [Peers -> Nat] /\ got \in [Peers -> Seq(Units)]
    /\ fdPeer \in [Fds -> Peers \cup {NoPeer}]
    /\ sq \subseteq Sqes /\ kern \subseteq Sqes /\ lost \subseteq Sqes
    /\ cq \subseteq Cqes /\ batch \subseteq Cqes
    /\ khead \in 0 .. TailMod - 1 /\ tail \in 0 .. TailMod - 1
    /\ pool \in [Bids -> Seq(Units)] /\ slots \in [Bids -> Bids]
    /\ conns \in SUBSET Fds /\ conn \in [Fds -> Connections]
    /\ accept_armed \in BOOLEAN /\ shutdown \in BOOLEAN
    /\ pc \in {"top", "enter", "collect", "stopped"}
    /\ faults \in 0 .. MaxFaults

\* Every open fd is in the table, in an accept completion not handled yet, or
\* about to be closed, and in one of them only; it leaks, until the ring is torn
\* down, only if a push dropped its close.  One in the table has exactly one
\* receive or send between its push and the handling of its completion, or had
\* it dropped and is stranded; any other has none: as completions name their
\* connection by fd alone, this is what keeps them from reaching another
\* connection after a reuse.  A failed submission costs one entry.
FdsAccounted ==
    /\ \A fd \in Fds :
          /\ Arrived(fd) + Count({OP_CLOSE}, fd) + (IF fd \in conns THEN 1 ELSE 0)
                = IF Open(fd) /\ ~Lost({OP_CLOSE}, fd) THEN 1 ELSE 0
          /\ Count({OP_RECV, OP_SEND}, fd) + Completed({OP_RECV, OP_SEND}, fd)
                = IF fd \in conns /\ ~Lost({OP_RECV, OP_SEND}, fd) THEN 1 ELSE 0
          /\ Lost({OP_CLOSE}, fd) => Open(fd)
          /\ Lost({OP_RECV, OP_SEND}, fd) => fd \in conns
    /\ Cardinality(lost) <= faults

\* A send in flight points into the write buffer of a connection that is in
\* the table and whose unsent bytes are the ones submitted: the safety comment
\* of push.
SendBufferStable ==
    \A e \in sq \cup kern : OpOf(e.ud) = OP_SEND =>
        /\ FdOf(e.ud) \in conns
        /\ PendingWrite(conn[FdOf(e.ud)]) = e.len

\* Each buffer is in the ring or in one completion not handled yet, never in
\* both nor twice, through every wrap of the tail.  So while there are no
\* more connections than buffers a receive in flight finds one, and does not
\* fail with ENOBUFS.
BuffersConserved ==
    LET held == {e \in cq \cup batch : e.buf # NoBuf}
        ring == {slots[(khead + i) % NumBufs] : i \in 0 .. BufsInRing - 1}
    IN  pc # "stopped" =>
            /\ BufsInRing + Cardinality(held) = NumBufs
            /\ ring \cup {e.buf : e \in held} = Bids
            /\ Cardinality(conns) <= NumBufs /\ (\E e \in kern : OpOf(e.ud) = OP_RECV) => BufsInRing > 0

\* What a connection is fed is what its own peer sent, in order and without
\* gaps: no buffer is overwritten before it is read, no completion goes astray.
InputIntact == \A c \in Peers : got[c] = SubSeq(stream[c], 1, Len(got[c]))

\* A complete request on a connection of the table is answered, and the
\* connection not closed instead, unless the peer resets, the program is told to
\* stop, a receive finds no buffer or a failed push left it without an operation.
RequestsServed ==
    \A c \in Peers :
        (RequestsIn(c, sent[c]) > answered[c] /\ \E fd \in conns : fdPeer[fd] = c)
            ~> \/ RequestsIn(c, sent[c]) = answered[c]
               \/ rst[c] \/ shutdown
               \/ \E e \in cq \cup batch : e.res = ENOBUFS /\ fdPeer[FdOf(e.ud)] = c
               \/ \E e \in lost : FdOf(e.ud) \in Fds /\ fdPeer[FdOf(e.ud)] = c

\* A peer in the backlog is accepted while there are fds, also after the
\* multishot accept ended.
ArrivalsTaken ==
    \A c \in Peers : phase[c] = "queued" ~> phase[c] # "queued" \/ FreeFds = {}
=============================================================================
