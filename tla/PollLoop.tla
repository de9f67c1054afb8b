------------------------------ MODULE PollLoop ------------------------------
(***************************************************************************)
(* The single-threaded poll(2) server of server/src/models/poll.rs.  Each  *)
(* round builds the set to poll from wants, polls, accepts at most one     *)
(* connection, drives the connections of the set that are ready with one   *)
(* read or write each (drive_io without draining), and sweeps.  Peers and  *)
(* the clock act between any two of these steps.                           *)
(***************************************************************************)
EXTENDS Connection, FiniteSets, FiniteSetsExt

CONSTANTS
    Peers,      \* each connects at most once
    NoPeer,     \* the peer of an fd that is not in the table
    Stream,     \* what each peer sends in all
    Caps,       \* the values of cfg.max_connections considered
    NumFds,     \* fds the process may hold for connections
    SndBuf,     \* units a socket's send queue holds
    ReadChunk,  \* READ_CHUNK
    MaxFaults   \* bound on failures of accept4 and set_nonblocking

ASSUME PollLoopAssumption ==
    /\ NoPeer \notin Peers
    /\ Stream \in [Peers -> Seq(Units)]
    /\ Caps \union {NumFds, SndBuf, ReadChunk} \subseteq Nat \ {0}
    /\ MaxFaults \in Nat

Listener == 0
Fds      == 1 .. NumFds

VARIABLES
    max_connections,         \* of cfg, which does not change
    phase, backlog,          \* as in Reactor
    sent, taken,             \* units sent, and read, of each stream
    fin, rst,                \* the peer has shut its sending side, has reset
    tx,                      \* units in the send queue
    answered,                \* history: responses written in full
    peer, conn,              \* the ConnTable
    wants,                   \* the interest of each fd, "None" when it has none
    revents,                 \* what poll reported and is not handled yet
    pc, shutdown, faults

sockVars == <<max_connections, phase, backlog, sent, taken, fin, rst, tx, answered>>
connVars == <<peer, conn, wants>>
vars     == <<sockVars, connVars, revents, pc, shutdown, faults>>

conns == {fd \in Fds : peer[fd] # NoPeer}

Init ==
    /\ max_connections \in Caps
    /\ phase = [c \in Peers |-> "idle"]
    /\ backlog = << >>
    /\ sent = [c \in Peers |-> 0] /\ taken = [c \in Peers |-> 0]
    /\ fin = [c \in Peers |-> FALSE] /\ rst = [c \in Peers |-> FALSE]
    /\ tx = [c \in Peers |-> 0] /\ answered = [c \in Peers |-> 0]
    /\ peer = [fd \in Fds |-> NoPeer]
    /\ conn = [fd \in Fds |-> New]
    /\ wants = [fd \in Fds |-> "None"]
    /\ revents = [fd \in Fds \union {Listener} |-> "None"]
    /\ pc = "poll" /\ shutdown = FALSE /\ faults = 0

-----------------------------------------------------------------------------
(* Peers, the clock and the operator *)

loopVars == <<connVars, revents, pc, shutdown, faults>>

RequestsIn(c, n) == Cardinality({i \in Ends(Stream[c]) : i <= n})

Connect(c) ==
    /\ phase[c] = "idle" /\ pc # "stopped"
    /\ phase' = [phase EXCEPT ![c] = "queued"]
    /\ backlog' = Append(backlog, c)
    /\ UNCHANGED <<max_connections, sent, taken, fin, rst, tx, answered, loopVars>>

Connected(c) == phase[c] \in {"queued", "open"} /\ ~rst[c]

\* A peer sends its next request when the last one is answered.
PeerSend(c) ==
    /\ Connected(c) /\ ~fin[c] /\ sent[c] < Len(Stream[c])
    /\ RequestsIn(c, sent[c]) = answered[c]
    /\ sent' = [sent EXCEPT ![c] = @ + 1]
    /\ UNCHANGED <<max_connections, phase, backlog, taken, fin, rst, tx, answered, loopVars>>

PeerRead(c) ==
    /\ Connected(c) /\ tx[c] > 0
    /\ tx' = [tx EXCEPT ![c] = 0]
    /\ UNCHANGED <<max_connections, phase, backlog, sent, taken, fin, rst, answered, loopVars>>

PeerShutdown(c) ==
    /\ Connected(c) /\ ~fin[c]
    /\ fin' = [fin EXCEPT ![c] = TRUE]
    /\ UNCHANGED <<max_connections, phase, backlog, sent, taken, rst, tx, answered, loopVars>>

PeerReset(c) ==
    /\ Connected(c)
    /\ rst' = [rst EXCEPT ![c] = TRUE]
    /\ UNCHANGED <<max_connections, phase, backlog, sent, taken, fin, tx, answered, loopVars>>

Deadline(fd) ==
    /\ fd \in conns /\ ~IsExpired(conn[fd])
    /\ conn' = [conn EXCEPT ![fd] = PassDeadline(@)]
    /\ UNCHANGED <<sockVars, peer, wants, revents, pc, shutdown, faults>>

Signal ==
    /\ ~shutdown /\ shutdown' = TRUE
    /\ UNCHANGED <<sockVars, connVars, revents, pc, faults>>

-----------------------------------------------------------------------------
(* One round *)

\* Mutant: a peer that has only shut its sending side counts as hung up.
ReadyHalfClosed(fd) ==
    LET c == peer[fd]
    IN  IF rst[c] \/ fin[c] THEN "Hup"
        ELSE IF \/ wants[fd] = "Read"  /\ taken[c] < sent[c]
                \/ wants[fd] = "Write" /\ tx[c] < SndBuf
             THEN "Io" ELSE "None"

\* The events poll reports for a connection: errors and hang-ups whatever the
\* interest, else the one that is asked for.
Ready(fd) ==
    LET c == peer[fd]
    IN  IF rst[c] THEN "Hup"
        ELSE IF \/ wants[fd] = "Read"  /\ (taken[c] < sent[c] \/ fin[c])
                \/ wants[fd] = "Write" /\ tx[c] < SndBuf
             THEN "Io" ELSE "None"

\* poll's answer: the set holds the listener, if fewer than cap connections are
\* open, and every fd of wants.
Reported(cap) == [fd \in Fds \union {Listener} |->
    IF fd = Listener
    THEN IF Cardinality(conns) < cap /\ backlog # << >> THEN "Io" ELSE "None"
    ELSE IF wants[fd] = "None" THEN "None" ELSE Ready(fd)]

Poll(cap) ==
    /\ pc = "poll"
    /\ revents' = Reported(cap)
    /\ pc' = "accept"
    /\ UNCHANGED <<sockVars, connVars, shutdown, faults>>

\* Mutant: the listener leaves the set one connection early.
pollEarly == ~shutdown /\ Poll(max_connections - 1)

poll == ~shutdown /\ Poll(max_connections)

FreeFds == Fds \ conns

AcceptNone ==
    /\ pc = "accept" /\ revents[Listener] = "None"
    /\ pc' = "drive"
    /\ UNCHANGED <<sockVars, connVars, revents, shutdown, faults>>

\* accept4 fails (EMFILE, ENFILE): the connection stays in the backlog.
AcceptFails ==
    /\ pc = "accept" /\ revents[Listener] # "None"
    /\ faults < MaxFaults /\ faults' = faults + 1
    /\ revents' = [revents EXCEPT ![Listener] = "None"]
    /\ pc' = "drive"
    /\ UNCHANGED <<sockVars, connVars, shutdown>>

Accepting ==
    /\ pc = "accept" /\ revents[Listener] # "None" /\ FreeFds # {}
    /\ backlog' = Tail(backlog)
    /\ revents' = [revents EXCEPT ![Listener] = "None"]
    /\ pc' = "drive"
    /\ UNCHANGED <<max_connections, sent, taken, fin, rst, tx, answered, shutdown>>

\* Mutant: the new connection is not given an interest.
AcceptOkUnwanted ==
    /\ Accepting
    /\ peer' = [peer EXCEPT ![Min(FreeFds)] = Head(backlog)]
    /\ conn' = [conn EXCEPT ![Min(FreeFds)] = New]
    /\ phase' = [phase EXCEPT ![Head(backlog)] = "open"]
    /\ UNCHANGED <<wants, faults>>

\* accept_one: the lowest free fd enters the table, waiting to read.
AcceptOk ==
    /\ Accepting
    /\ peer' = [peer EXCEPT ![Min(FreeFds)] = Head(backlog)]
    /\ conn' = [conn EXCEPT ![Min(FreeFds)] = New]
    /\ wants' = [wants EXCEPT ![Min(FreeFds)] = "Read"]
    /\ phase' = [phase EXCEPT ![Head(backlog)] = "open"]
    /\ UNCHANGED faults

\* set_nonblocking fails: the socket is closed.
AcceptFault ==
    /\ Accepting
    /\ faults < MaxFaults /\ faults' = faults + 1
    /\ phase' = [phase EXCEPT ![Head(backlog)] = "closed"]
    /\ UNCHANGED connVars

accept_one == AcceptNone \/ AcceptFails \/ AcceptOk \/ AcceptFault

\* drop_conn of every fd in S.
DropConns(S) ==
    /\ wants' = [fd \in Fds |-> IF fd \in S THEN "None" ELSE wants[fd]]
    /\ peer' = [fd \in Fds |-> IF fd \in S THEN NoPeer ELSE peer[fd]]
    /\ conn' = [fd \in Fds |-> IF fd \in S THEN New ELSE conn[fd]]
    /\ phase' = [c \in Peers |-> IF \E fd \in S : peer[fd] = c THEN "closed" ELSE phase[c]]

\* The snapshot is walked in the order of a HashMap: any.
Take(fd, event) ==
    /\ pc = "drive" /\ revents[fd] = event
    /\ revents' = [revents EXCEPT ![fd] = "None"]
    /\ UNCHANGED <<max_connections, backlog, sent, fin, rst, pc, shutdown, faults>>

DriveHup(fd) == Take(fd, "Hup") /\ DropConns({fd}) /\ UNCHANGED <<taken, tx, answered>>

\* Mutant: the interest is left as it was.
ApplyUnwanted(fd, k) ==
    \/ ActionForState(k) = "Close" /\ DropConns({fd})
    \/ /\ ActionForState(k) # "Close"
       /\ conn' = [conn EXCEPT ![fd] = k]
       /\ UNCHANGED <<wants, peer, phase>>

\* drive records the action drive_io returns: a new interest, or the end.
Apply(fd, k) ==
    \/ ActionForState(k) = "Close" /\ DropConns({fd})
    \/ /\ ActionForState(k) # "Close"
       /\ conn' = [conn EXCEPT ![fd] = k]
       /\ wants' = [wants EXCEPT ![fd] = IF ActionForState(k) = "WantRead" THEN "Read" ELSE "Write"]
       /\ UNCHANGED <<peer, phase>>

Reading(fd) == PendingWrite(conn[fd]) = 0

DriveRead(fd) ==
    LET c == peer[fd]
        n == Min({ReadChunk, sent[c] - taken[c]})
    IN  /\ Take(fd, "Io") /\ Reading(fd) /\ taken[c] < sent[c]
        /\ taken' = [taken EXCEPT ![c] = @ + n]
        /\ Apply(fd, OnBytes(conn[fd], SubSeq(Stream[c], taken[c] + 1, taken[c] + n)))
        /\ UNCHANGED <<tx, answered>>

\* The end of the stream, or a reset since poll.
DriveReadEnd(fd) ==
    /\ Take(fd, "Io") /\ Reading(fd) /\ taken[peer[fd]] = sent[peer[fd]]
    /\ DropConns({fd})
    /\ UNCHANGED <<taken, tx, answered>>

DriveWrite(fd) ==
    LET c == peer[fd]
        n == Min({PendingWrite(conn[fd]), SndBuf - tx[c]})
        k == OnWritten(conn[fd], n)
    IN  /\ Take(fd, "Io") /\ ~Reading(fd) /\ ~rst[c]
        /\ tx' = [tx EXCEPT ![c] = @ + n]
        /\ answered' = [answered EXCEPT ![c] = IF k.state = "Writing" THEN @ ELSE @ + 1]
        /\ Apply(fd, k)
        /\ UNCHANGED taken

\* EPIPE: the peer has reset since poll.
DriveWriteFails(fd) ==
    /\ Take(fd, "Io") /\ ~Reading(fd) /\ rst[peer[fd]]
    /\ DropConns({fd})
    /\ UNCHANGED <<taken, tx, answered>>

drive(fd) ==
    DriveHup(fd) \/ DriveRead(fd) \/ DriveReadEnd(fd) \/ DriveWrite(fd) \/ DriveWriteFails(fd)

\* The snapshot is done: expired connections are dropped.
Sweep ==
    /\ pc = "drive" /\ \A fd \in Fds : revents[fd] = "None"
    /\ DropConns({fd \in conns : IsExpired(conn[fd])})
    /\ pc' = "poll"
    /\ UNCHANGED <<max_connections, backlog, sent, taken, fin, rst, tx, answered, revents, shutdown, faults>>

\* serve returns: the table and the listener are dropped.
Stop ==
    /\ pc = "poll" /\ shutdown
    /\ wants' = [fd \in Fds |-> "None"]
    /\ peer' = [fd \in Fds |-> NoPeer]
    /\ conn' = [fd \in Fds |-> New]
    /\ phase' = [c \in Peers |-> IF phase[c] = "idle" THEN "idle" ELSE "closed"]
    /\ backlog' = << >>
    /\ pc' = "stopped"
    /\ UNCHANGED <<max_connections, sent, taken, fin, rst, tx, answered, revents, shutdown, faults>>

serve == poll \/ accept_one \/ (\E fd \in Fds : drive(fd)) \/ Sweep \/ Stop

Environment ==
    \/ \E c \in Peers : \/ Connect(c) \/ PeerSend(c) \/ PeerRead(c)
                        \/ PeerShutdown(c) \/ PeerReset(c)
    \/ \E fd \in Fds : Deadline(fd)
    \/ Signal

Next == Environment \/ serve

\* The loop thread is scheduled, and peers read what they are sent; a deadline
\* may or may not be reached.
Spec == Init /\ [][Next]_vars /\ WF_vars(serve) /\ \A c \in Peers : WF_vars(PeerRead(c))

-----------------------------------------------------------------------------
(* Properties *)

\* Every variable stays in its domain.
TypeOK ==
    /\ phase \in [Peers -> {"idle", "queued", "open", "closed"}]
    /\ tx \in [Peers -> 0 .. SndBuf]
    /\ peer \in [Fds -> Peers \union {NoPeer}]
    /\ conn \in [Fds -> Connections]
    /\ wants \in [Fds -> {"None", "Read", "Write"}]
    /\ revents \in [Fds \union {Listener} -> {"None", "Io", "Hup"}]
    /\ pc \in {"poll", "accept", "drive", "stopped"}
    /\ faults \in 0 .. MaxFaults

\* wants, the table and the connections agree, within the cap: every connection
\* is polled, for writing exactly while it has a response to send, and nothing
\* else is; an event of a round still to be handled is for a connection that is
\* still there, whatever the accept and the drops of that round changed.
WantsMatch ==
    /\ Cardinality(conns) <= max_connections
    /\ \A fd, g \in conns : peer[fd] = peer[g] => fd = g
    /\ \A fd \in Fds :
        /\ fd \in conns <=> wants[fd] # "None"
        /\ fd \in conns => /\ conn[fd].state # "Closed"
                           /\ wants[fd] = "Write" <=> conn[fd].state = "Writing"
        /\ revents[fd] # "None" => fd \in conns

\* A connection is closed only because its peer reset it, its deadline passed,
\* the response that closes it was written in full or the server is stopping, or
\* because its peer has shut its sending side: then all it sent was read and no
\* response is under way.
ClosedForACause ==
    [][\A fd \in conns : fd \notin conns' =>
            \/ /\ fin[peer[fd]] /\ taken[peer[fd]] = sent[peer[fd]]
               /\ conn[fd].state = "Reading"
            \/ rst[peer[fd]] \/ IsExpired(conn[fd]) \/ shutdown
            \/ /\ conn[fd].state = "Writing" /\ CloseAfterWrite(conn[fd])
               /\ answered'[peer[fd]] = answered[peer[fd]] + 1]_vars

\* A peer that reads is answered every complete request it sends, unless its
\* connection ends.
RequestsServed ==
    \A c \in Peers :
        (phase[c] = "open" /\ RequestsIn(c, sent[c]) > answered[c])
            ~> (phase[c] = "closed" \/ RequestsIn(c, sent[c]) = answered[c])

\* With a free slot and a free fd, a connection in the backlog is accepted, or
\* the room goes: neither the cap nor EMFILE leaves the listener unpolled.
BacklogTaken ==
    (backlog # << >> /\ Cardinality(conns) < max_connections /\ FreeFds # {} /\ pc # "stopped")
        ~> (backlog = << >> \/ Cardinality(conns) >= max_connections \/ FreeFds = {} \/ pc = "stopped")
=============================================================================
