--------------------------- MODULE PollLoopProofs ---------------------------
(***************************************************************************)
(* The poll loop's table, its interests and the events of a round agree    *)
(* for any number of peers and fds, any cap and any streams.               *)
(***************************************************************************)
EXTENDS PollLoop, ConnectionProofs, FiniteSetTheorems, SequenceTheorems

-----------------------------------------------------------------------------
(* The inductive invariant *)

\* What was read was sent, and what was sent is of the stream.
SocketsI ==
    /\ max_connections \in Caps
    /\ backlog \in Seq(Peers)
    /\ sent \in [Peers -> Nat] /\ taken \in [Peers -> Nat]
    /\ \A c \in Peers : taken[c] <= sent[c] /\ sent[c] <= Len(Stream[c])

\* The backlog holds each peer that waits to be accepted, once.
BacklogI ==
    /\ \A i \in 1 .. Len(backlog) : phase[backlog[i]] = "queued"
    /\ \A i, j \in 1 .. Len(backlog) : backlog[i] = backlog[j] => i = j

\* The table holds well-formed connections of accepted peers.
TableI == \A fd \in conns : phase[peer[fd]] = "open" /\ WellFormed(conn[fd])

\* Between rounds no event is left; the listener was reported with a connection
\* to accept and room for it, and both are still there at the accept.
RoundI ==
    /\ pc \in {"poll", "stopped"} => \A fd \in Fds : revents[fd] = "None"
    /\ revents[Listener] # "None" =>
          pc = "accept" /\ backlog # << >> /\ Cardinality(conns) < max_connections

IInv == TypeOK /\ SocketsI /\ BacklogI /\ TableI /\ RoundI /\ WantsMatch
-----------------------------------------------------------------------------
(* Facts about the table *)

\* The listener is none of the connections' fds, and the table is finite.
LEMMA FdFacts ==
    /\ Listener \notin Fds /\ Fds \in SUBSET Nat
    /\ IsFiniteSet(conns) /\ Cardinality(conns) \in Nat
    /\ IsFiniteSet(conns') /\ Cardinality(conns)' \in Nat
<1>1. NumFds \in Nat /\ Listener \notin Fds /\ Fds \in SUBSET Nat
  BY PollLoopAssumption DEF Listener, Fds
<1>2. IsFiniteSet(Fds)
  BY <1>1, FS_Interval DEF Fds
<1>3. conns \in SUBSET Fds /\ conns' \in SUBSET Fds
  BY DEF conns
<1>4. IsFiniteSet(conns) /\ IsFiniteSet(conns')
  BY <1>2, <1>3, FS_Subset
<1> QED
  BY <1>1, <1>4, FS_CardinalityType

\* The cap is a number.
LEMMA CapType == SocketsI => max_connections \in Nat
BY PollLoopAssumption DEF SocketsI

\* What accept leaves of the backlog.
LEMMA BacklogTail ==
    ASSUME backlog \in Seq(Peers), backlog # << >>
    PROVE  /\ Len(backlog) \in Nat \ {0} /\ Head(backlog) = backlog[1] /\ Head(backlog) \in Peers
           /\ Tail(backlog) \in Seq(Peers)
           /\ Len(Tail(backlog)) = Len(backlog) - 1
           /\ \A i \in 1 .. Len(backlog) - 1 : Tail(backlog)[i] = backlog[i + 1]
BY HeadTailProperties, EmptySeq

\* Nothing is connected to begin with.
LEMMA InitIInv == Init => IInv
<1> SUFFICES ASSUME Init PROVE IInv
  OBVIOUS
<1> USE PollLoopAssumption DEF Init
<1>1. conns = {}
  BY DEF conns
<1>2. Cardinality(conns) = 0
  BY <1>1, FS_EmptySet, Zenon
<1>3. New \in Connections
  BY NewType DEF WellFormed
<1>4. TypeOK
  BY <1>3 DEF TypeOK
<1>5. backlog \in Seq(Peers) /\ Len(backlog) = 0
  OBVIOUS
<1>6. \A c \in Peers : Len(Stream[c]) \in Nat
  OBVIOUS
<1>7. SocketsI
  BY <1>5, <1>6 DEF SocketsI
<1>8. BacklogI /\ TableI
  BY <1>1, <1>5 DEF BacklogI, TableI
<1>9. RoundI /\ WantsMatch
  BY <1>1, <1>2, FdFacts DEF RoundI, WantsMatch, Listener
<1> QED
  BY <1>4, <1>7, <1>8, <1>9 DEF IInv

-----------------------------------------------------------------------------
(* Peers, the clock and the operator *)

\* A peer that connects is queued; what else peers and the clock do leaves the
\* table and the round alone.
LEMMA EnvironmentStep == ASSUME IInv, Environment PROVE IInv'
<1>1. TypeOK /\ SocketsI /\ BacklogI /\ TableI /\ RoundI /\ WantsMatch
  BY DEF IInv
<1> USE PollLoopAssumption DEF sockVars, connVars, loopVars
<1>2. ASSUME NEW c \in Peers, Connect(c) PROVE IInv'
  <2>1. UNCHANGED <<max_connections, sent, taken, tx, peer, conn, wants, revents, pc, faults>> /\ conns' = conns
    BY <1>2 DEF Connect, conns
  <2>2. phase[c] = "idle" /\ phase' = [phase EXCEPT ![c] = "queued"]
    BY <1>2 DEF Connect
  <2>3. /\ backlog' \in Seq(Peers) /\ Len(backlog') = Len(backlog) + 1 /\ Len(backlog) \in Nat
        /\ backlog'[Len(backlog) + 1] = c /\ \A i \in 1 .. Len(backlog) : backlog'[i] = backlog[i]
    BY <1>1, <1>2, AppendProperties, LenProperties DEF Connect, SocketsI
  <2>4. \A i \in 1 .. Len(backlog) : backlog[i] # c /\ backlog[i] \in Peers
    BY <1>1, <2>2 DEF BacklogI, SocketsI
  <2>5. \A i \in 1 .. Len(backlog') : i = Len(backlog) + 1 \/ i \in 1 .. Len(backlog)
    BY <2>3
  <2>6. TypeOK' /\ SocketsI'
    BY <1>1, <2>1, <2>2, <2>3 DEF TypeOK, SocketsI
  <2>7. BacklogI'
    <3>1. \A i \in 1 .. Len(backlog') : phase'[backlog'[i]] = "queued"
      BY <1>1, <2>2, <2>3, <2>4, <2>5 DEF TypeOK, BacklogI
    <3>2. \A i, j \in 1 .. Len(backlog') : backlog'[i] = backlog'[j] => i = j
      BY <1>1, <2>3, <2>4, <2>5 DEF BacklogI
    <3> QED
      BY <3>1, <3>2 DEF BacklogI
  <2>8. TableI'
    BY <1>1, <2>1, <2>2 DEF TypeOK, TableI
  <2>9. backlog' # << >>
    BY <2>3, EmptySeq
  <2>10. RoundI' /\ WantsMatch'
    BY <1>1, <2>1, <2>9 DEF RoundI, WantsMatch
  <2> QED
    BY <2>6, <2>7, <2>8, <2>10 DEF IInv
<1>3. ASSUME NEW c \in Peers, PeerSend(c) \/ PeerRead(c) \/ PeerShutdown(c) \/ PeerReset(c) PROVE IInv'
  <2>1. /\ UNCHANGED <<max_connections, phase, backlog, taken, peer, conn, wants, revents, pc, faults>>
        /\ conns' = conns
    BY <1>3 DEF PeerSend, PeerRead, PeerShutdown, PeerReset, conns
  <2>2. tx' \in [Peers -> 0 .. SndBuf]
    <3>1. tx' = tx \/ tx' = [tx EXCEPT ![c] = 0]
      BY <1>3 DEF PeerSend, PeerRead, PeerShutdown, PeerReset
    <3>2. SndBuf \in Nat
      OBVIOUS
    <3>3. 0 \in 0 .. SndBuf /\ tx \in [Peers -> 0 .. SndBuf]
      BY <1>1, <3>2 DEF TypeOK
    <3> QED
      BY <3>1, <3>3
  <2>3. sent' \in [Peers -> Nat] /\ \A d \in Peers : taken[d] <= sent'[d] /\ sent'[d] <= Len(Stream[d])
    <3>1. sent' = sent \/ (sent' = [sent EXCEPT ![c] = @ + 1] /\ sent[c] < Len(Stream[c]))
      BY <1>3 DEF PeerSend, PeerRead, PeerShutdown, PeerReset
    <3>2. \A d \in Peers : Len(Stream[d]) \in Nat
      OBVIOUS
    <3>3. CASE sent' = sent
      BY <1>1, <3>3 DEF SocketsI
    <3>4. CASE sent' = [sent EXCEPT ![c] = @ + 1] /\ sent[c] < Len(Stream[c])
      <4>1. sent'[c] = sent[c] + 1 /\ \A d \in Peers : d # c => sent'[d] = sent[d]
        BY <1>1, <3>4 DEF SocketsI
      <4>2. sent[c] \in Nat /\ taken[c] \in Nat /\ taken[c] <= sent[c]
        BY <1>1 DEF SocketsI
      <4>3. taken[c] <= sent[c] + 1 /\ sent[c] + 1 <= Len(Stream[c]) /\ sent[c] + 1 \in Nat
        BY <3>2, <3>4, <4>2
      <4>4. sent' \in [Peers -> Nat]
        BY <1>1, <3>4, <4>3 DEF SocketsI
      <4> QED
        BY <1>1, <4>1, <4>3, <4>4 DEF SocketsI
    <3> QED
      BY <3>1, <3>3, <3>4
  <2>4. TypeOK' /\ SocketsI' /\ BacklogI'
    BY <1>1, <2>1, <2>2, <2>3 DEF TypeOK, SocketsI, BacklogI
  <2>5. TableI' /\ RoundI' /\ WantsMatch'
    BY <1>1, <2>1 DEF TableI, RoundI, WantsMatch
  <2> QED
    BY <2>4, <2>5 DEF IInv
<1>4. ASSUME NEW fd \in Fds, Deadline(fd) PROVE IInv'
  <2>1. /\ UNCHANGED <<max_connections, phase, backlog, sent, taken, tx, peer, wants, revents, pc, faults>>
        /\ conns' = conns /\ fd \in conns /\ conn' = [conn EXCEPT ![fd] = PassDeadline(conn[fd])]
    BY <1>4 DEF Deadline, conns
  <2>2. WellFormed(PassDeadline(conn[fd])) /\ PassDeadline(conn[fd]).state = conn[fd].state
    BY <1>1, <2>1, PassDeadlineType DEF TableI
  <2>3. PassDeadline(conn[fd]) \in Connections
    BY <2>2 DEF WellFormed
  <2> HIDE DEF PassDeadline
  <2>4. TypeOK' /\ SocketsI' /\ BacklogI'
    BY <1>1, <2>1, <2>3 DEF TypeOK, SocketsI, BacklogI
  <2>5. \A g \in Fds : WellFormed(conn[g]) => WellFormed(conn'[g]) /\ conn'[g].state = conn[g].state
    BY <1>1, <2>1, <2>2 DEF TypeOK
  <2>6. TableI' /\ RoundI' /\ WantsMatch'
    BY <1>1, <2>1, <2>5 DEF conns, TableI, RoundI, WantsMatch
  <2> QED
    BY <2>4, <2>6 DEF IInv
<1>5. CASE Signal
  BY <1>1, <1>5 DEF Signal, IInv, TypeOK, SocketsI, BacklogI, TableI, RoundI, WantsMatch, conns
<1> QED
  BY <1>2, <1>3, <1>4, <1>5 DEF Environment

-----------------------------------------------------------------------------
(* The loop *)

\* Connections that leave the table take their interests with them, and no
\* other connection or peer is touched.
LEMMA DropStep ==
    ASSUME TypeOK, SocketsI, BacklogI, TableI, WantsMatch,
           NEW S \in SUBSET conns, DropConns(S), UNCHANGED <<max_connections, backlog>>,
           \A fd \in Fds : revents'[fd] # "None" => fd \notin S /\ revents[fd] # "None"
    PROVE  /\ phase' \in [Peers -> {"idle", "queued", "open", "closed"}]
           /\ peer' \in [Fds -> Peers \union {NoPeer}]
           /\ conn' \in [Fds -> Connections]
           /\ wants' \in [Fds -> {"None", "Read", "Write"}]
           /\ BacklogI' /\ TableI' /\ WantsMatch'
           /\ Cardinality(conns)' <= Cardinality(conns)
<1> USE PollLoopAssumption
<1>1. \A fd \in S : fd \in Fds /\ peer[fd] \in Peers /\ phase[peer[fd]] = "open"
  BY DEF TypeOK, TableI, conns
<1>2. /\ \A fd \in S : wants'[fd] = "None" /\ peer'[fd] = NoPeer
      /\ \A fd \in Fds : fd \notin S => wants'[fd] = wants[fd] /\ peer'[fd] = peer[fd] /\ conn'[fd] = conn[fd]
  BY <1>1 DEF DropConns
<1>3. New \in Connections
  BY NewType DEF WellFormed
<1>4. /\ phase' \in [Peers -> {"idle", "queued", "open", "closed"}]
      /\ peer' \in [Fds -> Peers \union {NoPeer}]
      /\ conn' \in [Fds -> Connections]
      /\ wants' \in [Fds -> {"None", "Read", "Write"}]
  BY <1>3 DEF TypeOK, DropConns
<1>5. conns' = conns \ S /\ conns \in SUBSET Fds
  BY <1>2 DEF conns
<1>6. Cardinality(conns)' <= Cardinality(conns)
  BY <1>5, FdFacts, FS_Subset
<1>7. BacklogI'
  <2>1. \A i \in 1 .. Len(backlog) : backlog[i] \in Peers /\ \A fd \in S : peer[fd] # backlog[i]
    BY <1>1 DEF SocketsI, BacklogI
  <2>2. \A i \in 1 .. Len(backlog) : phase'[backlog[i]] = phase[backlog[i]]
    BY <2>1 DEF DropConns
  <2> QED
    BY <2>2 DEF BacklogI
<1>8. TableI'
  <2>1. \A fd \in conns' : peer[fd] \in Peers /\ \A g \in S : peer[g] # peer[fd]
    BY <1>5 DEF TypeOK, WantsMatch, conns
  <2>2. \A fd \in conns' : phase'[peer[fd]] = phase[peer[fd]]
    BY <2>1 DEF DropConns
  <2> QED
    BY <1>2, <1>5, <2>2 DEF TableI
<1>9. WantsMatch'
  <2>1. Cardinality(conns)' <= max_connections'
    BY <1>6, FdFacts, CapType DEF WantsMatch
  <2>2. \A fd, g \in conns' : peer'[fd] = peer'[g] => fd = g
    BY <1>2, <1>5 DEF WantsMatch
  <2>3. \A fd \in Fds : fd \in conns' <=> wants'[fd] # "None"
    BY <1>2, <1>5 DEF WantsMatch
  <2>4. \A fd \in conns' : conn'[fd].state # "Closed" /\ (wants'[fd] = "Write" <=> conn'[fd].state = "Writing")
    BY <1>2, <1>5 DEF WantsMatch
  <2>5. \A fd \in Fds : revents'[fd] # "None" => fd \in conns'
    BY <1>5 DEF WantsMatch
  <2> QED
    BY <2>1, <2>2, <2>3, <2>4, <2>5 DEF WantsMatch
<1> QED
  BY <1>4, <1>6, <1>7, <1>8, <1>9

\* poll reports events of fds in wants, and the listener below the cap.
LEMMA PollStep == ASSUME IInv, poll PROVE IInv'
<1>1. TypeOK /\ SocketsI /\ BacklogI /\ TableI /\ RoundI /\ WantsMatch
  BY DEF IInv
<1>2. /\ UNCHANGED <<max_connections, phase, backlog, sent, taken, tx, peer, conn, wants, faults>> /\ conns' = conns
      /\ pc' = "accept" /\ revents' = Reported(max_connections)
  BY DEF poll, Poll, sockVars, connVars, conns
<1>3. \A fd \in Fds : revents'[fd] \in {"None", "Io", "Hup"} /\ (revents'[fd] # "None" => wants[fd] # "None")
  BY <1>2, FdFacts DEF Reported, Ready
<1>4. /\ revents'[Listener] \in {"None", "Io"}
      /\ revents'[Listener] # "None" => Cardinality(conns) < max_connections /\ backlog # << >>
  BY <1>2 DEF Reported
<1>5. revents' \in [Fds \union {Listener} -> {"None", "Io", "Hup"}]
  BY <1>2, <1>3, <1>4 DEF Reported
<1>6. TypeOK' /\ SocketsI' /\ BacklogI' /\ TableI'
  BY <1>1, <1>2, <1>5 DEF TypeOK, SocketsI, BacklogI, TableI
<1>7. RoundI' /\ WantsMatch'
  BY <1>1, <1>2, <1>3, <1>4 DEF RoundI, WantsMatch
<1> QED
  BY <1>6, <1>7 DEF IInv

\* accept_one adds at most one connection, below the cap and on a free fd.
LEMMA AcceptStep == ASSUME IInv, accept_one PROVE IInv'
<1>1. TypeOK /\ SocketsI /\ BacklogI /\ TableI /\ RoundI /\ WantsMatch
  BY DEF IInv
<1> USE PollLoopAssumption DEF sockVars, connVars
<1>2. \A fd \in Fds : revents'[fd] = revents[fd]
  BY <1>1, FdFacts DEF TypeOK, accept_one, AcceptNone, AcceptFails, AcceptOk, AcceptFault, Accepting
<1>3. /\ pc = "accept" /\ pc' = "drive" /\ revents'[Listener] = "None"
      /\ revents' \in [Fds \union {Listener} -> {"None", "Io", "Hup"}]
      /\ faults' \in 0 .. MaxFaults
  BY <1>1 DEF TypeOK, accept_one, AcceptNone, AcceptFails, AcceptOk, AcceptFault, Accepting
<1>4. CASE AcceptNone \/ AcceptFails
  <2>1. UNCHANGED <<max_connections, phase, backlog, sent, taken, tx, peer, conn, wants>> /\ conns' = conns
    BY <1>4 DEF AcceptNone, AcceptFails, conns
  <2>2. TypeOK' /\ SocketsI' /\ BacklogI' /\ TableI'
    BY <1>1, <1>3, <2>1 DEF TypeOK, SocketsI, BacklogI, TableI
  <2>3. RoundI' /\ WantsMatch'
    BY <1>1, <1>2, <1>3, <2>1 DEF RoundI, WantsMatch
  <2> QED
    BY <2>2, <2>3 DEF IInv
<1>5. CASE AcceptOk \/ AcceptFault
  <2>1. PICK c : c = Head(backlog)
    OBVIOUS
  <2>2. backlog # << >> /\ Cardinality(conns) < max_connections
    BY <1>1, <1>5 DEF RoundI, AcceptOk, AcceptFault, Accepting
  <2>3. /\ c = backlog[1] /\ c \in Peers /\ Len(backlog) \in Nat \ {0}
        /\ backlog' \in Seq(Peers) /\ Len(backlog') = Len(backlog) - 1
        /\ \A i \in 1 .. Len(backlog) - 1 : backlog'[i] = backlog[i + 1]
    BY <1>1, <1>5, <2>1, <2>2, BacklogTail DEF SocketsI, AcceptOk, AcceptFault, Accepting
  <2>4. \A i \in 1 .. Len(backlog') : i + 1 \in 1 .. Len(backlog) /\ i + 1 # 1 /\ backlog'[i] = backlog[i + 1]
    BY <2>3
  <2>5. /\ UNCHANGED <<max_connections, sent, taken, tx>> /\ phase[c] = "queued"
        /\ \E p \in {"open", "closed"} : phase' = [phase EXCEPT ![c] = p]
    BY <1>1, <1>5, <2>1, <2>3 DEF BacklogI, AcceptOk, AcceptFault, Accepting
  <2>6. SocketsI'
    BY <1>1, <2>3, <2>5 DEF SocketsI
  <2>7. BacklogI'
    <3>1. 1 \in 1 .. Len(backlog)
      BY <2>3
    <3>2. \A i \in 1 .. Len(backlog') : backlog'[i] # c /\ backlog'[i] \in Peers
      <4> SUFFICES ASSUME NEW i \in 1 .. Len(backlog') PROVE backlog'[i] # c /\ backlog'[i] \in Peers
        OBVIOUS
      <4>1. i + 1 \in 1 .. Len(backlog) /\ i + 1 # 1 /\ backlog'[i] = backlog[i + 1]
        BY <2>4
      <4>2. backlog[i + 1] # backlog[1]
        BY <1>1, <3>1, <4>1 DEF BacklogI
      <4> QED
        BY <2>3, <4>1, <4>2
    <3>3. \A d \in Peers : d # c => phase'[d] = phase[d]
      BY <1>1, <2>5 DEF TypeOK
    <3>4. \A i \in 1 .. Len(backlog') : phase'[backlog'[i]] = "queued"
      BY <1>1, <2>4, <3>2, <3>3 DEF BacklogI
    <3>5. \A i, j \in 1 .. Len(backlog') : backlog'[i] = backlog'[j] => i = j
      <4> SUFFICES ASSUME NEW i \in 1 .. Len(backlog'), NEW j \in 1 .. Len(backlog'), backlog'[i] = backlog'[j]
                   PROVE  i = j
        OBVIOUS
      <4>1. i + 1 = j + 1
        BY <1>1, <2>4 DEF BacklogI
      <4> QED
        BY <4>1
    <3> QED
      BY <3>4, <3>5 DEF BacklogI
  <2>8. \A fd \in conns : peer[fd] # c /\ peer[fd] \in Peers
    BY <1>1, <2>5 DEF TypeOK, TableI, conns
  <2>9. CASE AcceptFault
    <3>1. UNCHANGED <<peer, conn, wants>> /\ conns' = conns
      BY <2>9 DEF AcceptFault, conns
    <3>2. TypeOK'
      BY <1>1, <1>3, <2>3, <2>5, <3>1 DEF TypeOK
    <3>3. \A d \in Peers : d # c => phase'[d] = phase[d]
      BY <1>1, <2>5 DEF TypeOK
    <3>4. TableI'
      BY <1>1, <2>8, <3>1, <3>3 DEF TableI
    <3>5. RoundI' /\ WantsMatch'
      BY <1>1, <1>2, <1>3, <2>5, <3>1 DEF RoundI, WantsMatch
    <3> QED
      BY <2>6, <2>7, <3>2, <3>4, <3>5 DEF IInv
  <2>10. CASE AcceptOk
    <3>1. PICK fd : fd = Min(FreeFds)
      OBVIOUS
    <3>2. fd \in Fds /\ fd \notin conns
      <4>1. FreeFds \in SUBSET Nat /\ FreeFds # {}
        BY <2>10, FdFacts DEF FreeFds, AcceptOk, Accepting
      <4> QED
        BY <3>1, <4>1, MinIsLeast DEF FreeFds
    <3>3. /\ peer' = [peer EXCEPT ![fd] = c] /\ conn' = [conn EXCEPT ![fd] = New]
          /\ wants' = [wants EXCEPT ![fd] = "Read"] /\ phase' = [phase EXCEPT ![c] = "open"]
      BY <2>1, <2>10, <3>1 DEF AcceptOk
    <3>4. WellFormed(New) /\ New \in Connections /\ New.state = "Reading"
      BY NewType DEF WellFormed
    <3> HIDE DEF New
    <3>5. /\ peer'[fd] = c /\ conn'[fd] = New /\ wants'[fd] = "Read" /\ phase'[c] = "open"
          /\ \A g \in Fds : g # fd => peer'[g] = peer[g] /\ conn'[g] = conn[g] /\ wants'[g] = wants[g]
          /\ \A d \in Peers : d # c => phase'[d] = phase[d]
      BY <1>1, <2>3, <3>2, <3>3 DEF TypeOK
    <3>6. conns' = conns \union {fd} /\ conns \in SUBSET Fds
      BY <2>3, <3>2, <3>5 DEF conns
    <3>7. Cardinality(conns)' = Cardinality(conns) + 1
      BY <3>2, <3>6, FdFacts, FS_AddElement
    <3>8. TypeOK'
      BY <1>1, <1>3, <2>3, <2>5, <3>3, <3>4 DEF TypeOK
    <3>9. TableI'
      BY <1>1, <2>8, <3>2, <3>4, <3>5, <3>6 DEF TableI
    <3>10. RoundI'
      BY <1>1, <1>3 DEF RoundI
    <3>11. Cardinality(conns)' <= max_connections'
      BY <1>1, <2>2, <2>5, <3>7, FdFacts, CapType
    <3>12. \A g, h \in conns' : peer'[g] = peer'[h] => g = h
      BY <1>1, <2>8, <3>2, <3>5, <3>6 DEF WantsMatch
    <3>13. \A g \in Fds : g \in conns' <=> wants'[g] # "None"
      BY <1>1, <3>2, <3>5, <3>6 DEF WantsMatch
    <3>14. \A g \in conns' : conn'[g].state # "Closed" /\ (wants'[g] = "Write" <=> conn'[g].state = "Writing")
      BY <1>1, <3>2, <3>4, <3>5, <3>6 DEF WantsMatch
    <3>15. \A g \in Fds : revents'[g] # "None" => g \in conns'
      BY <1>1, <1>2, <3>6 DEF WantsMatch
    <3>16. WantsMatch'
      BY <3>11, <3>12, <3>13, <3>14, <3>15 DEF WantsMatch
    <3> QED
      BY <2>6, <2>7, <3>8, <3>9, <3>10, <3>16 DEF IInv
  <2> QED
    BY <1>5, <2>9, <2>10
<1> QED
  BY <1>4, <1>5 DEF accept_one

\* The event of an fd is taken from the round; the fd is in the table.
LEMMA TakeFacts ==
    ASSUME IInv, NEW fd \in Fds, NEW e \in {"Io", "Hup"}, Take(fd, e)
    PROVE  /\ fd \in conns /\ peer[fd] \in Peers /\ WellFormed(conn[fd])
           /\ revents' \in [Fds \union {Listener} -> {"None", "Io", "Hup"}]
           /\ \A g \in Fds : revents'[g] # "None" => g # fd /\ revents[g] # "None"
           /\ pc \in {"drive"} /\ RoundI'
           /\ UNCHANGED <<max_connections, backlog, sent, pc, faults>>
<1>1. TypeOK /\ TableI /\ RoundI /\ WantsMatch
  BY DEF IInv
<1>2. /\ pc = "drive" /\ revents[fd] = e /\ revents' = [revents EXCEPT ![fd] = "None"]
      /\ UNCHANGED <<max_connections, backlog, sent, pc, faults>>
  BY DEF Take
<1>3. fd \in conns
  BY <1>1, <1>2 DEF WantsMatch
<1>4. peer[fd] \in Peers /\ WellFormed(conn[fd])
  BY <1>1, <1>3 DEF TypeOK, TableI, conns
<1>5. /\ revents' \in [Fds \union {Listener} -> {"None", "Io", "Hup"}]
      /\ \A g \in Fds : revents'[g] # "None" => g # fd /\ revents[g] # "None"
      /\ revents'[Listener] = revents[Listener]
  BY <1>1, <1>2, FdFacts DEF TypeOK
<1>6. RoundI'
  BY <1>1, <1>2, <1>5 DEF RoundI
<1> QED
  BY <1>2, <1>3, <1>4, <1>5, <1>6

\* A connection that is driven to its end leaves the table.
LEMMA EndStep ==
    ASSUME IInv, NEW fd \in Fds, NEW e \in {"Io", "Hup"}, Take(fd, e), DropConns({fd}),
           SocketsI', tx' \in [Peers -> 0 .. SndBuf]
    PROVE  IInv'
<1>1. TypeOK /\ SocketsI /\ BacklogI /\ TableI /\ WantsMatch
  BY DEF IInv
<1>2. /\ {fd} \in SUBSET conns /\ UNCHANGED <<max_connections, backlog, pc, faults>> /\ RoundI'
      /\ revents' \in [Fds \union {Listener} -> {"None", "Io", "Hup"}]
      /\ \A g \in Fds : revents'[g] # "None" => g \notin {fd} /\ revents[g] # "None"
  BY TakeFacts
<1>3. /\ phase' \in [Peers -> {"idle", "queued", "open", "closed"}]
      /\ peer' \in [Fds -> Peers \union {NoPeer}]
      /\ conn' \in [Fds -> Connections]
      /\ wants' \in [Fds -> {"None", "Read", "Write"}]
      /\ BacklogI' /\ TableI' /\ WantsMatch'
  BY <1>1, <1>2, DropStep
<1>4. TypeOK'
  BY <1>1, <1>2, <1>3 DEF TypeOK
<1> QED
  BY <1>2, <1>3, <1>4 DEF IInv

\* drive records the interest of the state drive_io leaves the connection in.
LEMMA ApplyStep ==
    ASSUME IInv, NEW fd \in Fds, Take(fd, "Io"), NEW k, WellFormed(k), Apply(fd, k),
           SocketsI', tx' \in [Peers -> 0 .. SndBuf]
    PROVE  IInv'
<1>1. TypeOK /\ SocketsI /\ BacklogI /\ TableI /\ WantsMatch
  BY DEF IInv
<1>2. CASE DropConns({fd})
  BY <1>2, EndStep
<1>3. CASE ~DropConns({fd})
  <2>1. k \in Connections /\ k.state \in States
    BY DEF WellFormed, Connections
  <2>2. /\ ActionForState(k) # "Close" /\ conn' = [conn EXCEPT ![fd] = k]
        /\ wants' = [wants EXCEPT ![fd] = IF ActionForState(k) = "WantRead" THEN "Read" ELSE "Write"]
        /\ UNCHANGED <<peer, phase>> /\ conns' = conns
    BY <1>3 DEF Apply, conns
  <2>3. k.state # "Closed" /\ wants' = [wants EXCEPT ![fd] = IF k.state = "Writing" THEN "Write" ELSE "Read"]
    BY <2>1, <2>2 DEF ActionForState, States
  <2>4. /\ fd \in conns /\ UNCHANGED <<max_connections, backlog, pc, faults>> /\ RoundI'
        /\ revents' \in [Fds \union {Listener} -> {"None", "Io", "Hup"}]
        /\ \A g \in Fds : revents'[g] # "None" => revents[g] # "None"
    BY TakeFacts
  <2>5. /\ conn'[fd] = k /\ wants'[fd] \in {"Read", "Write"} /\ (wants'[fd] = "Write" <=> k.state = "Writing")
        /\ \A g \in Fds : g # fd => conn'[g] = conn[g] /\ wants'[g] = wants[g]
    BY <1>1, <2>2, <2>3 DEF TypeOK
  <2>6. TypeOK'
    BY <1>1, <2>1, <2>2, <2>3, <2>4 DEF TypeOK
  <2>7. BacklogI' /\ TableI'
    BY <1>1, <2>2, <2>4, <2>5 DEF BacklogI, TableI, conns
  <2>8. WantsMatch'
    BY <1>1, <2>2, <2>3, <2>4, <2>5 DEF WantsMatch
  <2> QED
    BY <2>4, <2>6, <2>7, <2>8 DEF IInv
<1> QED
  BY <1>2, <1>3

\* One read or one write of a ready connection.
LEMMA DriveStep == ASSUME IInv, NEW fd \in Fds, drive(fd) PROVE IInv'
<1> USE PollLoopAssumption
<1>1. TypeOK /\ SocketsI
  BY DEF IInv
<1>2. CASE DriveHup(fd) \/ DriveReadEnd(fd) \/ DriveWriteFails(fd)
  <2>1. PICK e \in {"Io", "Hup"} : Take(fd, e)
    BY <1>2 DEF DriveHup, DriveReadEnd, DriveWriteFails
  <2>2. DropConns({fd}) /\ UNCHANGED <<taken, tx>>
    BY <1>2 DEF DriveHup, DriveReadEnd, DriveWriteFails
  <2>3. SocketsI' /\ tx' \in [Peers -> 0 .. SndBuf]
    BY <1>1, <2>1, <2>2 DEF SocketsI, TypeOK, Take
  <2> QED
    BY <2>1, <2>2, <2>3, EndStep
<1>3. CASE DriveRead(fd)
  <2>1. PICK c, n : c = peer[fd] /\ n = Min({ReadChunk, sent[c] - taken[c]})
    OBVIOUS
  <2>2. /\ Take(fd, "Io") /\ taken[c] < sent[c] /\ taken' = [taken EXCEPT ![c] = taken[c] + n] /\ tx' = tx
        /\ Apply(fd, OnBytes(conn[fd], SubSeq(Stream[c], taken[c] + 1, taken[c] + n)))
    BY <1>3, <2>1 DEF DriveRead
  <2>3. c \in Peers /\ WellFormed(conn[fd]) /\ UNCHANGED <<max_connections, backlog, sent>>
    BY <2>1, <2>2, TakeFacts
  <2>4. /\ taken[c] \in Nat /\ sent[c] \in Nat /\ sent[c] <= Len(Stream[c]) /\ Len(Stream[c]) \in Nat
        /\ sent[c] - taken[c] \in Nat /\ Stream[c] \in Seq(Units)
    BY <1>1, <2>2, <2>3 DEF SocketsI
  <2>5. n \in Nat /\ n <= sent[c] - taken[c]
    <3>1. ReadChunk \in Nat
      OBVIOUS
    <3>2. PICK m : m = sent[c] - taken[c]
      OBVIOUS
    <3>3. m \in Nat /\ n = Min({ReadChunk, m})
      BY <2>1, <2>4, <3>2
    <3> QED
      BY <3>1, <3>2, <3>3, MinOfTwo
  <2>6. taken[c] + n \in Nat /\ taken[c] + n <= sent[c] /\ taken[c] + n <= Len(Stream[c])
    BY <2>4, <2>5
  <2>7. SocketsI' /\ tx' \in [Peers -> 0 .. SndBuf]
    BY <1>1, <2>2, <2>3, <2>6 DEF SocketsI, TypeOK
  <2>8. SubSeq(Stream[c], taken[c] + 1, taken[c] + n) \in Seq(Units)
    BY <2>4, <2>6, SubSeqProperties
  <2>9. PICK k : k = OnBytes(conn[fd], SubSeq(Stream[c], taken[c] + 1, taken[c] + n))
    OBVIOUS
  <2>10. WellFormed(k)
    BY <2>3, <2>8, <2>9, OnBytesType
  <2> QED
    BY <2>2, <2>7, <2>9, <2>10, ApplyStep
<1>4. CASE DriveWrite(fd)
  <2>1. PICK c, n : c = peer[fd] /\ n = Min({PendingWrite(conn[fd]), SndBuf - tx[c]})
    OBVIOUS
  <2>2. PICK k : k = OnWritten(conn[fd], n)
    OBVIOUS
  <2>3. Take(fd, "Io") /\ ~Reading(fd) /\ tx' = [tx EXCEPT ![c] = tx[c] + n] /\ Apply(fd, k) /\ taken' = taken
    BY <1>4, <2>1, <2>2 DEF DriveWrite
  <2>4. c \in Peers /\ WellFormed(conn[fd]) /\ UNCHANGED <<max_connections, backlog, sent>>
    BY <2>1, <2>3, TakeFacts
  <2>5. conn[fd] \in Connections /\ conn[fd].state = "Writing" /\ conn[fd].pending \in Nat \ {0}
    BY <2>3, <2>4 DEF WellFormed, Connections, Reading, PendingWrite
  <2>6. PendingWrite(conn[fd]) = conn[fd].pending
    BY <2>5 DEF PendingWrite
  <2>7. SndBuf \in Nat /\ tx[c] \in 0 .. SndBuf /\ SndBuf - tx[c] \in Nat
    <3>1. SndBuf \in Nat
      OBVIOUS
    <3>2. tx[c] \in 0 .. SndBuf
      BY <1>1, <2>4 DEF TypeOK
    <3> QED
      BY <3>1, <3>2
  <2>8. n \in Nat /\ n <= conn[fd].pending /\ n <= SndBuf - tx[c]
    BY <2>1, <2>5, <2>6, <2>7, MinOfTwo
  <2>9. tx[c] + n \in 0 .. SndBuf
    BY <2>7, <2>8
  <2>10. SocketsI' /\ tx' \in [Peers -> 0 .. SndBuf]
    BY <1>1, <2>3, <2>4, <2>9 DEF SocketsI, TypeOK
  <2>11. CASE n = 0
    <3>1. k = [conn[fd] EXCEPT !.pending = @ - 0]
      BY <2>2, <2>5, <2>11 DEF OnWritten
    <3>2. WellFormed(k)
      BY <2>5, <3>1 DEF WellFormed, Connections
    <3> QED
      BY <2>3, <2>10, <3>2, ApplyStep
  <2>12. CASE n # 0
    <3>1. n \in 1 .. conn[fd].pending
      BY <2>5, <2>8, <2>12
    <3>2. WellFormed(k)
      BY <2>2, <2>4, <2>5, <3>1, OnWrittenType
    <3> QED
      BY <2>3, <2>10, <3>2, ApplyStep
  <2> QED
    BY <2>11, <2>12
<1> QED
  BY <1>2, <1>3, <1>4 DEF drive

\* The sweep drops what has expired, and serve, when it returns, everything.
LEMMA SweepStep == ASSUME IInv, Sweep \/ Stop PROVE IInv'
<1> USE PollLoopAssumption
<1>1. TypeOK /\ SocketsI /\ BacklogI /\ TableI /\ RoundI /\ WantsMatch
  BY DEF IInv
<1>2. CASE Sweep
  <2>1. PICK S : S = {fd \in conns : IsExpired(conn[fd])}
    OBVIOUS
  <2>2. /\ S \in SUBSET conns /\ DropConns(S) /\ \A fd \in Fds : revents'[fd] = "None"
        /\ UNCHANGED <<max_connections, backlog, sent, taken, tx, revents, faults>> /\ pc = "drive" /\ pc' = "poll"
    BY <1>2, <2>1 DEF Sweep
  <2>3. /\ phase' \in [Peers -> {"idle", "queued", "open", "closed"}]
        /\ peer' \in [Fds -> Peers \union {NoPeer}]
        /\ conn' \in [Fds -> Connections]
        /\ wants' \in [Fds -> {"None", "Read", "Write"}]
        /\ BacklogI' /\ TableI' /\ WantsMatch'
    BY <1>1, <2>2, DropStep
  <2>4. TypeOK' /\ SocketsI' /\ RoundI'
    BY <1>1, <2>2, <2>3 DEF TypeOK, SocketsI, RoundI
  <2> QED
    BY <2>3, <2>4 DEF IInv
<1>3. CASE Stop
  <2>1. conns' = {}
    BY <1>3 DEF Stop, conns
  <2>2. Cardinality(conns)' = 0
    BY <2>1, FS_EmptySet, Zenon
  <2>3. New \in Connections
    BY NewType DEF WellFormed
  <2>4. TypeOK'
    BY <1>1, <1>3, <2>3 DEF Stop, TypeOK
  <2>5. backlog' \in Seq(Peers) /\ Len(backlog') = 0
    BY <1>3 DEF Stop
  <2>6. SocketsI' /\ BacklogI' /\ TableI'
    BY <1>1, <1>3, <2>1, <2>5 DEF Stop, SocketsI, BacklogI, TableI
  <2>7. RoundI'
    BY <1>1, <1>3 DEF Stop, RoundI
  <2>8. \A fd \in Fds : wants'[fd] = "None" /\ revents'[fd] = "None"
    BY <1>1, <1>3 DEF Stop, RoundI
  <2>9. max_connections' \in Nat
    BY <1>1, <1>3, CapType DEF Stop
  <2>10. WantsMatch'
    BY <2>1, <2>2, <2>8, <2>9 DEF WantsMatch
  <2> QED
    BY <2>4, <2>6, <2>7, <2>10 DEF IInv
<1> QED
  BY <1>2, <1>3

\* The invariant is inductive.
LEMMA StepIInv == IInv /\ [Next]_vars => IInv'
<1> SUFFICES ASSUME IInv, [Next]_vars PROVE IInv'
  OBVIOUS
<1>1. CASE Next
  BY <1>1, EnvironmentStep, PollStep, AcceptStep, DriveStep, SweepStep DEF Next, serve
<1>2. CASE UNCHANGED vars
  BY <1>2 DEF vars, sockVars, connVars, IInv, TypeOK, SocketsI, BacklogI, TableI, RoundI, WantsMatch, conns
<1> QED
  BY <1>1, <1>2

-----------------------------------------------------------------------------
(* The theorems *)

\* The poll loop never leaves the invariant.
THEOREM PollLoopInvariant == Spec => []IInv
BY InitIInv, StepIInv, PTL DEF Spec

\* No variable leaves its domain: no write overfills a send queue, and the
\* connections in the table are ones conn.rs can make.
THEOREM PollLoopTypeCorrect == Spec => []TypeOK
<1>1. IInv => TypeOK
  BY DEF IInv
<1> QED
  BY <1>1, PollLoopInvariant, PTL

\* For any number of peers and fds, any cap and any streams, the loop polls
\* every open connection for the direction its state waits for and nothing
\* else, and drives none that an earlier event of the round has closed.
THEOREM WantsAlwaysMatch == Spec => []WantsMatch
<1>1. IInv => WantsMatch
  BY DEF IInv
<1> QED
  BY <1>1, PollLoopInvariant, PTL

-----------------------------------------------------------------------------
(* The events of a round *)

\* An event that is still to be handled still holds, although peers, the accept
\* and other connections have moved since poll reported it: the read or write
\* it announces does not block.
EventsI ==
    \A fd \in Fds :
        /\ revents[fd] = "Hup" => rst[peer[fd]]
        /\ revents[fd] = "Io" /\ conn[fd].state = "Reading" =>
              taken[peer[fd]] < sent[peer[fd]] \/ fin[peer[fd]]
        /\ revents[fd] = "Io" /\ conn[fd].state = "Writing" => tx[peer[fd]] < SndBuf

HistoryI ==
    /\ fin \in [Peers -> BOOLEAN] /\ rst \in [Peers -> BOOLEAN]
    /\ answered \in [Peers -> Nat]

\* An event outlives a step in which its connection stays as it is and its
\* socket only gets more ready.
LEMMA EventKept ==
    ASSUME IInv, IInv', EventsI,
           \A fd \in Fds : revents'[fd] # "None" =>
               /\ revents'[fd] = revents[fd] /\ peer'[fd] = peer[fd]
               /\ conn'[fd].state = conn[fd].state
               /\ taken'[peer[fd]] = taken[peer[fd]] /\ sent[peer[fd]] <= sent'[peer[fd]]
               /\ tx'[peer[fd]] <= tx[peer[fd]]
               /\ (fin[peer[fd]] => fin'[peer[fd]]) /\ (rst[peer[fd]] => rst'[peer[fd]])
    PROVE  EventsI'
<1> SUFFICES ASSUME NEW fd \in Fds, revents'[fd] # "None"
             PROVE  /\ revents'[fd] = "Hup" => rst'[peer'[fd]]
                    /\ revents'[fd] = "Io" /\ conn'[fd].state = "Reading" =>
                          taken'[peer'[fd]] < sent'[peer'[fd]] \/ fin'[peer'[fd]]
                    /\ revents'[fd] = "Io" /\ conn'[fd].state = "Writing" => tx'[peer'[fd]] < SndBuf
  BY DEF EventsI
<1>1. PICK c : c = peer[fd]
  OBVIOUS
<1>2. /\ revents'[fd] = revents[fd] /\ peer'[fd] = c /\ conn'[fd].state = conn[fd].state
      /\ taken'[c] = taken[c] /\ sent[c] <= sent'[c] /\ tx'[c] <= tx[c]
  BY <1>1
<1>3. (fin[c] => fin'[c]) /\ (rst[c] => rst'[c])
  BY <1>1
<1>4. fd \in conns
  BY <1>2 DEF IInv, WantsMatch
<1>5. c \in Peers
  BY <1>1, <1>4 DEF IInv, TypeOK, conns
<1>6. /\ taken[c] \in Nat /\ sent[c] \in Nat /\ sent'[c] \in Nat
      /\ SndBuf \in Nat /\ tx[c] \in Nat /\ tx'[c] \in Nat
  <2>1. SndBuf \in Nat
    BY PollLoopAssumption
  <2>2. tx[c] \in 0 .. SndBuf /\ tx'[c] \in 0 .. SndBuf
    BY <1>5 DEF IInv, TypeOK
  <2>3. taken[c] \in Nat /\ sent[c] \in Nat /\ sent'[c] \in Nat
    BY <1>5 DEF IInv, SocketsI
  <2> QED
    BY <2>1, <2>2, <2>3
<1>7. taken[c] < sent[c] => taken'[c] < sent'[c]
  BY <1>2, <1>6
<1>8. tx[c] < SndBuf => tx'[c] < SndBuf
  BY <1>2, <1>6
<1>9. revents[fd] = "Hup" => rst[c]
  BY <1>1 DEF EventsI
<1>10. revents[fd] = "Io" /\ conn[fd].state = "Reading" => taken[c] < sent[c] \/ fin[c]
  BY <1>1 DEF EventsI
<1>11. revents[fd] = "Io" /\ conn[fd].state = "Writing" => tx[c] < SndBuf
  BY <1>1 DEF EventsI
<1>12. revents'[fd] = "Hup" => rst'[peer'[fd]]
  BY <1>2, <1>3, <1>9, Zenon
<1>13. revents'[fd] = "Io" /\ conn'[fd].state = "Reading" =>
          taken'[peer'[fd]] < sent'[peer'[fd]] \/ fin'[peer'[fd]]
  BY <1>2, <1>3, <1>7, <1>10, Zenon
<1>14. revents'[fd] = "Io" /\ conn'[fd].state = "Writing" => tx'[peer'[fd]] < SndBuf
  BY <1>2, <1>8, <1>11, Zenon
<1> QED
  BY <1>12, <1>13, <1>14

\* Peers only make their sockets more ready, and the clock none less.
LEMMA EnvironmentEvents ==
    ASSUME IInv, IInv', EventsI, HistoryI, Environment
    PROVE  EventsI' /\ HistoryI'
<1> USE PollLoopAssumption DEF sockVars, connVars, loopVars
<1>1. UNCHANGED <<taken, peer, revents, answered>>
  BY DEF Environment, Connect, PeerSend, PeerRead, PeerShutdown, PeerReset, Deadline, Signal
<1>2. HistoryI'
  <2>1. fin' = fin \/ \E c \in Peers : fin' = [fin EXCEPT ![c] = TRUE]
    BY DEF Environment, Connect, PeerSend, PeerRead, PeerShutdown, PeerReset, Deadline, Signal
  <2>2. rst' = rst \/ \E c \in Peers : rst' = [rst EXCEPT ![c] = TRUE]
    BY DEF Environment, Connect, PeerSend, PeerRead, PeerShutdown, PeerReset, Deadline, Signal
  <2> QED
    BY <1>1, <2>1, <2>2 DEF HistoryI
<1>3. \A c \in Peers : (fin[c] => fin'[c]) /\ (rst[c] => rst'[c])
  <2>1. fin' = fin \/ \E c \in Peers : fin' = [fin EXCEPT ![c] = TRUE]
    BY DEF Environment, Connect, PeerSend, PeerRead, PeerShutdown, PeerReset, Deadline, Signal
  <2>2. rst' = rst \/ \E c \in Peers : rst' = [rst EXCEPT ![c] = TRUE]
    BY DEF Environment, Connect, PeerSend, PeerRead, PeerShutdown, PeerReset, Deadline, Signal
  <2> QED
    BY <2>1, <2>2 DEF HistoryI
<1>4. \A c \in Peers : sent[c] <= sent'[c] /\ tx'[c] <= tx[c]
  <2>1. \A c \in Peers : sent[c] \in Nat
    BY DEF IInv, SocketsI
  <2>2. SndBuf \in Nat
    OBVIOUS
  <2>3. \A c \in Peers : tx[c] \in Nat
    BY <2>2 DEF IInv, TypeOK
  <2>4. sent' = sent \/ \E c \in Peers : sent' = [sent EXCEPT ![c] = @ + 1]
    BY DEF Environment, Connect, PeerSend, PeerRead, PeerShutdown, PeerReset, Deadline, Signal
  <2>5. tx' = tx \/ \E c \in Peers : tx' = [tx EXCEPT ![c] = 0]
    BY DEF Environment, Connect, PeerSend, PeerRead, PeerShutdown, PeerReset, Deadline, Signal
  <2>6. sent \in [Peers -> Nat] /\ tx \in [Peers -> 0 .. SndBuf]
    BY DEF IInv, SocketsI, TypeOK
  <2>7. \A c \in Peers : sent'[c] = sent[c] \/ sent'[c] = sent[c] + 1
    BY <2>4, <2>6
  <2>8. \A c \in Peers : tx'[c] = tx[c] \/ tx'[c] = 0
    BY <2>5, <2>6
  <2> QED
    BY <2>1, <2>3, <2>7, <2>8
<1>5. \A fd \in Fds : conn'[fd].state = conn[fd].state
  <2>1. CASE \E fd \in Fds : Deadline(fd)
    <3>1. PICK fd \in Fds : fd \in conns /\ conn' = [conn EXCEPT ![fd] = PassDeadline(conn[fd])]
      BY <2>1 DEF Deadline
    <3>2. PassDeadline(conn[fd]).state = conn[fd].state
      BY <3>1, PassDeadlineType DEF IInv, TableI
    <3> HIDE DEF PassDeadline
    <3> QED
      BY <3>1, <3>2 DEF IInv, TypeOK
  <2>2. CASE ~ \E fd \in Fds : Deadline(fd)
    BY <2>2 DEF Environment, Connect, PeerSend, PeerRead, PeerShutdown, PeerReset, Signal
  <2> QED
    BY <2>1, <2>2
<1>6. \A fd \in Fds : revents[fd] # "None" => peer[fd] \in Peers
  BY DEF IInv, TypeOK, WantsMatch, conns
<1> QED
  BY <1>1, <1>2, <1>3, <1>4, <1>5, <1>6, EventKept

\* poll reports what holds.
LEMMA PollEvents ==
    ASSUME IInv, poll PROVE EventsI'
<1>1. /\ UNCHANGED <<sent, taken, fin, rst, tx, peer, conn, wants>> /\ revents' = Reported(max_connections)
  BY DEF poll, Poll, sockVars, connVars
<1> SUFFICES ASSUME NEW fd \in Fds
             PROVE  /\ revents'[fd] = "Hup" => rst[peer[fd]]
                    /\ revents'[fd] = "Io" /\ conn[fd].state = "Reading" =>
                          taken[peer[fd]] < sent[peer[fd]] \/ fin[peer[fd]]
                    /\ revents'[fd] = "Io" /\ conn[fd].state = "Writing" => tx[peer[fd]] < SndBuf
  BY <1>1 DEF EventsI
<1>2. revents'[fd] = IF wants[fd] = "None" THEN "None" ELSE Ready(fd)
  BY <1>1, FdFacts DEF Reported
<1>3. revents'[fd] # "None" => wants[fd] # "None" /\ (wants[fd] = "Write" <=> conn[fd].state = "Writing")
  BY <1>2 DEF IInv, WantsMatch
<1> QED
  BY <1>2, <1>3 DEF Ready

\* The accept fills an fd that no event is for; driving an fd takes its event
\* and touches no other connection's socket; a round ends without events.
LEMMA LoopEvents ==
    ASSUME IInv, IInv', EventsI, accept_one \/ (\E fd \in Fds : drive(fd)) \/ Sweep \/ Stop
    PROVE  EventsI'
<1> USE DEF sockVars, connVars
<1>1. /\ \A g \in Fds : revents[g] # "None" => g \in conns /\ peer[g] \in Peers
      /\ \A g, h \in conns : peer[g] = peer[h] => g = h
  BY DEF IInv, TypeOK, WantsMatch, conns
<1>2. \A c \in Peers : sent[c] \in Nat /\ tx[c] \in Nat
  <2>1. SndBuf \in Nat
    BY PollLoopAssumption
  <2>2. \A c \in Peers : tx[c] \in 0 .. SndBuf
    BY DEF IInv, TypeOK
  <2> QED
    BY <2>1, <2>2 DEF IInv, SocketsI
<1>3. CASE accept_one
  <2>1. UNCHANGED <<sent, taken, fin, rst, tx>> /\ \A g \in Fds : revents'[g] = revents[g]
    BY <1>3, FdFacts DEF IInv, TypeOK, accept_one, AcceptNone, AcceptFails, AcceptOk, AcceptFault, Accepting
  <2>2. \A g \in conns : peer'[g] = peer[g] /\ conn'[g] = conn[g]
    <3>1. CASE AcceptOk
      <4>1. PICK fd : fd = Min(FreeFds)
        OBVIOUS
      <4>2. FreeFds \in SUBSET Nat /\ FreeFds # {}
        BY <3>1, FdFacts DEF FreeFds, AcceptOk, Accepting
      <4>3. fd \in Fds /\ fd \notin conns
        BY <4>1, <4>2, MinIsLeast DEF FreeFds
      <4>4. peer' = [peer EXCEPT ![fd] = Head(backlog)] /\ conn' = [conn EXCEPT ![fd] = New]
        BY <3>1, <4>1 DEF AcceptOk
      <4> QED
        BY <4>3, <4>4 DEF IInv, TypeOK, conns
    <3>2. CASE ~AcceptOk
      BY <1>3, <3>2 DEF accept_one, AcceptNone, AcceptFails, AcceptFault
    <3> QED
      BY <3>1, <3>2
  <2> QED
    BY <1>1, <1>2, <2>1, <2>2, EventKept
<1>4. ASSUME NEW fd \in Fds, drive(fd) PROVE EventsI'
  <2>1. PICK e \in {"Io", "Hup"} : Take(fd, e)
    BY <1>4 DEF drive, DriveHup, DriveRead, DriveReadEnd, DriveWrite, DriveWriteFails
  <2>2. UNCHANGED <<sent, fin, rst>> /\ \A g \in Fds : revents'[g] # "None" => g # fd /\ revents'[g] = revents[g]
    BY <2>1, FdFacts DEF IInv, TypeOK, Take
  <2>3. fd \in conns
    BY <2>1, TakeFacts
  <2>4. \A g \in Fds : g # fd => peer'[g] = peer[g] /\ conn'[g] = conn[g]
    BY <1>4 DEF IInv, TypeOK, drive, DriveHup, DriveRead, DriveReadEnd, DriveWrite, DriveWriteFails, Apply, DropConns
  <2>5. \A c \in Peers : c # peer[fd] => taken'[c] = taken[c] /\ tx'[c] = tx[c]
    BY <1>4 DEF IInv, TypeOK, SocketsI, drive, DriveHup, DriveRead, DriveReadEnd, DriveWrite, DriveWriteFails
  <2>6. \A g \in Fds : revents'[g] # "None" => g # fd /\ peer[g] # peer[fd] /\ peer[g] \in Peers
    BY <1>1, <2>2, <2>3
  <2> QED
    BY <1>2, <2>2, <2>4, <2>5, <2>6, EventKept
<1>5. CASE Sweep \/ Stop
  <2>1. \A g \in Fds : revents'[g] = "None"
    BY <1>5 DEF Sweep, Stop, IInv, RoundI
  <2> QED
    BY <2>1 DEF EventsI
<1> QED
  BY <1>3, <1>4, <1>5

\* What poll reported holds until it is handled.
LEMMA EventsAlwaysHold == Spec => [](IInv /\ EventsI /\ HistoryI)
<1>1. Init => EventsI /\ HistoryI
  BY FdFacts DEF Init, EventsI, HistoryI
<1>2. ASSUME IInv, IInv', EventsI, HistoryI, [Next]_vars PROVE EventsI' /\ HistoryI'
  <2>1. CASE Environment
    BY <1>2, <2>1, EnvironmentEvents
  <2>2. CASE serve
    <3>1. EventsI'
      BY <1>2, <2>2, PollEvents, LoopEvents DEF serve
    <3>2. UNCHANGED <<fin, rst>>
      BY <2>2 DEF serve, poll, Poll, accept_one, AcceptNone, AcceptFails, AcceptOk, AcceptFault, Accepting,
                  drive, DriveHup, DriveRead, DriveReadEnd, DriveWrite, DriveWriteFails, Take, Sweep, Stop, sockVars
    <3>3. answered' = answered \/ \E c \in Peers \union {NoPeer} : \E n \in {answered[c], answered[c] + 1} :
                                      answered' = [answered EXCEPT ![c] = n]
      <4>1. CASE \E fd \in Fds : DriveWrite(fd)
        <5>1. PICK fd \in Fds : DriveWrite(fd)
          BY <4>1
        <5>2. peer[fd] \in Peers \union {NoPeer}
          BY <1>2 DEF IInv, TypeOK
        <5> QED
          BY <5>1, <5>2 DEF DriveWrite
      <4>2. CASE ~ \E fd \in Fds : DriveWrite(fd)
        BY <2>2, <4>2 DEF serve, poll, Poll, accept_one, AcceptNone, AcceptFails, AcceptOk, AcceptFault, Accepting,
                          drive, DriveHup, DriveRead, DriveReadEnd, DriveWriteFails, Sweep, Stop, sockVars
      <4> QED
        BY <4>1, <4>2
    <3>4. answered' \in [Peers -> Nat]
      BY <1>2, <3>3, PollLoopAssumption DEF HistoryI
    <3> QED
      BY <1>2, <3>1, <3>2, <3>4 DEF HistoryI
  <2>3. CASE UNCHANGED vars
    BY <1>2, <2>3 DEF vars, sockVars, connVars, EventsI, HistoryI
  <2> QED
    BY <1>2, <2>1, <2>2, <2>3 DEF Next
<1>3. IInv /\ IInv' /\ EventsI /\ HistoryI /\ [Next]_vars => EventsI' /\ HistoryI'
  BY <1>2
<1> QED
  BY <1>1, <1>3, PollLoopInvariant, PTL DEF Spec

\* The poll loop closes no connection without a cause: neither the stale answer
\* of poll nor the one read or write per round lets drive drop a connection
\* whose peer, half closed or not, still has input unread or a reply to come.
THEOREM NeverClosedWithoutCause == Spec => ClosedForACause
<1> DEFINE Cause(fd) ==
        \/ /\ fin[peer[fd]] /\ taken[peer[fd]] = sent[peer[fd]]
           /\ conn[fd].state = "Reading"
        \/ rst[peer[fd]] \/ IsExpired(conn[fd]) \/ shutdown
        \/ /\ conn[fd].state = "Writing" /\ CloseAfterWrite(conn[fd])
           /\ answered'[peer[fd]] = answered[peer[fd]] + 1
<1>1. ASSUME IInv, EventsI, HistoryI, [Next]_vars, NEW fd \in conns, fd \notin conns' PROVE Cause(fd)
  <2>1. /\ fd \in Fds /\ peer[fd] \in Peers /\ peer'[fd] # peer[fd]
        /\ WellFormed(conn[fd]) /\ conn[fd].state \in {"Reading", "Writing"}
    <3>1. conn[fd] \in Connections /\ conn[fd].state # "Closed" /\ WellFormed(conn[fd])
      BY <1>1 DEF IInv, TypeOK, WantsMatch, TableI, conns
    <3>2. conn[fd].state \in {"Reading", "Writing"}
      BY <3>1 DEF Connections, States
    <3> QED
      BY <1>1, <3>1, <3>2 DEF IInv, TypeOK, conns
  <2>2. Reading(fd) => conn[fd].state = "Reading"
    BY <2>1 DEF Reading, PendingWrite, WellFormed
  <2>3. CASE Environment \/ poll \/ UNCHANGED vars
    BY <2>1, <2>3 DEF Environment, Connect, PeerSend, PeerRead, PeerShutdown, PeerReset, Deadline, Signal,
                      poll, Poll, vars, connVars, loopVars
  <2>4. CASE accept_one
    <3>1. CASE AcceptOk
      <4>1. PICK g : g = Min(FreeFds)
        OBVIOUS
      <4>2. FreeFds \in SUBSET Nat /\ FreeFds # {}
        BY <3>1, FdFacts DEF FreeFds, AcceptOk, Accepting
      <4>3. g \notin conns /\ peer' = [peer EXCEPT ![g] = Head(backlog)]
        BY <3>1, <4>1, <4>2, MinIsLeast DEF FreeFds, AcceptOk
      <4> QED
        BY <1>1, <2>1, <4>3 DEF IInv, TypeOK
    <3> QED
      BY <2>1, <2>4, <3>1 DEF accept_one, AcceptNone, AcceptFails, AcceptFault, connVars
  <2>5. ASSUME NEW g \in Fds, drive(g) PROVE Cause(fd)
    <3>1. g = fd
      BY <1>1, <2>1, <2>5 DEF IInv, TypeOK, drive, DriveHup, DriveRead, DriveReadEnd, DriveWrite, DriveWriteFails,
                              Apply, DropConns
    <3>2. CASE DriveHup(fd)
      <4>1. revents[fd] = "Hup"
        BY <3>2 DEF DriveHup, Take
      <4> QED
        BY <1>1, <2>1, <4>1 DEF EventsI
    <3>3. CASE DriveReadEnd(fd)
      <4>1. revents[fd] = "Io" /\ conn[fd].state = "Reading" /\ taken[peer[fd]] = sent[peer[fd]]
        BY <2>2, <3>3 DEF DriveReadEnd, Take
      <4>2. taken[peer[fd]] \in Nat /\ sent[peer[fd]] \in Nat
        BY <1>1, <2>1 DEF IInv, SocketsI
      <4>3. ~(taken[peer[fd]] < sent[peer[fd]])
        BY <4>1, <4>2
      <4>4. fin[peer[fd]]
        BY <1>1, <2>1, <4>1, <4>3 DEF EventsI
      <4> QED
        BY <4>1, <4>4
    <3>4. CASE DriveWriteFails(fd)
      BY <3>4 DEF DriveWriteFails
    <3>5. CASE DriveRead(fd)
      <4>1. PICK c, n : c = peer[fd] /\ n = Min({ReadChunk, sent[c] - taken[c]})
        OBVIOUS
      <4>2. PICK bytes : bytes = SubSeq(Stream[c], taken[c] + 1, taken[c] + n)
        OBVIOUS
      <4>3. Reading(fd) /\ taken[c] < sent[c] /\ Apply(fd, OnBytes(conn[fd], bytes))
        BY <3>5, <4>1, <4>2 DEF DriveRead
      <4>4. bytes \in Seq(Units)
        <5>1. taken[c] \in Nat /\ sent[c] \in Nat /\ sent[c] <= Len(Stream[c]) /\ Stream[c] \in Seq(Units)
          BY <1>1, <2>1, <4>1, PollLoopAssumption DEF IInv, SocketsI
        <5>2. ReadChunk \in Nat /\ sent[c] - taken[c] \in Nat
          BY <4>3, <5>1, PollLoopAssumption
        <5>3. n \in Nat /\ n <= sent[c] - taken[c]
          <6>1. PICK m : m = sent[c] - taken[c]
            OBVIOUS
          <6>2. m \in Nat /\ n = Min({ReadChunk, m})
            BY <4>1, <5>2, <6>1
          <6> QED
            BY <5>2, <6>1, <6>2, MinOfTwo
        <5>4. taken[c] + n \in Nat /\ taken[c] + n <= Len(Stream[c])
          BY <5>1, <5>3
        <5> QED
          BY <4>2, <5>1, <5>4, SubSeqProperties
      <4>5. OnBytes(conn[fd], bytes).state \in {"Reading", "Writing"}
        BY <2>1, <2>2, <4>3, <4>4, OnBytesType
      <4>6. ActionForState(OnBytes(conn[fd], bytes)) # "Close"
        BY <4>5 DEF ActionForState
      <4> QED
        BY <2>1, <4>3, <4>6 DEF Apply
    <3>6. CASE DriveWrite(fd)
      <4>1. PICK c, n : c = peer[fd] /\ n = Min({PendingWrite(conn[fd]), SndBuf - tx[c]})
        OBVIOUS
      <4>2. PICK k : k = OnWritten(conn[fd], n)
        OBVIOUS
      <4>3. /\ Apply(fd, k) /\ ~Reading(fd)
            /\ answered' = [answered EXCEPT ![c] = IF k.state = "Writing" THEN @ ELSE @ + 1]
        BY <3>6, <4>1, <4>2 DEF DriveWrite
      <4>4. ActionForState(k) = "Close"
        BY <2>1, <4>3 DEF Apply
      <4>5. conn[fd].state = "Writing" /\ conn[fd] \in Connections
        BY <2>1, <4>3 DEF Reading, PendingWrite, WellFormed
      <4>6. k.state # "Writing" /\ k.state # "Reading"
        BY <4>4 DEF ActionForState
      <4>7. CloseAfterWrite(conn[fd])
        BY <4>2, <4>5, <4>6 DEF OnWritten, KeepAliveTurn, ParserReset, Connections
      <4>8. answered'[c] = answered[c] + 1
        BY <1>1, <2>1, <4>1, <4>3, <4>6 DEF HistoryI
      <4> QED
        BY <4>1, <4>5, <4>7, <4>8
    <3> QED
      BY <2>5, <3>1, <3>2, <3>3, <3>4, <3>5, <3>6 DEF drive
  <2>6. CASE Sweep
    BY <1>1, <2>1, <2>6 DEF Sweep, DropConns
  <2>7. CASE Stop
    BY <2>7 DEF Stop
  <2> QED
    BY <1>1, <2>3, <2>4, <2>5, <2>6, <2>7 DEF Next, serve
<1>2. IInv /\ EventsI /\ HistoryI /\ [Next]_vars => [\A fd \in conns : fd \notin conns' => Cause(fd)]_vars
  BY <1>1
<1> QED
  BY <1>2, EventsAlwaysHold, PTL DEF Spec, ClosedForACause

\* A read or a write that poll announced never blocks: drive_io's EAGAIN
\* branches are not reached from the poll loop, however long after the answer
\* the connection is driven.
THEOREM ReportedIoNeverBlocks == Spec => []EventsI
BY EventsAlwaysHold, PTL
=============================================================================
