---------------------------- MODULE ReactorProofs ----------------------------
(***************************************************************************)
(* Proofs that the safety properties of Reactor hold for any number of     *)
(* peers and fds, any cap, any streams and both trigger disciplines.       *)
(***************************************************************************)
EXTENDS Reactor, ConnectionProofs, FiniteSetTheorems

(* The inductive invariant *)

\* The table, the loop's record of interests and the interest list agree.
TablesI ==
    /\ \A fd \in Fds : reg[fd] = wants[fd] /\ (wants[fd] # "None" <=> fd \in conns)
    /\ listener_registered <=> reg[Listener] # "None"

\* A connection in the table has a peer and is well formed.
Owned == \A fd \in conns : peer[fd] \in Peers /\ WellFormed(conn[fd])

\* What was read was sent, and what was sent is of the stream.
BytesInOrder == \A c \in Peers : taken[c] <= sent[c] /\ sent[c] <= Len(stream[c])

\* The fd being driven is in the table and its event has been taken.
DrivenOpen == pc \in {"io", "apply"} => cur \in conns /\ events[cur] = "None"

\* The action of drive_io is the one of the connection's state, and it closes a
\* connection only at its end or its peer's, with nothing left to read.
ActionMatches ==
    /\ pc = "io" => \/ action = "WantRead"  /\ conn[cur].state = "Reading"
                    \/ action = "WantWrite" /\ conn[cur].state = "Writing"
    /\ pc = "apply" =>
          \/ action = "WantRead"  /\ conn[cur].state = "Reading"
          \/ action = "WantWrite" /\ conn[cur].state = "Writing"
          \/ /\ action = "Close"
             /\ \/ conn[cur].state = "Closed" \/ rst[peer[cur]]
                \/ /\ fin[peer[cur]] /\ taken[peer[cur]] = sent[peer[cur]]
                   /\ conn[cur].state = "Reading"

\* An event in the batch is of a connection in the table, a hang-up only of one
\* that was reset, and between batches there is none.
EventsBelong ==
    /\ \A fd \in Fds : events[fd] # "None" => fd \in conns
    /\ \A fd \in Fds : events[fd] = "Hup" => rst[peer[fd]]
    /\ pc \in {"wait", "sweep", "stopped"} => \A fd \in Polled : events[fd] = "None"

\* Level-triggered, an fd stays queued until epoll_wait finds it not ready.
LevelQueued ==
    ~Drain => \A fd \in conns : events[fd] # "None" \/ Driving(fd) => fd \in rdy

\* When drive_io returns and the interest need not change, the socket is
\* drained, or what has happened since is queued.
Drained ==
    (pc = "apply" /\ action # "Close" /\ reg[cur] = NextInterest /\ Event(cur) # "None")
        => cur \in rdy

\* The parts that relate the loop's state to the kernel's and the peers'.
Coherent ==
    /\ TablesI
    /\ Owned
    /\ BytesInOrder
    /\ DrivenOpen
    /\ ActionMatches
    /\ EventsBelong
    /\ InterestMatchesState

Queued == LevelQueued /\ Drained /\ NoLostWakeup

IndInv == TypeOK /\ Coherent /\ Queued

-----------------------------------------------------------------------------
(* Lemmas *)

LEMMA FdFacts ==
    /\ Listener \notin Fds /\ Listener \in Polled
    /\ Fds \subseteq Polled
    /\ Polled = {Listener} \cup Fds
BY ReactorAssumption DEF Listener, Fds, Polled

LEMMA InitInv == Init => IndInv
<1> SUFFICES ASSUME Init PROVE IndInv
  OBVIOUS
<1>1. TypeOK
  <2>1. New \in Connections
    BY NewType DEF WellFormed
  <2>2. conn \in [Fds -> Connections]
    BY <2>1 DEF Init
  <2>3. /\ stream \in [Peers -> Streams] /\ phase \in [Peers -> Phases]
        /\ sent \in [Peers -> Nat] /\ taken \in [Peers -> Nat] /\ answered \in [Peers -> Nat]
        /\ fin \in [Peers -> BOOLEAN] /\ rst \in [Peers -> BOOLEAN]
    BY DEF Init, Phases
  <2>4. tx \in [Peers -> 0 .. SndBuf] /\ faults \in 0 .. MaxFaults
    BY ReactorAssumption DEF Init
  <2>5. reg \in [Polled -> Interests] /\ wants \in [Fds -> Interests]
    BY DEF Init, Interests
  <2>6. events \in [Polled -> {"None", "Io", "Hup"}] /\ peer \in [Fds -> Peers \cup {NoPeer}]
    BY DEF Init
  <2>7. backlog \in Seq(Peers) /\ rdy \in SUBSET Polled /\ conns \in SUBSET Fds
    BY DEF Init
  <2>8. /\ pc \in PCs /\ cur \in Polled /\ action \in Actions
        /\ shutdown \in BOOLEAN /\ listener_registered \in BOOLEAN
    BY FdFacts DEF Init, PCs, Actions
  <2> QED
    BY <2>2, <2>3, <2>4, <2>5, <2>6, <2>7, <2>8 DEF TypeOK
<1>2. Coherent
  <2>1. \A c \in Peers : Len(stream[c]) \in Nat
    BY ReactorAssumption DEF Init
  <2> QED
    BY <2>1, FdFacts DEF Init, Coherent, TablesI, Owned, BytesInOrder, DrivenOpen, ActionMatches, EventsBelong,
                    InterestMatchesState
<1>3. Queued
  BY DEF Init, Queued, LevelQueued, Drained, NoLostWakeup
<1> QED
  BY <1>1, <1>2, <1>3 DEF IndInv

-----------------------------------------------------------------------------
(* Steps of the environment *)

\* A step that leaves the loop alone preserves Queued if it queues every fd of
\* the table that becomes ready.
LEMMA PeerStepQueued ==
    ASSUME IndInv, UNCHANGED <<reg, conns, peer, wants, loopVars>>,
           rdy \subseteq rdy',
           \A fd \in conns : Event(fd)' # "None" => Event(fd) # "None" \/ fd \in rdy'
    PROVE  Queued'
<1>1. pc \in {"io", "apply"} => cur \in conns
  BY DEF IndInv, Coherent, DrivenOpen
<1>2. LevelQueued'
  BY DEF IndInv, Queued, LevelQueued, Driving, loopVars
<1>3. Drained'
  BY <1>1 DEF IndInv, Queued, Drained, NextInterest, loopVars
<1>4. NoLostWakeup'
  BY DEF IndInv, Queued, NoLostWakeup, Driving, loopVars
<1> QED
  BY <1>2, <1>3, <1>4 DEF Queued

LEMMA ConnectInv == ASSUME IndInv, NEW c \in Peers, Connect(c) PROVE IndInv'
<1> USE DEF IndInv
<1>1. TypeOK'
  BY FdFacts DEF TypeOK, Connect, Phases, tableVars, loopVars
<1>2. Coherent'
  BY DEF TypeOK, Coherent, TablesI, Owned, BytesInOrder, DrivenOpen, ActionMatches, EventsBelong,
         InterestMatchesState, Driving, Connect, tableVars, loopVars
<1>3. Queued'
  <2>1. \A fd \in conns : Event(fd)' = Event(fd)
    BY FdFacts DEF TypeOK, Event, EventFor, Readable, Writable, Connect, tableVars, loopVars
  <2>2. UNCHANGED <<reg, conns, peer, wants, loopVars>> /\ rdy \subseteq rdy'
    BY DEF Connect, tableVars
  <2> QED
    BY <2>1, <2>2, PeerStepQueued
<1> QED
  BY <1>1, <1>2, <1>3

LEMMA PeerSendInv == ASSUME IndInv, NEW c \in Peers, PeerSend(c) PROVE IndInv'
<1> USE DEF IndInv
<1>1. TypeOK'
  <2>1. Wake(c, {"Read"}) \subseteq Polled
    BY FdFacts DEF TypeOK, Wake
  <2>2. sent' \in [Peers -> Nat]
    BY DEF TypeOK, PeerSend
  <2>3. rdy' \subseteq Polled
    BY <2>1 DEF TypeOK, PeerSend
  <2> QED
    BY <2>2, <2>3 DEF TypeOK, PeerSend, tableVars, loopVars
<1>2. Coherent'
  <2>1. BytesInOrder'
    BY ReactorAssumption DEF TypeOK, Coherent, BytesInOrder, PeerSend
  <2>2. TablesI' /\ Owned' /\ DrivenOpen' /\ InterestMatchesState'
    BY DEF Coherent, TablesI, Owned, DrivenOpen, InterestMatchesState, Driving, PeerSend, tableVars, loopVars
  <2>3. ActionMatches' /\ EventsBelong'
    BY DEF TypeOK, Coherent, ActionMatches, EventsBelong, PeerSend, tableVars, loopVars
  <2> QED
    BY <2>1, <2>2, <2>3 DEF Coherent
<1>3. Queued'
  <2>1. ASSUME NEW fd \in conns, Event(fd)' # "None"
        PROVE  Event(fd) # "None" \/ fd \in rdy'
    BY <2>1, FdFacts DEF TypeOK, Event, EventFor, Readable, Writable, Wake, Interests, PeerSend, tableVars, loopVars
  <2>2. UNCHANGED <<reg, conns, peer, wants, loopVars>> /\ rdy \subseteq rdy'
    BY DEF PeerSend, tableVars
  <2> QED
    BY <2>1, <2>2, PeerStepQueued
<1> QED
  BY <1>1, <1>2, <1>3

LEMMA PeerReadInv == ASSUME IndInv, NEW c \in Peers, PeerRead(c) PROVE IndInv'
<1> USE DEF IndInv
<1>1. TypeOK'
  <2>1. Wake(c, {"Write"}) \subseteq Polled
    BY FdFacts DEF TypeOK, Wake
  <2>2. tx' \in [Peers -> 0 .. SndBuf]
    BY ReactorAssumption DEF TypeOK, PeerRead
  <2>3. rdy' \subseteq Polled
    BY <2>1 DEF TypeOK, PeerRead
  <2> QED
    BY <2>2, <2>3 DEF TypeOK, PeerRead, tableVars, loopVars
<1>2. Coherent'
  <2>1. BytesInOrder'
    BY DEF TypeOK, Coherent, BytesInOrder, PeerRead
  <2>2. TablesI' /\ Owned' /\ DrivenOpen' /\ InterestMatchesState'
    BY DEF Coherent, TablesI, Owned, DrivenOpen, InterestMatchesState, Driving, PeerRead, tableVars, loopVars
  <2>3. ActionMatches' /\ EventsBelong'
    BY DEF TypeOK, Coherent, ActionMatches, EventsBelong, PeerRead, tableVars, loopVars
  <2> QED
    BY <2>1, <2>2, <2>3 DEF Coherent
<1>3. Queued'
  <2>1. ASSUME NEW fd \in conns, Event(fd)' # "None"
        PROVE  Event(fd) # "None" \/ fd \in rdy'
    BY <2>1, FdFacts DEF TypeOK, Event, EventFor, Readable, Writable, Wake, Interests, PeerRead, tableVars, loopVars
  <2>2. UNCHANGED <<reg, conns, peer, wants, loopVars>> /\ rdy \subseteq rdy'
    BY DEF PeerRead, tableVars
  <2> QED
    BY <2>1, <2>2, PeerStepQueued
<1> QED
  BY <1>1, <1>2, <1>3

LEMMA PeerShutdownInv == ASSUME IndInv, NEW c \in Peers, PeerShutdown(c) PROVE IndInv'
<1> USE DEF IndInv
<1>1. TypeOK'
  <2>1. Wake(c, {"Read", "Write"}) \subseteq Polled
    BY FdFacts DEF TypeOK, Wake
  <2>2. fin' \in [Peers -> BOOLEAN]
    BY DEF TypeOK, PeerShutdown
  <2>3. rdy' \subseteq Polled
    BY <2>1 DEF TypeOK, PeerShutdown
  <2> QED
    BY <2>2, <2>3 DEF TypeOK, PeerShutdown, tableVars, loopVars
<1>2. Coherent'
  <2>1. BytesInOrder'
    BY DEF TypeOK, Coherent, BytesInOrder, PeerShutdown
  <2>2. TablesI' /\ Owned' /\ DrivenOpen' /\ InterestMatchesState'
    BY DEF Coherent, TablesI, Owned, DrivenOpen, InterestMatchesState, Driving, PeerShutdown, tableVars, loopVars
  <2>3. ActionMatches' /\ EventsBelong'
    BY DEF TypeOK, Coherent, ActionMatches, EventsBelong, PeerShutdown, tableVars, loopVars
  <2> QED
    BY <2>1, <2>2, <2>3 DEF Coherent
<1>3. Queued'
  <2>1. ASSUME NEW fd \in conns, Event(fd)' # "None"
        PROVE  Event(fd) # "None" \/ fd \in rdy'
    BY <2>1, FdFacts DEF TypeOK, Event, EventFor, Readable, Writable, Wake, Interests, PeerShutdown, tableVars, loopVars
  <2>2. UNCHANGED <<reg, conns, peer, wants, loopVars>> /\ rdy \subseteq rdy'
    BY DEF PeerShutdown, tableVars
  <2> QED
    BY <2>1, <2>2, PeerStepQueued
<1> QED
  BY <1>1, <1>2, <1>3

LEMMA PeerResetInv == ASSUME IndInv, NEW c \in Peers, PeerReset(c) PROVE IndInv'
<1> USE DEF IndInv
<1>1. TypeOK'
  <2>1. Wake(c, {"Read", "Write"}) \subseteq Polled
    BY FdFacts DEF TypeOK, Wake
  <2>2. rst' \in [Peers -> BOOLEAN]
    BY DEF TypeOK, PeerReset
  <2>3. rdy' \subseteq Polled
    BY <2>1 DEF TypeOK, PeerReset
  <2> QED
    BY <2>2, <2>3 DEF TypeOK, PeerReset, tableVars, loopVars
<1>2. Coherent'
  <2>1. BytesInOrder'
    BY DEF TypeOK, Coherent, BytesInOrder, PeerReset
  <2>2. TablesI' /\ Owned' /\ DrivenOpen' /\ InterestMatchesState'
    BY DEF Coherent, TablesI, Owned, DrivenOpen, InterestMatchesState, Driving, PeerReset, tableVars, loopVars
  <2>3. ActionMatches' /\ EventsBelong'
    BY DEF TypeOK, Coherent, ActionMatches, EventsBelong, PeerReset, tableVars, loopVars
  <2> QED
    BY <2>1, <2>2, <2>3 DEF Coherent
<1>3. Queued'
  <2>1. ASSUME NEW fd \in conns, Event(fd)' # "None"
        PROVE  Event(fd) # "None" \/ fd \in rdy'
    BY <2>1, FdFacts DEF TypeOK, Event, EventFor, Readable, Writable, Wake, Interests, PeerReset, tableVars, loopVars
  <2>2. UNCHANGED <<reg, conns, peer, wants, loopVars>> /\ rdy \subseteq rdy'
    BY DEF PeerReset, tableVars
  <2> QED
    BY <2>1, <2>2, PeerStepQueued
<1> QED
  BY <1>1, <1>2, <1>3

LEMMA DeadlineInv == ASSUME IndInv, NEW fd \in Fds, Deadline(fd) PROVE IndInv'
<1> USE DEF IndInv
<1>1. /\ WellFormed(conn[fd]) /\ fd \in conns
      /\ UNCHANGED <<sockVars, epollVars, conns, peer, wants, loopVars>>
      /\ conn' = [conn EXCEPT ![fd] = PassDeadline(conn[fd])]
  BY DEF Coherent, Owned, Deadline
<1>2. /\ WellFormed(PassDeadline(conn[fd])) /\ PassDeadline(conn[fd]).state = conn[fd].state
      /\ PassDeadline(conn[fd]) \in Connections
  BY <1>1, PassDeadlineType DEF WellFormed
<1>3. TypeOK'
  BY <1>1, <1>2 DEF TypeOK, sockVars, epollVars, loopVars
<1>4. \A g \in conns : conn'[g].state = conn[g].state /\ (WellFormed(conn[g]) => WellFormed(conn'[g]))
  BY <1>1, <1>2 DEF TypeOK
<1>5. pc \in {"io", "apply"} => cur \in conns
  BY DEF Coherent, DrivenOpen
<1>6. Coherent'
  BY <1>1, <1>4, <1>5
     DEF TypeOK, Coherent, TablesI, Owned, BytesInOrder, DrivenOpen, ActionMatches, EventsBelong,
         InterestMatchesState, Driving, sockVars, epollVars, loopVars
<1>7. Queued'
  BY <1>1 DEF Queued, LevelQueued, Drained, NoLostWakeup, NextInterest, Driving, Event, EventFor, Readable, Writable,
              sockVars, epollVars, loopVars
<1> QED
  BY <1>3, <1>6, <1>7

LEMMA SignalInv == ASSUME IndInv, Signal PROVE IndInv'
<1> USE DEF IndInv
<1>1. TypeOK'
  BY DEF TypeOK, Signal, sockVars, epollVars, tableVars
<1>2. Coherent'
  BY DEF Coherent, TablesI, Owned, BytesInOrder, DrivenOpen, ActionMatches, EventsBelong,
         InterestMatchesState, Driving, Signal, sockVars, epollVars, tableVars
<1>3. Queued'
  BY DEF Queued, LevelQueued, Drained, NoLostWakeup, NextInterest, Driving, Event, EventFor, Readable, Writable,
         Signal, sockVars, epollVars, tableVars
<1> QED
  BY <1>1, <1>2, <1>3

-----------------------------------------------------------------------------
(* Steps of the loop: the batch *)

LEMMA WaitInv == ASSUME IndInv, Wait PROVE IndInv'
<1> USE DEF IndInv
<1>1. \A fd \in Polled : Event(fd) \in {"None", "Io", "Hup"}
  BY DEF Event, EventFor
<1>2. \A fd \in Fds : Event(fd)' = Event(fd)
  BY FdFacts DEF Wait, Event, EventFor, Readable, Writable, sockVars, tableVars
<1>3. \A fd \in Polled : events'[fd] = IF fd \in rdy THEN Event(fd) ELSE "None"
  BY DEF Wait
<1>4. TypeOK'
  BY <1>1 DEF TypeOK, PCs, Wait, sockVars, tableVars
<1>5. conns' = conns /\ conns \subseteq Fds /\ reg' = reg /\ pc = "wait" /\ pc' = "batch" /\ peer' = peer /\ rst' = rst
  BY DEF TypeOK, Wait, tableVars, sockVars
<1>6. EventsBelong'
  <2>1. \A fd \in Fds : reg[fd] # "None" <=> fd \in conns
    BY DEF Coherent, TablesI
  <2>2. \A fd \in Fds : Event(fd) # "None" => fd \in conns
    BY <2>1 DEF Event, EventFor
  <2>3. \A fd \in Fds : Event(fd) = "Hup" => rst[peer[fd]]
    BY FdFacts DEF Event, EventFor
  <2> QED
    BY <1>3, <1>5, <2>2, <2>3, FdFacts DEF EventsBelong
<1>7. Coherent'
  BY <1>5, <1>6 DEF Coherent, TablesI, Owned, BytesInOrder, DrivenOpen, ActionMatches,
         InterestMatchesState, Driving, Wait, sockVars, tableVars
<1>8. LevelQueued'
  BY <1>3, <1>5, FdFacts DEF LevelQueued, Driving, Wait
<1>9. NoLostWakeup'
  <2>1. \A fd \in conns : Event(fd) # "None" => fd \in rdy
    BY <1>5, FdFacts DEF Queued, NoLostWakeup, Coherent, EventsBelong, Driving
  <2> QED
    BY <1>2, <1>3, <1>5, <2>1, FdFacts DEF NoLostWakeup
<1>10. Drained'
  BY <1>5 DEF Drained
<1> QED
  BY <1>4, <1>7, <1>8, <1>9, <1>10 DEF Queued

LEMMA TakeListenerInv == ASSUME IndInv, TakeListener PROVE IndInv'
<1> USE DEF IndInv
<1>1. TypeOK'
  BY DEF TypeOK, PCs, TakeListener, sockVars, epollVars, tableVars
<1>2. \A fd \in Fds : events'[fd] = events[fd]
  BY FdFacts DEF TypeOK, TakeListener
<1>3. /\ conns \subseteq Fds /\ pc = "batch" /\ pc' = "accept"
      /\ UNCHANGED <<sockVars, epollVars, tableVars, listener_registered, cur, action>>
  BY DEF TypeOK, TakeListener
<1>4. Coherent'
  BY <1>2, <1>3
     DEF Coherent, TablesI, Owned, BytesInOrder, DrivenOpen, ActionMatches, EventsBelong,
         InterestMatchesState, Driving, sockVars, epollVars, tableVars
<1>5. Queued'
  BY <1>2, <1>3
     DEF Queued, LevelQueued, Drained, NoLostWakeup, NextInterest, Driving, Event, EventFor, Readable, Writable,
         sockVars, epollVars, tableVars
<1> QED
  BY <1>1, <1>4, <1>5

LEMMA TakeIoInv == ASSUME IndInv, NEW fd \in Fds, TakeIo(fd) PROVE IndInv'
<1> USE DEF IndInv
<1>1. /\ fd \in conns /\ conns \subseteq Fds /\ pc = "batch" /\ pc' = "io" /\ cur' = fd
      /\ UNCHANGED <<sockVars, epollVars, tableVars, listener_registered, faults, shutdown>>
  BY DEF TypeOK, TakeIo, Coherent, EventsBelong
<1>2. /\ events'[fd] = "None" /\ events[fd] = "Io"
      /\ \A g \in Polled : g # fd => events'[g] = events[g]
      /\ events' \in [Polled -> {"None", "Io", "Hup"}]
  BY FdFacts DEF TypeOK, TakeIo
<1>3. action' \in {"WantRead", "WantWrite"}
  BY DEF TakeIo
<1>4. TypeOK'
  BY <1>1, <1>2, <1>3, FdFacts DEF TypeOK, PCs, Actions, sockVars, epollVars, tableVars
<1>5. /\ conn[fd].state # "Closed" /\ conn[fd].state \in States
      /\ conn[fd].state = "Writing" => conn[fd].pending > 0 /\ conn[fd].pending \in Nat
  BY <1>1 DEF Coherent, InterestMatchesState, Owned, WellFormed, Connections, Driving
<1>6. \/ action' = "WantRead"  /\ conn[fd].state = "Reading"
      \/ action' = "WantWrite" /\ conn[fd].state = "Writing"
  BY <1>5 DEF TakeIo, PendingWrite, States
<1>7. ActionMatches'
  BY <1>1, <1>6 DEF ActionMatches, tableVars
<1>8. EventsBelong'
  BY <1>1, <1>2, FdFacts DEF Coherent, EventsBelong, tableVars, sockVars
<1>9. Coherent'
  BY <1>1, <1>2, <1>7, <1>8
     DEF Coherent, TablesI, Owned, BytesInOrder, DrivenOpen,
         InterestMatchesState, Driving, sockVars, epollVars, tableVars
<1>10. Queued'
  BY <1>1, <1>2, FdFacts
     DEF Queued, LevelQueued, Drained, NoLostWakeup, Driving, Event, EventFor, Readable, Writable,
         sockVars, epollVars, tableVars
<1> QED
  BY <1>4, <1>9, <1>10

\* Dropping the connections S preserves the invariant if the batch holds no
\* event of theirs and the one being driven is among them.
LEMMA DropInv ==
    ASSUME IndInv, NEW S \in SUBSET Fds, DropConns(S),
           events' \in [Polled -> {"None", "Io", "Hup"}],
           \A fd \in Polled : events'[fd] = IF fd \in S THEN "None" ELSE events[fd],
           pc \in {"io", "apply"} => cur \in S,
           pc' \in {"batch", "wait"},
           pc' = "wait" => pc = "sweep",
           UNCHANGED <<stream, backlog, sent, taken, fin, rst, tx, answered,
                       listener_registered, cur, action, shutdown>>,
           faults' \in 0 .. MaxFaults
    PROVE  IndInv'
<1> USE DEF IndInv
<1>1. New \in Connections
  BY NewType DEF WellFormed
<1>2. /\ reg'   = [fd \in Polled |-> IF fd \in S THEN "None" ELSE reg[fd]]
      /\ rdy'   = rdy \ S
      /\ wants' = [fd \in Fds |-> IF fd \in S THEN "None" ELSE wants[fd]]
      /\ conns' = conns \ S
      /\ peer'  = [fd \in Fds |-> IF fd \in S THEN NoPeer ELSE peer[fd]]
      /\ conn'  = [fd \in Fds |-> IF fd \in S THEN New ELSE conn[fd]]
      /\ phase' \in [Peers -> Phases]
  BY DEF DropConns, TypeOK, Phases
<1>3. TypeOK'
  BY <1>1, <1>2 DEF TypeOK, PCs, Interests
<1>4. conns \subseteq Fds
  BY DEF TypeOK
<1>5. \A fd \in conns' : /\ fd \in conns /\ fd \notin S
                         /\ reg'[fd] = reg[fd] /\ peer'[fd] = peer[fd] /\ conn'[fd] = conn[fd]
                         /\ events'[fd] = events[fd]
                         /\ (fd \in rdy => fd \in rdy')
  BY <1>2, <1>4, FdFacts
<1>6. TablesI'
  BY <1>2, FdFacts DEF Coherent, TablesI
<1>7. Owned' /\ BytesInOrder' /\ DrivenOpen' /\ ActionMatches'
  BY <1>5 DEF Coherent, Owned, BytesInOrder, DrivenOpen, ActionMatches
<1>8. EventsBelong'
  BY <1>2, <1>4, FdFacts DEF Coherent, EventsBelong
<1>9. InterestMatchesState'
  BY <1>5 DEF Coherent, InterestMatchesState, Driving
<1>10. \A fd \in conns' : Event(fd)' = Event(fd)
  BY <1>4, <1>5, FdFacts DEF Event, EventFor, Readable, Writable
<1>11. LevelQueued' /\ Drained'
  BY <1>5 DEF Queued, LevelQueued, Drained, Driving
<1>12. NoLostWakeup'
  BY <1>5, <1>10 DEF Queued, NoLostWakeup, Driving
<1> QED
  BY <1>3, <1>6, <1>7, <1>8, <1>9, <1>11, <1>12 DEF Coherent, Queued

LEMMA TakeHupInv == ASSUME IndInv, NEW fd \in Fds, TakeHup(fd) PROVE IndInv'
<1>1. /\ events' \in [Polled -> {"None", "Io", "Hup"}]
      /\ \A g \in Polled : events'[g] = IF g \in {fd} THEN "None" ELSE events[g]
  BY DEF IndInv, TypeOK, TakeHup
<1>2. faults' \in 0 .. MaxFaults /\ pc = "batch" /\ pc' = "batch" /\ DropConns({fd})
  BY DEF IndInv, TypeOK, TakeHup
<1> QED
  BY <1>1, <1>2, DropInv DEF TakeHup

LEMMA ApplyCloseInv == ASSUME IndInv, ApplyClose \/ ApplyFault PROVE IndInv'
<1>1. cur \in Fds /\ events[cur] = "None"
  BY DEF IndInv, TypeOK, Coherent, DrivenOpen, ApplyClose, ApplyFault
<1>2. /\ events' \in [Polled -> {"None", "Io", "Hup"}]
      /\ \A g \in Polled : events'[g] = IF g \in {cur} THEN "None" ELSE events[g]
  BY <1>1 DEF IndInv, TypeOK, ApplyClose, ApplyFault
<1>3. faults' \in 0 .. MaxFaults
  BY ReactorAssumption DEF IndInv, TypeOK, ApplyClose, ApplyFault
<1>4. pc' = "batch" /\ DropConns({cur})
  BY DEF ApplyClose, ApplyFault
<1> QED
  BY <1>1, <1>2, <1>3, <1>4, DropInv DEF ApplyClose, ApplyFault

LEMMA SweepInv == ASSUME IndInv, Sweep PROVE IndInv'
<1> DEFINE S == {fd \in conns : IsExpired(conn[fd])}
<1>1. S \in SUBSET Fds
  BY DEF IndInv, TypeOK
<1>2. /\ events' \in [Polled -> {"None", "Io", "Hup"}]
      /\ \A g \in Polled : events'[g] = IF g \in S THEN "None" ELSE events[g]
  BY DEF IndInv, TypeOK, Coherent, EventsBelong, Sweep
<1>3. faults' \in 0 .. MaxFaults /\ pc = "sweep" /\ pc' = "wait" /\ DropConns(S)
  BY DEF IndInv, TypeOK, Sweep
<1> HIDE DEF S
<1> QED
  BY <1>1, <1>2, <1>3, DropInv DEF Sweep

-----------------------------------------------------------------------------
(* Steps of the loop: accept_ready *)

LEMMA AcceptStopInv == ASSUME IndInv, AcceptStop PROVE IndInv'
<1> USE DEF IndInv
<1>1. /\ UNCHANGED <<sockVars, epollVars, tableVars, listener_registered, events, cur, action, shutdown, faults>>
      /\ pc = "accept" /\ pc' = "batch"
  BY DEF AcceptStop
<1>2. TypeOK'
  BY <1>1 DEF TypeOK, PCs, sockVars, epollVars, tableVars
<1>3. Coherent'
  BY <1>1
     DEF Coherent, TablesI, Owned, BytesInOrder, DrivenOpen, ActionMatches, EventsBelong,
         InterestMatchesState, Driving, sockVars, epollVars, tableVars
<1>4. Queued'
  BY <1>1
     DEF Queued, LevelQueued, Drained, NoLostWakeup, NextInterest, Driving, Event, EventFor, Readable, Writable,
         sockVars, epollVars, tableVars
<1> QED
  BY <1>2, <1>3, <1>4

LEMMA AcceptFaultInv == ASSUME IndInv, AcceptFault PROVE IndInv'
<1> USE DEF IndInv
<1>1. /\ UNCHANGED <<stream, sent, taken, fin, rst, tx, answered, epollVars, tableVars,
                     listener_registered, events, cur, action, shutdown>>
      /\ pc = "accept" /\ pc' \in {"accept", "batch"}
  BY DEF AcceptFault, Accepting
<1>2. TypeOK'
  <2>1. backlog # << >> /\ backlog \in Seq(Peers) /\ backlog' = Tail(backlog)
    BY DEF AcceptFault, Accepting, TypeOK
  <2>2. Head(backlog) \in Peers /\ Tail(backlog) \in Seq(Peers)
    BY <2>1
  <2>3. phase' \in [Peers -> Phases]
    BY <2>2 DEF AcceptFault, TypeOK, Phases
  <2>4. faults' \in 0 .. MaxFaults
    BY ReactorAssumption DEF AcceptFault, TypeOK
  <2> QED
    BY <1>1, <2>1, <2>2, <2>3, <2>4 DEF TypeOK, PCs, epollVars, tableVars
<1>3. Coherent'
  BY <1>1
     DEF Coherent, TablesI, Owned, BytesInOrder, DrivenOpen, ActionMatches, EventsBelong,
         InterestMatchesState, Driving, epollVars, tableVars
<1>4. Queued'
  <2>1. \A fd \in conns : Event(fd)' = Event(fd)
    BY <1>1, FdFacts DEF TypeOK, Event, EventFor, Readable, Writable, epollVars, tableVars
  <2> QED
    BY <1>1, <2>1 DEF Queued, LevelQueued, Drained, NoLostWakeup, Driving, epollVars, tableVars
<1> QED
  BY <1>2, <1>3, <1>4

LEMMA AcceptOkInv == ASSUME IndInv, AcceptOk PROVE IndInv'
<1> USE DEF IndInv
<1> DEFINE c == Head(backlog)
<1>1. c \in Peers /\ Tail(backlog) \in Seq(Peers)
  <2>1. backlog # << >> /\ backlog \in Seq(Peers)
    BY DEF AcceptOk, Accepting, TypeOK
  <2> QED
    BY <2>1
<1>2. PICK fd \in Fds \ conns :
          /\ conns' = conns \cup {fd}
          /\ peer' = [peer EXCEPT ![fd] = c]
          /\ conn' = [conn EXCEPT ![fd] = New]
          /\ reg' = [reg EXCEPT ![fd] = "Read"]
          /\ wants' = [wants EXCEPT ![fd] = "Read"]
          /\ rdy' = IF taken[c] < sent[c] \/ fin[c] \/ rst[c] THEN rdy \cup {fd} ELSE rdy
  BY DEF AcceptOk, FreeFds
<1>3. /\ UNCHANGED <<stream, sent, taken, fin, rst, tx, answered, listener_registered, events, cur, action,
                     shutdown, faults>>
      /\ pc = "accept" /\ pc' \in {"accept", "batch"}
      /\ backlog' = Tail(backlog)
      /\ phase' = [phase EXCEPT ![c] = "open"]
  BY DEF AcceptOk, Accepting
<1>4. WellFormed(New) /\ New \in Connections /\ New.state = "Reading"
  BY NewType DEF WellFormed
<1> HIDE DEF c
<1>5. TypeOK'
  BY <1>1, <1>2, <1>3, <1>4, FdFacts DEF TypeOK, PCs, Phases, Interests
<1>6. conns \subseteq Fds
  BY DEF TypeOK
<1>7. /\ \A g \in Polled : g # fd => reg'[g] = reg[g]
      /\ \A g \in Fds : g # fd => peer'[g] = peer[g] /\ conn'[g] = conn[g] /\ wants'[g] = wants[g]
      /\ reg'[fd] = "Read" /\ peer'[fd] = c /\ conn'[fd] = New /\ wants'[fd] = "Read"
  BY <1>2, FdFacts DEF TypeOK
<1>8. events[fd] = "None"
  BY <1>2 DEF Coherent, EventsBelong
<1>9. TablesI'
  BY <1>2, <1>3, <1>7, FdFacts DEF Coherent, TablesI
<1>10. Owned' /\ BytesInOrder' /\ DrivenOpen' /\ ActionMatches'
  BY <1>1, <1>2, <1>3, <1>4, <1>6, <1>7
     DEF Coherent, Owned, BytesInOrder, DrivenOpen, ActionMatches
<1>11. EventsBelong'
  BY <1>2, <1>3, <1>7, <1>8 DEF Coherent, EventsBelong
<1>12. InterestMatchesState'
  BY <1>2, <1>3, <1>4, <1>6, <1>7, FdFacts DEF Coherent, InterestMatchesState, Driving
<1>13. \A g \in conns : Event(g)' = Event(g)
  BY <1>2, <1>3, <1>6, <1>7, FdFacts DEF Event, EventFor, Readable, Writable
<1>14. Event(fd)' # "None" => fd \in rdy'
  BY <1>2, <1>3, <1>7, FdFacts DEF Event, EventFor, Readable
<1>15. LevelQueued' /\ Drained'
  BY <1>2, <1>3, <1>8 DEF Queued, LevelQueued, Drained, Driving
<1>16. NoLostWakeup'
  BY <1>2, <1>3, <1>13, <1>14 DEF Queued, NoLostWakeup, Driving
<1> QED
  BY <1>5, <1>9, <1>10, <1>11, <1>12, <1>15, <1>16 DEF Coherent, Queued

-----------------------------------------------------------------------------
(* Steps of the loop: drive_io *)

\* A system call of drive_io preserves the invariant if it leaves the connection
\* well formed and the action right, consumes and never produces readiness of
\* the sockets, and leaves the one it drives drained when it returns.
LEMMA IoInv ==
    ASSUME IndInv, pc = "io", pc' \in {"io", "apply"},
           TypeOK', BytesInOrder', ActionMatches',
           UNCHANGED <<phase, backlog, fin, rst, epollVars, conns, peer, wants,
                       listener_registered, events, cur, shutdown>>,
           \A fd \in conns : fd # cur => conn'[fd] = conn[fd],
           WellFormed(conn'[cur]),
           \A fd \in conns : Event(fd)' # "None" => Event(fd) # "None",
           Drain => Drained'
    PROVE  IndInv'
<1> USE DEF IndInv
<1>1. cur \in conns /\ cur' = cur /\ events[cur] = "None"
  BY DEF Coherent, DrivenOpen
<1>2. TablesI' /\ Owned' /\ DrivenOpen' /\ EventsBelong'
  BY <1>1 DEF Coherent, TablesI, Owned, DrivenOpen, EventsBelong, epollVars
<1>3. InterestMatchesState'
  BY <1>1 DEF Coherent, InterestMatchesState, Driving, epollVars
<1>4. LevelQueued'
  BY <1>1 DEF Queued, LevelQueued, Driving, epollVars
<1>5. Drained'
  BY <1>1 DEF Queued, LevelQueued, Drained, Driving, epollVars
<1>6. NoLostWakeup'
  BY <1>1 DEF Queued, NoLostWakeup, Driving, epollVars
<1> QED
  BY <1>2, <1>3, <1>4, <1>5, <1>6 DEF Coherent, Queued

LEMMA IoNoneInv == ASSUME IndInv, IoReadNone \/ IoWriteNone PROVE IndInv'
<1> USE DEF IndInv
<1>1. /\ pc = "io" /\ pc' = "apply" /\ action' \in Actions
      /\ UNCHANGED <<sockVars, epollVars, tableVars, listener_registered, events, cur, shutdown, faults>>
  BY DEF IoReadNone, IoWriteNone, Resume, Actions
<1>2. TypeOK'
  BY <1>1 DEF TypeOK, PCs, sockVars, epollVars, tableVars
<1>3. BytesInOrder'
  BY <1>1 DEF Coherent, BytesInOrder, sockVars
<1>4. ActionMatches'
  BY <1>1 DEF Coherent, ActionMatches, IoReadNone, IoWriteNone, Resume, sockVars, tableVars
<1>5. /\ \A fd \in conns : Event(fd)' = Event(fd)
      /\ cur \in conns /\ cur # Listener /\ peer[cur] \in Peers
  BY <1>1, FdFacts DEF TypeOK, Coherent, DrivenOpen, Owned, Event, EventFor, Readable, Writable,
                       sockVars, epollVars, tableVars
<1>6. Drained'
  <2>1. CASE IoReadNone
    <3>1. action' = "WantRead" /\ reg[cur] = "Read" => Event(cur) = "None"
      BY <2>1, <1>5 DEF IoReadNone, Resume, Event, EventFor, Readable, TypeOK
    <3> QED
      BY <2>1, <1>1, <1>5, <3>1 DEF IoReadNone, Resume, Drained, NextInterest, epollVars
  <2>2. CASE IoWriteNone
    <3>1. action' = "WantWrite" /\ reg[cur] = "Write" => Event(cur) = "None"
      BY <2>2, <1>5 DEF IoWriteNone, Resume, Event, EventFor
    <3> QED
      BY <2>2, <1>1, <1>5, <3>1 DEF IoWriteNone, Resume, Drained, NextInterest, epollVars
  <2> QED
    BY <2>1, <2>2
<1>7. WellFormed(conn'[cur])
  BY <1>1, <1>5 DEF Coherent, Owned, tableVars
<1> QED
  BY <1>1, <1>2, <1>3, <1>4, <1>5, <1>6, <1>7, IoInv DEF sockVars, tableVars

LEMMA IoReadInv == ASSUME IndInv, IoRead PROVE IndInv'
<1> USE DEF IndInv
<1> DEFINE c == peer[cur]
           n == Min({ReadChunk, sent[c] - taken[c]})
           bytes == SubSeq(stream[c], taken[c] + 1, taken[c] + n)
           k == OnBytes(conn[cur], bytes)
<1>1. /\ pc = "io" /\ action = "WantRead" /\ taken[c] < sent[c]
      /\ taken' = [taken EXCEPT ![c] = taken[c] + n]
      /\ conn' = [conn EXCEPT ![cur] = k]
      /\ Resume(ActionForState(k), FALSE)
      /\ UNCHANGED <<stream, phase, backlog, sent, fin, rst, tx, answered, epollVars, conns, peer, wants,
                     listener_registered, events, cur, shutdown, faults>>
  BY DEF IoRead
<1>2. /\ cur \in conns /\ cur \in Fds /\ c \in Peers /\ conns \subseteq Fds
      /\ WellFormed(conn[cur]) /\ conn[cur].state = "Reading"
  BY <1>1 DEF TypeOK, Coherent, DrivenOpen, Owned, ActionMatches
<1>3. /\ taken[c] \in Nat /\ sent[c] \in Nat /\ sent[c] <= Len(stream[c])
      /\ stream[c] \in Seq(Units) /\ Len(stream[c]) \in Nat
  BY <1>2, ReactorAssumption DEF TypeOK, Coherent, BytesInOrder
<1>4. n \in Nat /\ n > 0 /\ n <= sent[c] - taken[c]
  <2>1. ReadChunk \in Nat /\ ReadChunk > 0 /\ sent[c] - taken[c] \in Nat /\ sent[c] - taken[c] > 0
    BY <1>1, <1>3, ReactorAssumption
  <2> HIDE DEF c
  <2> QED
    BY <2>1, MinOfTwo
<1> HIDE DEF n
<1>5. bytes \in Seq(Units)
  BY <1>3, <1>4, SubSeqProperties
<1> HIDE DEF bytes
<1>6. WellFormed(k) /\ k \in Connections /\ k.state \in {"Reading", "Writing"}
  BY <1>2, <1>5, OnBytesType DEF WellFormed
<1> HIDE DEF k, c
<1>7. /\ action' = IF k.state = "Reading" THEN "WantRead" ELSE "WantWrite"
      /\ pc' = IF Drain THEN "io" ELSE "apply"
  BY <1>1, <1>6 DEF Resume, ActionForState
<1>8. TypeOK'
  BY <1>1, <1>2, <1>3, <1>4, <1>6, <1>7 DEF TypeOK, PCs, Actions, epollVars
<1>9. conn'[cur] = k /\ \A fd \in conns : fd # cur => conn'[fd] = conn[fd]
  BY <1>1, <1>2 DEF TypeOK
<1>10. \A p \in Peers : taken'[p] \in Nat /\ taken[p] \in Nat /\ taken[p] <= taken'[p] /\ taken'[p] <= sent[p]
  BY <1>1, <1>2, <1>3, <1>4 DEF TypeOK, Coherent, BytesInOrder
<1>11. BytesInOrder'
  BY <1>1, <1>10 DEF Coherent, BytesInOrder
<1>12. ActionMatches'
  BY <1>1, <1>6, <1>7, <1>9 DEF ActionMatches
<1>13. ASSUME NEW fd \in conns, Event(fd)' # "None" PROVE Event(fd) # "None"
  <2>1. peer[fd] \in Peers /\ fd # Listener
    BY <1>2, FdFacts DEF Coherent, Owned
  <2>2. Readable(fd)' => Readable(fd)
    BY <1>1, <1>10, <2>1 DEF Readable, TypeOK
  <2> QED
    BY <1>1, <1>13, <2>1, <2>2 DEF Event, EventFor, Writable, epollVars
<1>14. Drain => Drained'
  BY <1>7 DEF Drained
<1> QED
  BY <1>1, <1>6, <1>7, <1>8, <1>9, <1>11, <1>12, <1>13, <1>14, IoInv

LEMMA IoWriteInv == ASSUME IndInv, IoWrite PROVE IndInv'
<1> USE DEF IndInv
<1> DEFINE c == peer[cur]
           m == conn[cur].pending
           n == Min({m, SndBuf - tx[c]})
           k == OnWritten(conn[cur], n)
<1>1. /\ pc = "io" /\ action = "WantWrite" /\ ~rst[c] /\ tx[c] < SndBuf
      /\ UNCHANGED <<stream, phase, backlog, sent, taken, fin, rst, epollVars, conns, peer, wants,
                     listener_registered, events, cur, shutdown, faults>>
  BY DEF IoWrite, Writable
<1>2. /\ cur \in conns /\ cur \in Fds /\ c \in Peers /\ conns \subseteq Fds
      /\ WellFormed(conn[cur]) /\ conn[cur].state = "Writing"
  BY <1>1 DEF TypeOK, Coherent, DrivenOpen, Owned, ActionMatches
<1>3. /\ tx' = [tx EXCEPT ![c] = tx[c] + n]
      /\ conn' = [conn EXCEPT ![cur] = k]
      /\ answered' = [answered EXCEPT ![c] = IF k.state = "Writing" THEN answered[c] ELSE answered[c] + 1]
      /\ Resume(ActionForState(k), k.state = "Writing")
  BY <1>2 DEF IoWrite, PendingWrite
<1>4. tx[c] \in Nat /\ SndBuf \in Nat /\ answered[c] \in Nat /\ m \in Nat /\ m > 0
  BY <1>2, ReactorAssumption DEF TypeOK, WellFormed, Connections
<1>5. /\ n \in Nat /\ n > 0 /\ n <= m /\ n <= SndBuf - tx[c]
      /\ n < m => n = SndBuf - tx[c]
  <2>1. SndBuf - tx[c] \in Nat /\ SndBuf - tx[c] > 0
    BY <1>1, <1>4
  <2> HIDE DEF c, m
  <2> QED
    BY <2>1, <1>4, MinOfTwo
<1> HIDE DEF n
<1>6. n \in 1 .. conn[cur].pending
  BY <1>4, <1>5
<1>7. /\ WellFormed(k) /\ k \in Connections /\ k.state \in States
      /\ k.state = "Writing" => n < m
  BY <1>2, <1>6, OnWrittenType DEF WellFormed, Connections
<1> HIDE DEF k, c, m
<1>8. /\ action' = IF k.state = "Reading" THEN "WantRead" ELSE IF k.state = "Writing" THEN "WantWrite" ELSE "Close"
      /\ pc' \in {"io", "apply"}
      /\ Drain /\ pc' = "apply" => action' = "Close" \/ k.state = "Writing"
      /\ pc' = "io" => action' # "Close"
  BY <1>3, <1>7 DEF Resume, ActionForState, States
<1>9. TypeOK'
  <2>1. tx' \in [Peers -> 0 .. SndBuf]
    BY <1>2, <1>3, <1>4, <1>5 DEF TypeOK
  <2>2. answered' \in [Peers -> Nat]
    BY <1>2, <1>3, <1>4 DEF TypeOK
  <2>3. conn' \in [Fds -> Connections] /\ pc' \in PCs /\ action' \in Actions
    BY <1>2, <1>3, <1>7, <1>8 DEF TypeOK, PCs, Actions
  <2> QED
    BY <1>1, <2>1, <2>2, <2>3 DEF TypeOK, epollVars
<1>10. conn'[cur] = k /\ \A fd \in conns : fd # cur => conn'[fd] = conn[fd]
  BY <1>2, <1>3 DEF TypeOK
<1>11. BytesInOrder'
  BY <1>1 DEF Coherent, BytesInOrder
<1>12. ActionMatches'
  BY <1>1, <1>7, <1>8, <1>10 DEF ActionMatches, States
<1>13. \A p \in Peers : tx'[p] \in Nat /\ tx[p] \in Nat /\ tx[p] <= tx'[p]
  BY <1>2, <1>3, <1>4, <1>5 DEF TypeOK
<1>14. ASSUME NEW fd \in conns, Event(fd)' # "None" PROVE Event(fd) # "None"
  <2>1. peer[fd] \in Peers /\ fd # Listener
    BY <1>2, FdFacts DEF Coherent, Owned
  <2>2. Writable(fd)' => Writable(fd)
    BY <1>1, <1>4, <1>13, <2>1 DEF Writable
  <2> QED
    BY <1>1, <1>14, <2>1, <2>2 DEF Event, EventFor, Readable, epollVars
<1>15. Drain => Drained'
  <2>1. k.state = "Writing" => tx'[c] = SndBuf
    BY <1>2, <1>3, <1>4, <1>5, <1>7 DEF TypeOK
  <2>2. k.state = "Writing" /\ reg[cur] = "Write" => Event(cur)' = "None"
    BY <1>1, <1>2, <1>4, <2>1, FdFacts DEF Event, EventFor, Writable, epollVars, c
  <2> QED
    BY <1>1, <1>8, <2>2 DEF Drained, NextInterest, epollVars
<1> QED
  BY <1>1, <1>7, <1>8, <1>9, <1>10, <1>11, <1>12, <1>14, <1>15, IoInv

-----------------------------------------------------------------------------
(* Steps of the loop: drive's epoll_ctl *)

LEMMA ApplyKeepInv == ASSUME IndInv, ApplyKeep PROVE IndInv'
<1> USE DEF IndInv
<1>1. /\ pc = "apply" /\ pc' = "batch" /\ action # "Close" /\ wants[cur] = NextInterest
      /\ UNCHANGED <<sockVars, epollVars, tableVars, listener_registered, events, cur, action, shutdown, faults>>
  BY DEF ApplyKeep
<1>2. cur \in conns /\ conns \subseteq Fds /\ reg[cur] = NextInterest /\ cur \in Fds
  BY <1>1 DEF TypeOK, Coherent, DrivenOpen, TablesI
<1>3. TypeOK'
  BY <1>1 DEF TypeOK, PCs, sockVars, epollVars, tableVars
<1>4. conn[cur].state # "Closed" /\ (reg[cur] = "Write" <=> conn[cur].state = "Writing")
  BY <1>1, <1>2 DEF Coherent, ActionMatches, NextInterest
<1>5. Coherent'
  BY <1>1, <1>4
     DEF Coherent, TablesI, Owned, BytesInOrder, DrivenOpen, ActionMatches, EventsBelong,
         InterestMatchesState, Driving, sockVars, epollVars, tableVars
<1>6. \A fd \in conns : Event(fd)' = Event(fd)
  BY <1>1 DEF Event, EventFor, Readable, Writable, sockVars, epollVars, tableVars
<1>7. Event(cur) # "None" => cur \in rdy
  BY <1>1, <1>2 DEF Queued, Drained
<1>8. Queued'
  BY <1>1, <1>6, <1>7 DEF Queued, LevelQueued, Drained, NoLostWakeup, Driving, epollVars, tableVars
<1> QED
  BY <1>3, <1>5, <1>8

LEMMA ApplyModifyInv == ASSUME IndInv, ApplyModify PROVE IndInv'
<1> USE DEF IndInv
<1>1. /\ pc = "apply" /\ pc' = "batch" /\ action # "Close"
      /\ reg' = [reg EXCEPT ![cur] = NextInterest]
      /\ wants' = [wants EXCEPT ![cur] = NextInterest]
      /\ rdy' = IF EventFor(cur, NextInterest) = "None" THEN rdy ELSE rdy \cup {cur}
      /\ UNCHANGED <<sockVars, conns, peer, conn, listener_registered, events, cur, action, shutdown, faults>>
  BY DEF ApplyModify
<1>2. /\ cur \in conns /\ conns \subseteq Fds /\ cur \in Fds /\ cur \in Polled /\ cur # Listener
      /\ NextInterest \in {"Read", "Write"}
  BY <1>1, FdFacts DEF TypeOK, Coherent, DrivenOpen, NextInterest
<1>3. TypeOK'
  BY <1>1, <1>2 DEF TypeOK, PCs, Interests, sockVars
<1>4. /\ reg'[cur] = NextInterest /\ wants'[cur] = NextInterest
      /\ \A fd \in Polled : fd # cur => reg'[fd] = reg[fd]
      /\ \A fd \in Fds : fd # cur => wants'[fd] = wants[fd]
  BY <1>1, <1>2 DEF TypeOK
<1>5. TablesI'
  BY <1>1, <1>2, <1>4, FdFacts DEF Coherent, TablesI
<1>6. conn[cur].state # "Closed" /\ (reg'[cur] = "Write" <=> conn[cur].state = "Writing")
  BY <1>1, <1>4 DEF Coherent, ActionMatches, NextInterest
<1>7. InterestMatchesState'
  BY <1>1, <1>2, <1>4, <1>6, FdFacts DEF Coherent, InterestMatchesState, Driving
<1>8. Coherent'
  BY <1>1, <1>5, <1>7
     DEF Coherent, Owned, BytesInOrder, DrivenOpen, ActionMatches, EventsBelong, sockVars
<1>9. \A fd \in conns : fd # cur => Event(fd)' = Event(fd)
  BY <1>1, <1>2, <1>4, FdFacts DEF Event, EventFor, Readable, Writable, sockVars
<1>10. Event(cur)' # "None" => cur \in rdy'
  BY <1>1, <1>2, <1>4 DEF Event, EventFor, Readable, Writable, sockVars
<1>11. Queued'
  BY <1>1, <1>9, <1>10 DEF Queued, LevelQueued, Drained, NoLostWakeup, Driving
<1> QED
  BY <1>3, <1>8, <1>11

-----------------------------------------------------------------------------
(* Steps of the loop: apply_backpressure and the end of run *)

LEMMA BackpressureInv == ASSUME IndInv, apply_backpressure PROVE IndInv'
<1> USE DEF IndInv
<1>1. /\ BatchDone /\ pc = "batch" /\ pc' = "sweep"
      /\ UNCHANGED <<sockVars, tableVars, events, cur, action, shutdown>>
  BY DEF apply_backpressure, Shed, Unshed, UnshedFault, NoPressure, BatchDone
<1>2. /\ reg' \in [Polled -> Interests]
      /\ \A fd \in Fds : reg'[fd] = reg[fd]
      /\ listener_registered' \in BOOLEAN
      /\ listener_registered' <=> reg'[Listener] # "None"
      /\ rdy' \subseteq rdy \cup {Listener} /\ rdy \subseteq rdy' \cup {Listener}
  <2>1. CASE Shed
    BY <2>1, FdFacts DEF Shed, TypeOK, Interests
  <2>2. CASE Unshed
    BY <2>2, FdFacts DEF Unshed, TypeOK, Interests
  <2>3. CASE UnshedFault \/ NoPressure
    BY <2>3 DEF UnshedFault, NoPressure, TypeOK, Coherent, TablesI, epollVars
  <2> QED
    BY <2>1, <2>2, <2>3 DEF apply_backpressure
<1>3. faults' \in 0 .. MaxFaults
  BY ReactorAssumption DEF apply_backpressure, Shed, Unshed, UnshedFault, NoPressure, TypeOK
<1>4. TypeOK'
  BY <1>1, <1>2, <1>3, FdFacts DEF TypeOK, PCs, sockVars, tableVars
<1>5. conns \subseteq Fds /\ \A fd \in conns : fd # Listener
  BY FdFacts DEF TypeOK
<1>6. Coherent'
  <2>1. TablesI'
    BY <1>1, <1>2 DEF Coherent, TablesI, tableVars
  <2>2. Owned' /\ BytesInOrder' /\ DrivenOpen' /\ ActionMatches'
    BY <1>1 DEF Coherent, Owned, BytesInOrder, DrivenOpen, ActionMatches, sockVars, tableVars
  <2>3. EventsBelong'
    BY <1>1 DEF Coherent, EventsBelong, BatchDone, sockVars, tableVars
  <2>4. InterestMatchesState'
    BY <1>1, <1>2, <1>5 DEF Coherent, InterestMatchesState, Driving, tableVars
  <2> QED
    BY <2>1, <2>2, <2>3, <2>4 DEF Coherent
<1>7. \A fd \in conns : Event(fd)' = Event(fd)
  BY <1>1, <1>2, <1>5 DEF Event, EventFor, Readable, Writable, sockVars, tableVars
<1>8. Queued'
  BY <1>1, <1>2, <1>5, <1>7 DEF Queued, LevelQueued, Drained, NoLostWakeup, Driving, tableVars
<1> QED
  BY <1>4, <1>6, <1>8

LEMMA StopInv == ASSUME IndInv, Stop PROVE IndInv'
<1> USE DEF IndInv
<1>1. New \in Connections
  BY NewType DEF WellFormed
<1>2. TypeOK'
  <2>1. conn' \in [Fds -> Connections] /\ peer' \in [Fds -> Peers \cup {NoPeer}]
    BY <1>1 DEF Stop
  <2>2. reg' \in [Polled -> Interests] /\ wants' \in [Fds -> Interests]
    BY DEF Stop, Interests
  <2>3. phase' \in [Peers -> Phases] /\ backlog' \in Seq(Peers)
    BY DEF Stop, Phases
  <2>4. rdy' \in SUBSET Polled /\ conns' \in SUBSET Fds /\ listener_registered' \in BOOLEAN /\ pc' \in PCs
    BY DEF Stop, PCs
  <2> QED
    BY <2>1, <2>2, <2>3, <2>4 DEF TypeOK, Stop
<1>3. /\ conns' = {} /\ pc' = "stopped" /\ pc = "wait"
      /\ \A fd \in Polled : reg'[fd] = "None"
      /\ \A fd \in Fds : wants'[fd] = "None"
      /\ UNCHANGED <<stream, sent, taken, events>> /\ listener_registered' = FALSE
  BY DEF Stop
<1>4. Coherent'
  BY <1>3, FdFacts
     DEF Coherent, TablesI, Owned, BytesInOrder, DrivenOpen, ActionMatches, EventsBelong, InterestMatchesState
<1>5. Queued'
  BY <1>3 DEF Queued, LevelQueued, Drained, NoLostWakeup
<1> QED
  BY <1>2, <1>4, <1>5

LEMMA StutterInv == ASSUME IndInv, UNCHANGED vars PROVE IndInv'
<1> USE DEF IndInv, vars, sockVars, epollVars, tableVars, loopVars
<1>1. TypeOK'
  BY DEF TypeOK
<1>2. Coherent'
  BY DEF Coherent, TablesI, Owned, BytesInOrder, DrivenOpen, ActionMatches, EventsBelong,
         InterestMatchesState, Driving
<1>3. Queued'
  BY DEF Queued, LevelQueued, Drained, NoLostWakeup, NextInterest, Driving, Event, EventFor, Readable, Writable
<1> QED
  BY <1>1, <1>2, <1>3

LEMMA NextInv == ASSUME IndInv, [Next]_vars PROVE IndInv'
<1>1. CASE Environment
  BY <1>1, ConnectInv, PeerSendInv, PeerReadInv, PeerShutdownInv, PeerResetInv, DeadlineInv, SignalInv
     DEF Environment
<1>2. CASE run
  <2>1. CASE Wait \/ Batch
    BY <2>1, WaitInv, TakeListenerInv, TakeHupInv, TakeIoInv DEF Batch
  <2>2. CASE accept_ready
    BY <2>2, AcceptStopInv, AcceptOkInv, AcceptFaultInv DEF accept_ready
  <2>3. CASE drive_io
    BY <2>3, IoReadInv, IoWriteInv, IoNoneInv DEF drive_io
  <2>4. CASE drive
    BY <2>4, ApplyCloseInv, ApplyKeepInv, ApplyModifyInv DEF drive
  <2>5. CASE apply_backpressure \/ Sweep \/ Stop
    BY <2>5, BackpressureInv, SweepInv, StopInv
  <2> QED
    BY <1>2, <2>1, <2>2, <2>3, <2>4, <2>5 DEF run
<1>3. CASE UNCHANGED vars
  BY <1>3, StutterInv
<1> QED
  BY <1>1, <1>2, <1>3 DEF Next

LEMMA AlwaysInv == Spec => []IndInv
<1>1. Init => IndInv
  BY InitInv
<1>2. IndInv /\ [Next]_vars => IndInv'
  BY NextInv
<1> QED
  BY <1>1, <1>2, PTL DEF Spec

-----------------------------------------------------------------------------
(* Theorems *)

\* Every variable of the reactor stays in its domain: in particular no read or
\* write of drive_io counts below zero or past the send queue.
THEOREM ReactorTypeCorrect == Spec => []TypeOK
<1>1. IndInv => TypeOK
  BY DEF IndInv
<1> QED
  BY <1>1, AlwaysInv, PTL

\* A connection that drive is not working on is registered for the direction
\* its Connection is waiting for.
THEOREM InterestAlwaysMatches == Spec => []InterestMatchesState
<1>1. IndInv => InterestMatchesState
  BY DEF IndInv, Coherent
<1> QED
  BY <1>1, AlwaysInv, PTL

\* Neither discipline of drive_io loses a wakeup: draining to EAGAIN when
\* edge-triggered, one system call per event when level-triggered.
THEOREM NoWakeupIsLost == Spec => []NoLostWakeup
<1>1. IndInv => NoLostWakeup
  BY DEF IndInv, Queued
<1> QED
  BY <1>1, AlwaysInv, PTL

\* The connection table, the loop's record of interests and the kernel's
\* interest list always agree, within max_connections: drop_conn, accept_ready
\* and drive leak no fd and leave none unregistered, whichever of their system
\* calls fail.
THEOREM TablesAlwaysAgree == Spec => []TablesAgree
<1> DEFINE CapRespected == Cardinality(conns) <= MaxConns
<1>1. Init => CapRespected
  <2>1. MaxConns \in Nat
    BY ReactorAssumption
  <2>2. ASSUME Init PROVE Cardinality(conns) = 0
    <3>1. conns = {}
      BY <2>2 DEF Init
    <3> QED
      BY <3>1, FS_EmptySet, Zenon
  <2> QED
    BY <2>1, <2>2
<1>2. ASSUME IndInv, CapRespected, [Next]_vars PROVE CapRespected'
  <2>1. IsFiniteSet(conns) /\ Cardinality(conns) \in Nat /\ MaxConns \in Nat
    <3>1. IsFiniteSet(Fds)
      BY FS_Interval, ReactorAssumption DEF Fds
    <3>2. conns \subseteq Fds
      BY <1>2 DEF IndInv, TypeOK
    <3> QED
      BY <3>1, <3>2, FS_Subset, FS_CardinalityType, ReactorAssumption
  <2>2. CASE conns' \subseteq conns
    BY <1>2, <2>1, <2>2, FS_Subset, FS_CardinalityType
  <2>3. CASE AcceptOk
    <3>1. PICK fd \in Fds \ conns : conns' = conns \cup {fd}
      BY <2>3 DEF AcceptOk, FreeFds
    <3>2. Cardinality(conns') = Cardinality(conns) + 1
      BY <2>1, <3>1, FS_AddElement
    <3>3. Cardinality(conns) < MaxConns
      BY <2>3 DEF AcceptOk, Accepting
    <3> QED
      BY <2>1, <3>2, <3>3
  <2>4. AcceptOk \/ conns' \subseteq conns
    <3>1. CASE Environment
      BY <3>1 DEF Environment, Connect, PeerSend, PeerRead, PeerShutdown, PeerReset, Deadline, Signal, tableVars
    <3>2. CASE Wait \/ Batch \/ AcceptStop \/ AcceptFault
      BY <3>2 DEF Wait, Batch, TakeListener, TakeHup, TakeIo, AcceptStop, AcceptFault, DropConns, tableVars
    <3>3. CASE drive_io
      BY <3>3 DEF drive_io, IoRead, IoReadNone, IoWrite, IoWriteNone, tableVars
    <3>4. CASE drive
      BY <3>4 DEF drive, ApplyClose, ApplyKeep, ApplyModify, ApplyFault, DropConns, tableVars
    <3>5. CASE apply_backpressure \/ Sweep \/ Stop
      BY <3>5 DEF apply_backpressure, Shed, Unshed, UnshedFault, NoPressure, Sweep, Stop, DropConns, tableVars
    <3>6. CASE UNCHANGED vars
      BY <3>6 DEF vars, tableVars
    <3> QED
      BY <1>2, <3>1, <3>2, <3>3, <3>4, <3>5, <3>6 DEF Next, run, accept_ready
  <2> QED
    BY <2>2, <2>3, <2>4
<1>3. IndInv /\ CapRespected => TablesAgree
  BY DEF IndInv, Coherent, TablesI, TablesAgree
<1>4. IndInv /\ CapRespected /\ [Next]_vars => CapRespected'
  BY <1>2
<1> HIDE DEF CapRespected
<1> QED
  BY <1>1, <1>3, <1>4, AlwaysInv, PTL DEF Spec

\* Only a new connection or a dropped one changes the peer of an fd.
LEMMA PeerChanges ==
    ASSUME IndInv, [Next]_vars, NEW fd \in conns, fd \in conns'
    PROVE  peer'[fd] = peer[fd]
<1>1. fd \in Fds
  BY DEF IndInv, TypeOK
<1>2. ASSUME NEW S, DropConns(S) PROVE peer'[fd] = peer[fd]
  BY <1>1, <1>2 DEF DropConns
<1>3. CASE Environment
  BY <1>3 DEF Environment, Connect, PeerSend, PeerRead, PeerShutdown, PeerReset, Deadline, Signal, tableVars
<1>4. CASE Wait \/ Batch
  BY <1>2, <1>4 DEF Wait, Batch, TakeListener, TakeHup, TakeIo, tableVars
<1>5. CASE accept_ready
  <2>1. CASE AcceptOk
    BY <2>1, <1>1 DEF AcceptOk, FreeFds, IndInv, TypeOK
  <2> QED
    BY <1>5, <2>1 DEF accept_ready, AcceptStop, AcceptFault, tableVars
<1>6. CASE drive_io
  BY <1>6 DEF drive_io, IoRead, IoReadNone, IoWrite, IoWriteNone, tableVars
<1>7. CASE drive
  BY <1>2, <1>7 DEF drive, ApplyClose, ApplyKeep, ApplyModify, ApplyFault, tableVars
<1>8. CASE apply_backpressure \/ Sweep \/ Stop
  BY <1>2, <1>8 DEF apply_backpressure, Shed, Unshed, UnshedFault, NoPressure, Sweep, Stop, tableVars
<1>9. CASE UNCHANGED vars
  BY <1>9 DEF vars, tableVars
<1> QED
  BY <1>3, <1>4, <1>5, <1>6, <1>7, <1>8, <1>9 DEF Next, run

\* An event of a batch is never delivered to another connection than the one it
\* was reported for, although fds are closed and reused within the batch.
THEOREM EventsNeverStale == Spec => EventsStayWithTheirConnection
<1>1. ASSUME IndInv, IndInv', [Next]_vars,
             NEW fd \in Fds, events[fd] # "None", events'[fd] # "None"
      PROVE  fd \in conns' /\ peer'[fd] = peer[fd]
  <2>1. fd \in conns /\ fd \in conns'
    BY <1>1 DEF IndInv, Coherent, EventsBelong
  <2> QED
    BY <1>1, <2>1, PeerChanges
<1>2. IndInv /\ IndInv' /\ [Next]_vars =>
        [\A fd \in Fds : events[fd] # "None" /\ events'[fd] # "None" /\ pc # "wait"
            => fd \in conns' /\ peer'[fd] = peer[fd]]_vars
  BY <1>1
<1> QED
  BY <1>2, AlwaysInv, PTL DEF Spec, EventsStayWithTheirConnection

\* No connection is closed without a cause: its peer's reset, its peer's end
\* with all of its input read and answered, its response's request, its deadline, a failed epoll_ctl or the shutdown.
THEOREM NeverClosedWithoutCause == Spec => ClosedForACause
<1> DEFINE Cause(fd) == \/ /\ fin[peer[fd]] /\ taken[peer[fd]] = sent[peer[fd]]
                           /\ conn[fd].state = "Reading"
                        \/ rst[peer[fd]]
                        \/ conn[fd].state = "Closed" \/ IsExpired(conn[fd])
                        \/ faults' # faults \/ shutdown
<1>1. ASSUME IndInv, [Next]_vars, NEW fd \in conns, fd \notin conns' PROVE Cause(fd)
  <2>1. CASE Environment \/ UNCHANGED vars
    BY <1>1, <2>1 DEF Environment, Connect, PeerSend, PeerRead, PeerShutdown, PeerReset, Deadline, Signal,
                      vars, tableVars
  <2>2. CASE Wait \/ Batch
    <3>1. CASE \E g \in Fds : TakeHup(g)
      BY <1>1, <3>1 DEF TakeHup, DropConns, IndInv, Coherent, EventsBelong
    <3> QED
      BY <1>1, <2>2, <3>1 DEF Wait, Batch, TakeListener, TakeIo, tableVars
  <2>3. CASE accept_ready \/ drive_io
    BY <1>1, <2>3 DEF accept_ready, AcceptStop, AcceptOk, AcceptFault, drive_io, IoRead, IoReadNone, IoWrite,
                      IoWriteNone, tableVars
  <2>4. CASE drive
    <3>1. CASE ApplyClose
      BY <1>1, <3>1 DEF ApplyClose, DropConns, IndInv, Coherent, ActionMatches
    <3>2. CASE ApplyFault
      <4>1. faults \in Nat /\ faults' = faults + 1
        BY <1>1, <3>2, ReactorAssumption DEF ApplyFault, IndInv, TypeOK
      <4>2. faults' # faults
        BY <4>1
      <4> QED
        BY <4>2
    <3> QED
      BY <1>1, <2>4, <3>1, <3>2 DEF drive, ApplyKeep, ApplyModify, tableVars
  <2>5. CASE Sweep
    BY <1>1, <2>5 DEF Sweep, DropConns
  <2>6. CASE apply_backpressure \/ Stop
    BY <1>1, <2>6 DEF apply_backpressure, Shed, Unshed, UnshedFault, NoPressure, Stop, tableVars
  <2> QED
    BY <1>1, <2>1, <2>2, <2>3, <2>4, <2>5, <2>6 DEF Next, run
<1>2. IndInv /\ [Next]_vars => [\A fd \in conns : fd \notin conns' => Cause(fd)]_vars
  BY <1>1
<1> QED
  BY <1>2, AlwaysInv, PTL DEF Spec, ClosedForACause
=============================================================================
