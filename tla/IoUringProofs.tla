---------------------------- MODULE IoUringProofs ----------------------------
(***************************************************************************)
(* Theorems about IoUring, for any number of peers, fds, buffers and       *)
(* submission entries, and for any number of failed submissions.           *)
(***************************************************************************)
EXTENDS IoUring, ConnectionProofs, FiniteSetTheorems

-----------------------------------------------------------------------------
(* The inductive invariant *)

IsIo(e)     == OpOf(e.ud) \in {OP_RECV, OP_SEND}
IsNew(c)    == OpOf(c.ud) = OP_ACCEPT /\ c.res > 0
IsFilled(c) == OpOf(c.ud) = OP_RECV /\ c.res > 0

\* The operations on connections pushed and not completed, and the completions
\* not handled that bring a connection or end a receive or a send.
Pend   == {e \in sq \cup kern \cup lost : FdOf(e.ud) # Listener}
Posted == {c \in cq \cup batch : IsIo(c) \/ IsNew(c)}

\* A batch is worked off before the next one is taken, after the stop there is
\* no ring, and what is in a queue is in no other.
QueuesI ==
    /\ pc # "top" => batch = {}
    /\ pc = "stopped" => kern = {} /\ sq = {} /\ cq = {}
    /\ IsFiniteSet(Posted)
    /\ \A e \in Pend : /\ ~ (e \in sq /\ e \in kern)
                       /\ ~ (e \in sq /\ e \in lost)
                       /\ ~ (e \in kern /\ e \in lost)
    /\ \A c \in Posted : ~ (c \in cq /\ c \in batch)

\* An open fd has one owner: an accept completion, the table, or a close.  One
\* in the table has one operation, pending or posted.
OwnersI ==
    /\ \A e, f \in Pend : FdOf(e.ud) = FdOf(f.ud) => e = f
    /\ \A c, d \in Posted : IsIo(c) /\ IsIo(d) /\ FdOf(c.ud) = FdOf(d.ud) => c = d
    /\ \A c, d \in Posted : IsNew(c) /\ IsNew(d) /\ c.res = d.res => c = d
    /\ \A c \in Posted, e \in Pend :
          /\ IsIo(c)  => FdOf(e.ud) # FdOf(c.ud)
          /\ IsNew(c) => FdOf(e.ud) # c.res
    /\ \A c \in Posted : IsNew(c) => c.res \in Fds /\ Open(c.res) /\ c.res \notin conns
    /\ \A c \in Posted : IsIo(c) => FdOf(c.ud) \in conns
    /\ \A e \in Pend : Open(FdOf(e.ud)) /\ (IsIo(e) <=> FdOf(e.ud) \in conns)
    /\ \A fd \in conns :
          /\ Open(fd)
          /\ \/ \E e \in Pend : FdOf(e.ud) = fd
             \/ \E c \in Posted : IsIo(c) /\ FdOf(c.ud) = fd
    /\ \A fd \in Fds : Open(fd) =>
          \/ fd \in conns
          \/ \E e \in Pend : FdOf(e.ud) = fd
          \/ \E c \in Posted : IsNew(c) /\ c.res = fd

\* The operation of a connection is the one its state waits for.
StatesI ==
    /\ \A fd \in conns : WellFormed(conn[fd]) /\ conn[fd].state # "Closed"
    /\ \A e \in Pend :
          /\ OpOf(e.ud) = OP_RECV => conn[FdOf(e.ud)].state = "Reading"
          /\ OpOf(e.ud) = OP_SEND => /\ conn[FdOf(e.ud)].state = "Writing"
                                     /\ conn[FdOf(e.ud)].pending = e.len
    /\ \A c \in Posted :
          /\ OpOf(c.ud) = OP_RECV => conn[FdOf(c.ud)].state = "Reading"
          /\ OpOf(c.ud) = OP_SEND =>
                /\ conn[FdOf(c.ud)].state = "Writing"
                /\ c.res < 0 \/ c.res \in 1 .. conn[FdOf(c.ud)].pending

\* The i-th buffer that the kernel will take.
Slot(i) == slots[(khead + i) % NumBufs]

Filled == {c \in Posted : IsFilled(c)}

\* A buffer is in the ring, once, or in one completion.
RingI ==
    /\ BufsInRing <= NumBufs
    /\ \A c \in cq \cup batch : c.buf # NoBuf <=> IsFilled(c)
    /\ \A i, j \in 0 .. BufsInRing - 1 : Slot(i) = Slot(j) => i = j
    /\ \A c \in Filled : \A i \in 0 .. BufsInRing - 1 : Slot(i) # c.buf
    /\ \A c, d \in Filled : c.buf = d.buf => c = d
    /\ pc # "stopped" =>
          /\ BufsInRing + Cardinality(Filled) = NumBufs
          /\ \A b \in Bids : \/ \E i \in 0 .. BufsInRing - 1 : Slot(i) = b
                             \/ \E c \in Filled : c.buf = b

\* The peers of open fds were accepted, once each, from the backlog.
PeersI ==
    /\ \A c \in Peers : taken[c] <= sent[c] /\ sent[c] <= Len(stream[c])
    /\ \A c \in Peers : phase[c] \in {"idle", "queued"} => taken[c] = 0 /\ got[c] = << >>
    /\ \A fd \in Fds : Open(fd) => phase[fdPeer[fd]] = "open"
    /\ \A fd, g \in Fds : Open(fd) /\ fdPeer[fd] = fdPeer[g] => fd = g
    /\ \A i \in 1 .. Len(backlog) : phase[backlog[i]] = "queued"
    /\ \A i, j \in 1 .. Len(backlog) : backlog[i] = backlog[j] => i = j

\* A connection was given all that the kernel took from its peer, but for the
\* buffer of a receive not handled yet, which holds what comes next.
InputI ==
    /\ InputIntact
    /\ \A c \in Peers : Len(got[c]) <= taken[c]
    /\ \A fd \in Fds :
          Open(fd) /\ (\A e \in Filled : FdOf(e.ud) # fd)
              => Len(got[fdPeer[fd]]) = taken[fdPeer[fd]]
    /\ \A e \in Filled :
          LET c == fdPeer[FdOf(e.ud)]
          IN  /\ Len(got[c]) + e.res = taken[c]
              /\ pool[e.buf] = SubSeq(stream[c], Len(got[c]) + 1, taken[c])

IInv == TypeOK /\ QueuesI /\ OwnersI /\ StatesI /\ RingI /\ PeersI /\ InputI

-----------------------------------------------------------------------------
(* Remainders by a divisor that is not a numeral *)

\* A quotient and a remainder in range determine the value of %.
LEMMA ModUnique ==
    ASSUME NEW a \in Int, NEW m \in Nat \ {0}, NEW q \in Int, NEW r \in 0 .. m - 1, a = q * m + r
    PROVE  a % m = r
OBVIOUS

\* Every natural number is a multiple of the divisor and its remainder.
LEMMA DivMod ==
    ASSUME NEW a \in Nat, NEW m \in Nat \ {0}
    PROVE  a % m \in 0 .. m - 1 /\ \E q \in Int : a = q * m + (a % m)
<1> DEFINE S == {r \in Nat : \E q \in Int : a = q * m + r}
<1>1. a \in S /\ S \in SUBSET Nat
  <2>1. a = 0 * m + a
    OBVIOUS
  <2> QED
    BY <2>1
<1>2. PICK r \in S : \A y \in S : r <= y
  BY <1>1, LeastExists
<1>3. r \in Nat
  BY <1>2
<1>4. PICK q \in Int : a = q * m + r
  BY <1>2
<1>5. r < m
  <2> SUFFICES ASSUME r >= m PROVE FALSE
    OBVIOUS
  <2>1. a = (q + 1) * m + (r - m) /\ q + 1 \in Int /\ r - m \in Nat
    BY <1>4
  <2>2. r - m \in S
    BY <2>1
  <2>3. r <= r - m
    BY <1>2, <2>2
  <2> HIDE DEF S
  <2> QED
    BY <1>3, <2>3
<1>6. a % m = r
  BY <1>3, <1>4, <1>5, ModUnique
<1>7. a % m \in 0 .. m - 1
  BY <1>3, <1>5, <1>6
<1>8. a = q * m + (a % m)
  BY <1>4, <1>6
<1> HIDE DEF S
<1> QED
  BY <1>4, <1>7, <1>8

\* Adding a multiple of the divisor changes no remainder.
LEMMA ModShift ==
    ASSUME NEW m \in Nat \ {0}, NEW t \in Nat, t % m = 0, NEW i \in Nat
    PROVE  (t + i) % m = i % m
<1>1. PICK p \in Int : t = p * m + 0
  BY DivMod
<1>2. PICK r : r = i % m
  OBVIOUS
<1>3. r \in 0 .. m - 1 /\ \E q \in Int : i = q * m + r
  BY <1>2, DivMod, Zenon
<1>4. PICK q \in Int : i = q * m + r
  BY <1>3
<1>5. t + i = (p + q) * m + r /\ p + q \in Int
  BY <1>1, <1>3, <1>4
<1>6. (t + i) % m = r
  BY <1>3, <1>5, ModUnique
<1> QED
  BY <1>2, <1>6

\* Two numbers less than the divisor apart have different remainders.
LEMMA ModApart ==
    ASSUME NEW m \in Nat \ {0}, NEW h \in Nat, NEW i \in Nat, NEW j \in Nat, i < j, j - i < m
    PROVE  (h + i) % m # (h + j) % m
<1> SUFFICES ASSUME (h + i) % m = (h + j) % m PROVE FALSE
  OBVIOUS
<1>1. PICK a, b, r : a = h + i /\ b = h + j /\ r = a % m
  OBVIOUS
<1>2. a \in Nat /\ b \in Nat
  BY <1>1
<1>3. a % m = r /\ b % m = r /\ b - a = j - i
  BY <1>1
<1>4. a % m \in 0 .. m - 1 /\ \E p \in Int : a = p * m + (a % m)
  BY <1>2, DivMod, Zenon
<1>5. \E q \in Int : b = q * m + (b % m)
  BY <1>2, DivMod, Zenon
<1>6. PICK p \in Int, q \in Int : j - i = q * m - p * m
  <2>1. PICK p \in Int : a = p * m + r
    BY <1>3, <1>4
  <2>2. PICK q \in Int : b = q * m + r
    BY <1>3, <1>5
  <2>3. r \in Int /\ b - a = j - i
    BY <1>3, <1>4
  <2>4. j - i = q * m - p * m
    BY <2>1, <2>2, <2>3
  <2> QED
    BY <2>4, Zenon
<1>7. CASE q <= p
  <2>1. q * m <= p * m
    BY <1>7
  <2> QED
    BY <1>6, <2>1
<1>8. CASE q > p
  <2>1. p * m + m <= q * m
    BY <1>8
  <2> QED
    BY <1>6, <2>1
<1> QED
  BY <1>7, <1>8

-----------------------------------------------------------------------------
(* user_data *)

\* unpack undoes pack.
LEMMA PackUnpack ==
    ASSUME NEW op \in 1 .. 4, NEW fd \in Nat
    PROVE  OpOf(pack(op, fd)) = op /\ FdOf(pack(op, fd)) = fd
BY DEF pack, OpOf, FdOf

LEMMA FdFacts == Fds \in SUBSET Nat /\ Listener \notin Fds /\ IsFiniteSet(Fds) /\ NumBufs \in Nat \ {0}
<1>1. NumFds \in Nat /\ NumBufs \in Nat \ {0}
  BY IoUringAssumption
<1> QED
  BY <1>1, FS_Interval DEF Fds, Listener

\* What an entry of a queue is about.
LEMMA UserDataFacts ==
    ASSUME NEW ud \in UserData
    PROVE  /\ OpOf(ud) \in {OP_ACCEPT, OP_RECV, OP_SEND, OP_CLOSE}
           /\ FdOf(ud) \in Fds \cup {Listener}
           /\ OpOf(ud) = OP_ACCEPT <=> FdOf(ud) = Listener
<1>1. CASE ud = pack(OP_ACCEPT, Listener)
  <2>1. OpOf(ud) = OP_ACCEPT /\ FdOf(ud) = Listener
    BY <1>1, PackUnpack DEF OP_ACCEPT, Listener
  <2> QED
    BY <2>1, FdFacts
<1>2. ASSUME NEW op \in {OP_RECV, OP_SEND, OP_CLOSE}, NEW fd \in Fds, ud = pack(op, fd)
      PROVE  OpOf(ud) = op /\ FdOf(ud) = fd
  BY <1>2, PackUnpack, FdFacts DEF OP_RECV, OP_SEND, OP_CLOSE
<1>3. CASE ud # pack(OP_ACCEPT, Listener)
  <2>1. PICK op \in {OP_RECV, OP_SEND, OP_CLOSE}, fd \in Fds : ud = pack(op, fd)
    BY <1>3 DEF UserData
  <2>2. OpOf(ud) = op /\ FdOf(ud) = fd
    BY <1>2, <2>1
  <2> QED
    BY <2>2, FdFacts DEF OP_ACCEPT, OP_RECV, OP_SEND, OP_CLOSE
<1> QED
  BY <1>1, <1>3

LEMMA SqeFacts ==
    ASSUME NEW op \in {OP_RECV, OP_SEND, OP_CLOSE}, NEW fd \in Fds, NEW len \in Nat
    PROVE  /\ Sqe(op, fd, len) \in Sqes
           /\ OpOf(Sqe(op, fd, len).ud) = op /\ FdOf(Sqe(op, fd, len).ud) = fd
           /\ Sqe(op, fd, len).len = len
<1>1. pack(op, fd) \in UserData
  BY DEF UserData
<1>2. OpOf(pack(op, fd)) = op /\ FdOf(pack(op, fd)) = fd
  BY PackUnpack, FdFacts DEF OP_RECV, OP_SEND, OP_CLOSE
<1> QED
  BY <1>1, <1>2 DEF Sqe, Sqes

LEMMA AcceptSqe ==
    LET e == Sqe(OP_ACCEPT, Listener, 0)
    IN  e \in Sqes /\ OpOf(e.ud) = OP_ACCEPT /\ FdOf(e.ud) = Listener
<1>1. pack(OP_ACCEPT, Listener) \in UserData
  BY DEF UserData
<1>2. OpOf(pack(OP_ACCEPT, Listener)) = OP_ACCEPT /\ FdOf(pack(OP_ACCEPT, Listener)) = Listener
  BY PackUnpack DEF OP_ACCEPT, Listener
<1> QED
  BY <1>1, <1>2 DEF Sqe, Sqes

\* The kinds of operation differ.
LEMMA OpsDiffer ==
    /\ OP_ACCEPT \notin {OP_RECV, OP_SEND, OP_CLOSE} /\ OP_RECV # OP_SEND
    /\ OP_CLOSE \notin {OP_RECV, OP_SEND}
BY DEF OP_ACCEPT, OP_RECV, OP_SEND, OP_CLOSE

\* What the members of the queues are about.
LEMMA QueueFacts ==
    ASSUME TypeOK
    PROVE  /\ \A e \in Pend : /\ e \in Sqes /\ FdOf(e.ud) \in Fds
                              /\ OpOf(e.ud) \in {OP_RECV, OP_SEND, OP_CLOSE}
           /\ \A c \in cq \cup batch :
                /\ c \in Cqes /\ c.res \in Int
                /\ OpOf(c.ud) \in {OP_ACCEPT, OP_RECV, OP_SEND, OP_CLOSE}
                /\ FdOf(c.ud) \in Fds <=> OpOf(c.ud) # OP_ACCEPT
           /\ \A c \in Posted : c \in cq \cup batch /\ c \in Cqes /\ (IsIo(c) => FdOf(c.ud) \in Fds)
<1>1. \A e \in Pend : /\ e \in Sqes /\ FdOf(e.ud) \in Fds
                      /\ OpOf(e.ud) \in {OP_RECV, OP_SEND, OP_CLOSE}
  <2> SUFFICES ASSUME NEW e \in Pend
               PROVE  /\ e \in Sqes /\ FdOf(e.ud) \in Fds
                      /\ OpOf(e.ud) \in {OP_RECV, OP_SEND, OP_CLOSE}
    OBVIOUS
  <2>1. e \in Sqes /\ FdOf(e.ud) # Listener
    BY DEF Pend, TypeOK
  <2>2. e.ud \in UserData
    BY <2>1 DEF Sqes
  <2> QED
    BY <2>1, <2>2, UserDataFacts
<1>2. \A c \in cq \cup batch :
                /\ c \in Cqes /\ c.res \in Int
                /\ OpOf(c.ud) \in {OP_ACCEPT, OP_RECV, OP_SEND, OP_CLOSE}
                /\ FdOf(c.ud) \in Fds <=> OpOf(c.ud) # OP_ACCEPT
  <2> SUFFICES ASSUME NEW c \in cq \cup batch
               PROVE  /\ c \in Cqes /\ c.res \in Int
                      /\ OpOf(c.ud) \in {OP_ACCEPT, OP_RECV, OP_SEND, OP_CLOSE}
                      /\ FdOf(c.ud) \in Fds <=> OpOf(c.ud) # OP_ACCEPT
    OBVIOUS
  <2>1. c \in Cqes
    BY DEF TypeOK
  <2>2. c.ud \in UserData /\ c.res \in Int
    BY <2>1 DEF Cqes
  <2> QED
    BY <2>1, <2>2, UserDataFacts, FdFacts
<1>3. \A c \in Posted : c \in cq \cup batch /\ c \in Cqes /\ (IsIo(c) => FdOf(c.ud) \in Fds)
  BY <1>2, OpsDiffer DEF Posted, IsIo
<1> QED
  BY <1>1, <1>2, <1>3

-----------------------------------------------------------------------------
(* Initial states *)

\* At the start no fd is open and every buffer is in the ring.
LEMMA InitIInv == Init => IInv
<1> SUFFICES ASSUME Init PROVE IInv
  OBVIOUS
<1>1. /\ NumBufs \in Nat /\ NumBufs > 0 /\ TailMod \in Nat /\ TailMod > NumBufs /\ MaxFaults \in Nat
      /\ Streams \in SUBSET Seq(Units)
  BY IoUringAssumption
<1>2. Pend = {} /\ Posted = {} /\ Filled = {} /\ cq \cup batch = {} /\ conns = {}
  BY DEF Init, Pend, Posted, Filled
<1>3. TypeOK
  <2>1. New \in Connections
    BY NewType DEF WellFormed
  <2>2. slots \in [Bids -> Bids] /\ pool \in [Bids -> Seq(Units)] /\ got \in [Peers -> Seq(Units)]
    BY DEF Init
  <2>3. khead \in 0 .. TailMod - 1 /\ tail \in 0 .. TailMod - 1 /\ faults \in 0 .. MaxFaults
    BY <1>1 DEF Init
  <2>4. conn \in [Fds -> Connections] /\ fdPeer \in [Fds -> Peers \cup {NoPeer}] /\ backlog \in Seq(Peers)
    BY <2>1 DEF Init
  <2> QED
    BY <2>2, <2>3, <2>4 DEF Init, TypeOK
<1>4. QueuesI
  BY <1>2, FS_EmptySet DEF Init, QueuesI
<1>5. OwnersI
  BY <1>2 DEF Init, OwnersI, Open
<1>6. StatesI
  BY <1>2 DEF StatesI
<1>7. RingI
  <2>1. BufsInRing = NumBufs
    <3>1. NumBufs = 0 * TailMod + NumBufs /\ NumBufs \in 0 .. TailMod - 1
      BY <1>1
    <3>2. NumBufs % TailMod = NumBufs
      BY <1>1, <3>1, ModUnique
    <3>3. tail - khead = NumBufs
      BY <1>1 DEF Init
    <3> QED
      BY <3>2, <3>3 DEF BufsInRing
  <2>2. \A i \in Bids : Slot(i) = i
    <3> SUFFICES ASSUME NEW i \in Bids PROVE Slot(i) = i
      OBVIOUS
    <3>1. i \in Int /\ i = 0 * NumBufs + i /\ i \in 0 .. NumBufs - 1
      BY <1>1 DEF Bids
    <3>2. i % NumBufs = i
      BY <1>1, <3>1, ModUnique
    <3>3. (khead + i) % NumBufs = i
      BY <3>1, <3>2 DEF Init
    <3> QED
      BY <3>3 DEF Init, Slot
  <2>3. 0 .. BufsInRing - 1 = Bids
    BY <2>1 DEF Bids
  <2>4. Cardinality(Filled) = 0
    BY <1>2, FS_EmptySet, Zenon
  <2> QED
    BY <1>1, <1>2, <2>1, <2>2, <2>3, <2>4 DEF RingI
<1>8. PeersI
  <2>1. \A c \in Peers : stream[c] \in Seq(Units) /\ Len(stream[c]) \in Nat
    BY <1>1 DEF Init
  <2> QED
    BY <2>1 DEF Init, PeersI, Open
<1>9. InputI
  <2>1. \A c \in Peers : got[c] = SubSeq(stream[c], 1, Len(got[c]))
    <3> SUFFICES ASSUME NEW c \in Peers PROVE got[c] = SubSeq(stream[c], 1, Len(got[c]))
      OBVIOUS
    <3>1. got[c] = << >> /\ stream[c] \in Seq(Units)
      BY <1>1 DEF Init
    <3>2. SubSeq(stream[c], 1, 0) = << >>
      BY <3>1, SubSeqProperties, EmptySeq
    <3> QED
      BY <3>1, <3>2
  <2> QED
    BY <1>2, <2>1 DEF Init, InputI, InputIntact, Open
<1> QED
  BY <1>3, <1>4, <1>5, <1>6, <1>7, <1>8, <1>9 DEF IInv

-----------------------------------------------------------------------------
(* What each part of the invariant depends on *)

LEMMA OwnersFrame ==
    ASSUME OwnersI, Pend' = Pend, Posted' = Posted, UNCHANGED <<conns, fdPeer>>
    PROVE  OwnersI'
BY DEF OwnersI, Open, IsIo, IsNew

LEMMA StatesFrame ==
    ASSUME StatesI, Pend' = Pend, Posted' = Posted, UNCHANGED <<conns, conn>>
    PROVE  StatesI'
BY DEF StatesI

LEMMA RingFrame ==
    ASSUME RingI, Filled' = Filled, UNCHANGED <<slots, tail, khead>>,
           pc' # "stopped" => pc # "stopped",
           \A c \in (cq \cup batch)' : c \in cq \cup batch \/ (c.buf = NoBuf /\ ~ IsFilled(c))
    PROVE  RingI'
<1>1. BufsInRing' = BufsInRing /\ \A i : Slot(i)' = Slot(i)
  BY DEF BufsInRing, Slot
<1>2. \A c \in (cq \cup batch)' : c.buf # NoBuf <=> IsFilled(c)
  BY DEF RingI
<1> QED
  BY <1>1, <1>2 DEF RingI

LEMMA InputFrame ==
    ASSUME InputI, Filled' = Filled, UNCHANGED <<stream, taken, got, fdPeer, pool>>
    PROVE  InputI'
BY DEF InputI, InputIntact, Open

LEMMA PeersFrame ==
    ASSUME PeersI, UNCHANGED <<stream, phase, backlog, sent, taken, got, fdPeer>>
    PROVE  PeersI'
BY DEF PeersI, Open

LEMMA TypeFrame ==
    ASSUME TypeOK, UNCHANGED <<stream, phase, backlog, sent, taken, fin, rst, answered, got>>,
           UNCHANGED <<fdPeer, khead, pool, slots, tail, conns, conn>>,
           (sq \cup kern \cup lost)' \in SUBSET Sqes, (cq \cup batch)' \in SUBSET Cqes,
           accept_armed' \in BOOLEAN, shutdown' \in BOOLEAN,
           pc' \in {"top", "enter", "collect", "stopped"}, faults' \in 0 .. MaxFaults
    PROVE  TypeOK'
BY DEF TypeOK

-----------------------------------------------------------------------------
(* push, and the hand-over from a completion to the next operation *)

\* An entry is in no two queues.
Apart(e) == ~ (e \in sq /\ e \in kern) /\ ~ (e \in sq /\ e \in lost) /\ ~ (e \in kern /\ e \in lost)

\* push adds one entry, to the queue or to those lost.
LEMMA PushOp ==
    ASSUME TypeOK, QueuesI, NEW e \in Sqes, push(e), FdOf(e.ud) # Listener => e \notin Pend
    PROVE  /\ Pend' = IF FdOf(e.ud) # Listener THEN Pend \cup {e} ELSE Pend
           /\ \A f \in Pend' : Apart(f)'
           /\ (sq \cup kern \cup lost)' \in SUBSET Sqes
           /\ faults' \in 0 .. MaxFaults
<1>1. \A f \in Pend : Apart(f)
  BY DEF QueuesI, Apart
<1>2. faults' \in 0 .. MaxFaults
  BY IoUringAssumption DEF push, TypeOK
<1>3. (sq \cup kern \cup lost)' = sq \cup kern \cup lost \cup {e}
  BY DEF push
<1>4. Pend' = IF FdOf(e.ud) # Listener THEN Pend \cup {e} ELSE Pend
  BY <1>3 DEF Pend
<1>5. \A f \in Pend' : Apart(f)'
  <2> SUFFICES ASSUME NEW f \in Pend' PROVE Apart(f)'
    OBVIOUS
  <2>1. f \in Pend \/ (f = e /\ f \notin sq \cup kern \cup lost)
    BY <1>4 DEF Pend
  <2>2. f \in Pend => f # e /\ Apart(f)
    BY <1>1, <1>4 DEF Pend
  <2> QED
    BY <2>1, <2>2 DEF push, Apart
<1> QED
  BY <1>2, <1>3, <1>4, <1>5 DEF TypeOK

\* A handler takes its completion out of the batch.
LEMMA TakeFacts ==
    ASSUME IInv, NEW c \in batch, NEW op, Take(c, op)
    PROVE  /\ pc = "top" /\ pc' = "top" /\ OpOf(c.ud) = op
           /\ Posted' = Posted \ {c} /\ Filled' = Filled \ {c}
           /\ IsFiniteSet(Posted')
           /\ \A d \in Posted' : ~ (d \in cq' /\ d \in batch')
           /\ (cq \cup batch)' \in SUBSET (cq \cup batch)
           /\ UNCHANGED <<peerVars, taken, fdPeer, khead, pool, shutdown>>
<1>1. TypeOK /\ QueuesI
  BY DEF IInv
<1>2. pc = "top" /\ pc' = "top" /\ OpOf(c.ud) = op
  BY <1>1 DEF QueuesI, Take
<1>3. cq' = cq /\ batch' = batch \ {c} /\ UNCHANGED <<peerVars, taken, fdPeer, khead, pool, shutdown>>
  BY DEF Take, kernVars
<1>4. Posted' = Posted \ {c}
  BY <1>1, <1>3 DEF Posted, QueuesI, IsIo, IsNew
<1>5. Filled' = Filled \ {c}
  BY <1>4 DEF Filled, IsFilled
<1>6. IsFiniteSet(Posted')
  BY <1>1, <1>4, FS_Difference DEF QueuesI
<1>7. \A d \in Posted' : ~ (d \in cq' /\ d \in batch')
  BY <1>1, <1>3, <1>4 DEF QueuesI
<1> QED
  BY <1>2, <1>3, <1>4, <1>5, <1>6, <1>7

\* The completion c is about the fd.
About(c, fd) == (IsIo(c) /\ FdOf(c.ud) = fd) \/ (IsNew(c) /\ c.res = fd)

\* The owner of an fd hands it on: a completion about it is handled, and an
\* operation on it is pushed, a close exactly if it leaves the table.
LEMMA OwnersHandOver ==
    ASSUME TypeOK, OwnersI, NEW c \in Posted, NEW fd \in Fds, About(c, fd),
           NEW e \in Sqes, FdOf(e.ud) = fd,
           Posted' = Posted \ {c}, Pend' = Pend \cup {e}, UNCHANGED fdPeer,
           conns' = IF IsIo(e) THEN conns \cup {fd} ELSE conns \ {fd}
    PROVE  OwnersI'
<1> USE DEF Open
<1>1. \A f \in Pend : FdOf(f.ud) # fd
  BY DEF OwnersI, About
<1>2. \A d \in Posted' : ~ About(d, fd)
  <2> SUFFICES ASSUME NEW d \in Posted', About(d, fd) PROVE FALSE
    OBVIOUS
  <2>1. d \in Posted /\ d # c
    OBVIOUS
  <2>2. (IsIo(c) /\ IsIo(d)) \/ (IsNew(c) /\ IsNew(d))
    BY <2>1 DEF OwnersI, About
  <2> QED
    BY <2>1, <2>2, OpsDiffer DEF OwnersI, About, IsIo, IsNew
<1>3. Open(fd) /\ conns \in SUBSET Fds
  BY DEF OwnersI, About, TypeOK
<1>4. \A f, g \in Pend' : FdOf(f.ud) = FdOf(g.ud) => f = g
  BY <1>1 DEF OwnersI
<1>5. \A d, b \in Posted' : /\ IsIo(d) /\ IsIo(b) /\ FdOf(d.ud) = FdOf(b.ud) => d = b
                            /\ IsNew(d) /\ IsNew(b) /\ d.res = b.res => d = b
  BY DEF OwnersI
<1>6. \A d \in Posted', f \in Pend' : /\ IsIo(d)  => FdOf(f.ud) # FdOf(d.ud)
                                      /\ IsNew(d) => FdOf(f.ud) # d.res
  BY <1>2 DEF OwnersI, About
<1>7. \A d \in Posted' : /\ IsNew(d) => d.res \in Fds /\ Open(d.res)' /\ d.res \notin conns'
                         /\ IsIo(d) => FdOf(d.ud) \in conns'
  BY <1>2 DEF OwnersI, About
<1>8. \A f \in Pend' : Open(FdOf(f.ud))' /\ (IsIo(f) <=> FdOf(f.ud) \in conns')
  BY <1>1, <1>3 DEF OwnersI
<1>9. \A g \in conns' : /\ Open(g)'
                        /\ \/ \E f \in Pend' : FdOf(f.ud) = g
                           \/ \E d \in Posted' : IsIo(d) /\ FdOf(d.ud) = g
  <2> SUFFICES ASSUME NEW g \in conns'
               PROVE  /\ Open(g)'
                      /\ \/ \E f \in Pend' : FdOf(f.ud) = g
                         \/ \E d \in Posted' : IsIo(d) /\ FdOf(d.ud) = g
    OBVIOUS
  <2>1. CASE g = fd
    BY <1>3, <2>1
  <2>2. CASE g # fd
    <3>1. g \in conns /\ Open(g)
      BY <2>2 DEF OwnersI
    <3>2. CASE \E f \in Pend : FdOf(f.ud) = g
      BY <3>1, <3>2
    <3>3. CASE \E d \in Posted : IsIo(d) /\ FdOf(d.ud) = g
      <4>1. PICK d \in Posted : IsIo(d) /\ FdOf(d.ud) = g
        BY <3>3
      <4>2. d # c
        BY <2>2, <3>1, <4>1, OpsDiffer DEF About, IsIo, IsNew
      <4> QED
        BY <3>1, <4>1, <4>2
    <3> QED
      BY <3>1, <3>2, <3>3 DEF OwnersI
  <2> QED
    BY <2>1, <2>2
<1>10. \A g \in Fds : Open(g)' => \/ g \in conns'
                                  \/ \E f \in Pend' : FdOf(f.ud) = g
                                  \/ \E d \in Posted' : IsNew(d) /\ d.res = g
  <2> SUFFICES ASSUME NEW g \in Fds, Open(g), g # fd
               PROVE  \/ g \in conns'
                      \/ \E f \in Pend' : FdOf(f.ud) = g
                      \/ \E d \in Posted' : IsNew(d) /\ d.res = g
    OBVIOUS
  <2>1. CASE g \in conns \/ \E f \in Pend : FdOf(f.ud) = g
    BY <2>1
  <2>2. CASE \E d \in Posted : IsNew(d) /\ d.res = g
    <3>1. PICK d \in Posted : IsNew(d) /\ d.res = g
      BY <2>2
    <3>2. d # c
      BY <3>1, OpsDiffer DEF About, IsIo, IsNew
    <3> QED
      BY <3>1, <3>2
  <2> QED
    BY <2>1, <2>2 DEF OwnersI
<1> QED
  BY <1>4, <1>5, <1>6, <1>7, <1>8, <1>9, <1>10 DEF OwnersI, IsIo, IsNew

\* The operation pushed is the one the connection's new state waits for.
Suits(e, k) ==
    /\ IsIo(e) => WellFormed(k)
    /\ OpOf(e.ud) = OP_RECV => k.state = "Reading"
    /\ OpOf(e.ud) = OP_SEND => k.state = "Writing" /\ k.pending = e.len

LEMMA StatesHandOver ==
    ASSUME TypeOK, OwnersI, StatesI, NEW c \in Posted, NEW fd \in Fds, About(c, fd),
           NEW e \in Sqes, FdOf(e.ud) = fd, NEW k, Suits(e, k),
           Posted' = Posted \ {c}, Pend' = Pend \cup {e},
           conns' = IF IsIo(e) THEN conns \cup {fd} ELSE conns \ {fd},
           conn' = [conn EXCEPT ![fd] = k]
    PROVE  StatesI'
<1>1. conn'[fd] = k /\ \A g \in Fds : g # fd => conn'[g] = conn[g]
  BY DEF TypeOK
<1>2. \A f \in Pend : FdOf(f.ud) # fd /\ FdOf(f.ud) \in Fds
  BY QueueFacts DEF OwnersI, About
<1>3. \A d \in Posted' : IsIo(d) => FdOf(d.ud) # fd /\ FdOf(d.ud) \in Fds
  <2> SUFFICES ASSUME NEW d \in Posted', IsIo(d) PROVE FdOf(d.ud) # fd /\ FdOf(d.ud) \in Fds
    OBVIOUS
  <2>1. d \in Posted /\ d # c
    OBVIOUS
  <2> QED
    BY <2>1, QueueFacts DEF OwnersI, About
<1>4. \A g \in conns' : WellFormed(conn'[g]) /\ conn'[g].state # "Closed"
  <2> SUFFICES ASSUME NEW g \in conns' PROVE WellFormed(conn'[g]) /\ conn'[g].state # "Closed"
    OBVIOUS
  <2>1. CASE g = fd
    BY <1>1, <2>1, OpsDiffer DEF Suits, IsIo
  <2>2. CASE g # fd
    BY <1>1, <2>2 DEF StatesI, TypeOK
  <2> QED
    BY <2>1, <2>2
<1>5. \A f \in Pend' : /\ OpOf(f.ud) = OP_RECV => conn'[FdOf(f.ud)].state = "Reading"
                       /\ OpOf(f.ud) = OP_SEND => /\ conn'[FdOf(f.ud)].state = "Writing"
                                                  /\ conn'[FdOf(f.ud)].pending = f.len
  BY <1>1, <1>2 DEF StatesI, Suits
<1>6. \A d \in Posted' :
          /\ OpOf(d.ud) = OP_RECV => conn'[FdOf(d.ud)].state = "Reading"
          /\ OpOf(d.ud) = OP_SEND =>
                /\ conn'[FdOf(d.ud)].state = "Writing"
                /\ d.res < 0 \/ d.res \in 1 .. conn'[FdOf(d.ud)].pending
  BY <1>1, <1>3 DEF StatesI, IsIo
<1> QED
  BY <1>4, <1>5, <1>6 DEF StatesI

-----------------------------------------------------------------------------
(* The buffer ring *)

\* The number of buffers in the ring, and where the tail is, through a wrap.
LEMMA RingIndex ==
    ASSUME TypeOK
    PROVE  /\ BufsInRing \in 0 .. TailMod - 1
           /\ BufsInRing = IF khead <= tail THEN tail - khead ELSE tail - khead + TailMod
           /\ tail % NumBufs = (khead + BufsInRing) % NumBufs
<1>1. /\ NumBufs \in Nat \ {0} /\ TailMod \in Nat \ {0} /\ TailMod % NumBufs = 0
      /\ tail \in 0 .. TailMod - 1 /\ khead \in 0 .. TailMod - 1
  BY IoUringAssumption DEF TypeOK
<1>2. CASE khead <= tail
  <2>1. tail - khead \in 0 .. TailMod - 1 /\ tail - khead = 0 * TailMod + (tail - khead)
    BY <1>1, <1>2
  <2>2. BufsInRing = tail - khead
    BY <1>1, <2>1, ModUnique DEF BufsInRing
  <2>3. khead + BufsInRing = tail
    BY <1>1, <2>2
  <2> QED
    BY <1>2, <2>1, <2>2, <2>3
<1>3. CASE ~ (khead <= tail)
  <2>1. /\ tail - khead + TailMod \in 0 .. TailMod - 1 /\ -1 \in Int
        /\ tail - khead \in Int /\ tail - khead = (-1) * TailMod + (tail - khead + TailMod)
    BY <1>1, <1>3
  <2>2. BufsInRing = tail - khead + TailMod
    BY <1>1, <2>1, ModUnique DEF BufsInRing
  <2>3. khead + BufsInRing = TailMod + tail /\ tail \in Nat
    BY <1>1, <2>2
  <2>4. (TailMod + tail) % NumBufs = tail % NumBufs
    BY <1>1, <2>3, ModShift
  <2> QED
    BY <1>3, <2>1, <2>2, <2>3, <2>4
<1> QED
  BY <1>2, <1>3

\* A step of an index around the ring.
LEMMA IndexStep ==
    ASSUME NEW i \in 0 .. TailMod - 1
    PROVE  /\ (i + 1) % TailMod \in 0 .. TailMod - 1
           /\ (i + 1) % TailMod = IF i + 1 = TailMod THEN 0 ELSE i + 1
<1>1. TailMod \in Nat \ {0}
  BY IoUringAssumption
<1>2. CASE i + 1 = TailMod
  <2>1. i + 1 \in Int /\ i + 1 = 1 * TailMod + 0 /\ 0 \in 0 .. TailMod - 1
    BY <1>1, <1>2
  <2> QED
    BY <1>1, <1>2, <2>1, ModUnique
<1>3. CASE i + 1 # TailMod
  <2>1. i + 1 \in Int /\ i + 1 = 0 * TailMod + (i + 1) /\ i + 1 \in 0 .. TailMod - 1
    BY <1>1, <1>3
  <2> QED
    BY <1>1, <1>3, <2>1, ModUnique
<1> QED
  BY <1>2, <1>3

\* A position of the ring is one of its entries.
LEMMA SlotType == ASSUME TypeOK, NEW i \in Nat PROVE (khead + i) % NumBufs \in Bids /\ Slot(i) \in Bids
<1>1. NumBufs \in Nat \ {0} /\ khead + i \in Nat
  BY IoUringAssumption DEF TypeOK
<1>2. (khead + i) % NumBufs \in 0 .. NumBufs - 1
  BY <1>1, DivMod
<1> QED
  BY <1>2 DEF Bids, Slot, TypeOK

\* recycle puts the buffer of a handled completion behind the others.
LEMMA RecycleRing ==
    ASSUME TypeOK, RingI, IsFiniteSet(Posted), pc # "stopped", NEW c \in Filled, c.buf \in Bids,
           Filled' = Filled \ {c}, (cq \cup batch)' \in SUBSET (cq \cup batch),
           recycle(c.buf), UNCHANGED khead
    PROVE  RingI' /\ slots' \in [Bids -> Bids] /\ tail' \in 0 .. TailMod - 1
<1>0. /\ NumBufs \in Nat \ {0} /\ TailMod \in Nat \ {0} /\ TailMod > NumBufs
      /\ tail \in 0 .. TailMod - 1 /\ khead \in 0 .. TailMod - 1
  BY IoUringAssumption DEF TypeOK
<1>1. PICK n : n = BufsInRing
  OBVIOUS
<1>2. n \in Nat
  BY <1>0, <1>1, RingIndex
<1>3. IsFiniteSet(Filled) /\ Cardinality(Filled) \in Nat /\ Cardinality(Filled') = Cardinality(Filled) - 1
  BY FS_Subset, FS_CardinalityType, FS_RemoveElement DEF Filled
<1>4. n < NumBufs
  <2>1. Cardinality(Filled) # 0
    BY <1>3, FS_EmptySet
  <2> QED
    BY <1>0, <1>1, <1>2, <1>3, <2>1 DEF RingI
<1>5. tail' \in 0 .. TailMod - 1 /\ tail' = IF tail + 1 = TailMod THEN 0 ELSE tail + 1
  BY <1>0, IndexStep DEF recycle
<1>6. BufsInRing' = n + 1
  <2>1. n = IF khead <= tail THEN tail - khead ELSE tail - khead + TailMod
    BY <1>1, RingIndex
  <2>2. CASE khead <= tail'
    <3>1. tail' - khead = n + 1
      BY <1>0, <1>4, <1>5, <2>1, <2>2
    <3>2. n + 1 \in 0 .. TailMod - 1 /\ n + 1 = 0 * TailMod + (n + 1)
      BY <1>0, <1>2, <1>4
    <3>3. (n + 1) % TailMod = n + 1
      BY <1>0, <3>2, ModUnique
    <3> QED
      BY <3>1, <3>3 DEF BufsInRing
  <2>3. CASE ~ (khead <= tail')
    <3>1. tail' - khead = n + 1 - TailMod
      BY <1>0, <1>4, <1>5, <2>1, <2>3
    <3>2. n + 1 \in 0 .. TailMod - 1 /\ -1 \in Int /\ n + 1 - TailMod = (-1) * TailMod + (n + 1)
      BY <1>0, <1>2, <1>4
    <3>3. (n + 1 - TailMod) % TailMod = n + 1
      BY <1>0, <3>2, ModUnique
    <3> QED
      BY <3>1, <3>3 DEF BufsInRing
  <2> QED
    BY <2>2, <2>3
<1>7. PICK p : p = (khead + n) % NumBufs
  OBVIOUS
<1>8. p \in Bids /\ slots' = [slots EXCEPT ![p] = c.buf]
  BY <1>1, <1>2, <1>7, RingIndex, SlotType DEF recycle
<1>9. slots' \in [Bids -> Bids] /\ slots'[p] = c.buf /\ \A q \in Bids : q # p => slots'[q] = slots[q]
  BY <1>8 DEF TypeOK
<1>10. Slot(n)' = c.buf
  BY <1>7, <1>9 DEF Slot
<1>11. \A i \in 0 .. n - 1 : Slot(i)' = Slot(i)
  <2> SUFFICES ASSUME NEW i \in 0 .. n - 1 PROVE Slot(i)' = Slot(i)
    OBVIOUS
  <2>1. i \in Nat /\ i < n /\ n - i < NumBufs /\ khead \in Nat
    BY <1>0, <1>2, <1>4
  <2>2. (khead + i) % NumBufs # p
    BY <1>0, <1>2, <1>7, <2>1, ModApart
  <2>3. (khead + i) % NumBufs \in Bids
    BY <2>1, SlotType
  <2> QED
    BY <1>9, <2>2, <2>3 DEF Slot
<1>12. \A i : i \in 0 .. BufsInRing' - 1 <=> i \in 0 .. n - 1 \/ i = n
  BY <1>2, <1>6
<1>13. \A i \in 0 .. n - 1 : Slot(i) # c.buf
  BY <1>1 DEF RingI
<1>14. \A i, j \in 0 .. BufsInRing' - 1 : Slot(i)' = Slot(j)' => i = j
  <2>1. \A i, j \in 0 .. n - 1 : Slot(i)' = Slot(j)' => i = j
    BY <1>1, <1>11 DEF RingI
  <2>2. \A i \in 0 .. n - 1 : Slot(i)' # Slot(n)'
    BY <1>10, <1>11, <1>13
  <2> QED
    BY <1>12, <2>1, <2>2
<1>15. \A d \in Filled' : \A i \in 0 .. BufsInRing' - 1 : Slot(i)' # d.buf
  <2> SUFFICES ASSUME NEW d \in Filled', NEW i \in 0 .. BufsInRing' - 1 PROVE Slot(i)' # d.buf
    OBVIOUS
  <2>1. d \in Filled /\ d # c
    OBVIOUS
  <2>2. CASE i = n
    BY <1>10, <2>1, <2>2 DEF RingI
  <2>3. CASE i \in 0 .. n - 1
    BY <1>1, <1>11, <2>1, <2>3 DEF RingI
  <2> QED
    BY <1>12, <2>2, <2>3
<1>16. \A b \in Bids : \/ \E i \in 0 .. BufsInRing' - 1 : Slot(i)' = b
                       \/ \E d \in Filled' : d.buf = b
  <2> SUFFICES ASSUME NEW b \in Bids
               PROVE  \/ \E i \in 0 .. BufsInRing' - 1 : Slot(i)' = b
                      \/ \E d \in Filled' : d.buf = b
    OBVIOUS
  <2>1. CASE b = c.buf
    BY <1>10, <1>12, <2>1
  <2>2. CASE \E i \in 0 .. n - 1 : Slot(i) = b
    BY <1>11, <1>12, <2>2
  <2>3. CASE b # c.buf /\ \E d \in Filled : d.buf = b
    BY <2>3
  <2> QED
    BY <1>1, <2>1, <2>2, <2>3 DEF RingI
<1>17. BufsInRing' <= NumBufs /\ BufsInRing' + Cardinality(Filled') = NumBufs
  BY <1>0, <1>1, <1>2, <1>3, <1>4, <1>6 DEF RingI
<1>18. \A d \in (cq \cup batch)' : d.buf # NoBuf <=> IsFilled(d)
  BY DEF RingI
<1>19. \A d, b \in Filled' : d.buf = b.buf => d = b
  BY DEF RingI
<1> QED
  BY <1>5, <1>9, <1>14, <1>15, <1>16, <1>17, <1>18, <1>19 DEF RingI

\* The kernel takes the buffer at the head and posts it in a completion.
LEMMA TakeRing ==
    ASSUME TypeOK, RingI, IsFiniteSet(Posted), BufsInRing > 0, pc # "stopped",
           NEW c, c.buf = Slot(0), IsFilled(c), c \notin Filled,
           Filled' = Filled \cup {c}, (cq \cup batch)' = cq \cup batch \cup {c},
           khead' = (khead + 1) % TailMod, UNCHANGED <<slots, tail>>
    PROVE  RingI' /\ khead' \in 0 .. TailMod - 1
<1>0. /\ NumBufs \in Nat \ {0} /\ TailMod \in Nat \ {0} /\ TailMod > NumBufs /\ TailMod % NumBufs = 0
      /\ tail \in 0 .. TailMod - 1 /\ khead \in 0 .. TailMod - 1
  BY IoUringAssumption DEF TypeOK
<1>1. PICK n : n = BufsInRing
  OBVIOUS
<1>2. n \in Nat /\ n > 0 /\ n < TailMod
  BY <1>0, <1>1, RingIndex
<1>3. IsFiniteSet(Filled) /\ Cardinality(Filled) \in Nat /\ Cardinality(Filled') = Cardinality(Filled) + 1
  BY FS_Subset, FS_CardinalityType, FS_AddElement DEF Filled
<1>4. khead' \in 0 .. TailMod - 1 /\ khead' = IF khead + 1 = TailMod THEN 0 ELSE khead + 1
  BY <1>0, IndexStep
<1>5. BufsInRing' = n - 1
  <2>1. n = IF khead <= tail THEN tail - khead ELSE tail - khead + TailMod
    BY <1>1, RingIndex
  <2>2. CASE khead' <= tail
    <3>1. tail - khead' = n - 1
      BY <1>0, <1>2, <1>4, <2>1, <2>2
    <3>2. n - 1 \in 0 .. TailMod - 1 /\ n - 1 = 0 * TailMod + (n - 1)
      BY <1>0, <1>2
    <3>3. (n - 1) % TailMod = n - 1
      BY <1>0, <3>2, ModUnique
    <3> QED
      BY <3>1, <3>3 DEF BufsInRing
  <2>3. CASE ~ (khead' <= tail)
    <3>1. tail - khead' = n - 1 - TailMod
      BY <1>0, <1>2, <1>4, <2>1, <2>3
    <3>2. n - 1 \in 0 .. TailMod - 1 /\ -1 \in Int /\ n - 1 - TailMod = (-1) * TailMod + (n - 1)
      BY <1>0, <1>2
    <3>3. (n - 1 - TailMod) % TailMod = n - 1
      BY <1>0, <3>2, ModUnique
    <3> QED
      BY <3>1, <3>3 DEF BufsInRing
  <2> QED
    BY <2>2, <2>3
<1>6. \A i \in Nat : Slot(i)' = Slot(i + 1)
  <2> SUFFICES ASSUME NEW i \in Nat PROVE Slot(i)' = Slot(i + 1)
    OBVIOUS
  <2>1. CASE khead + 1 # TailMod
    <3>1. khead' + i = khead + (i + 1)
      BY <1>0, <1>4, <2>1
    <3> QED
      BY <3>1 DEF Slot
  <2>2. CASE khead + 1 = TailMod
    <3>1. khead + (i + 1) = TailMod + i /\ khead' + i = i
      BY <1>0, <1>4, <2>2
    <3>2. (TailMod + i) % NumBufs = i % NumBufs
      BY <1>0, ModShift
    <3> QED
      BY <3>1, <3>2 DEF Slot
  <2> QED
    BY <2>1, <2>2
<1>7. /\ \A i \in 0 .. BufsInRing' - 1 : i \in Nat /\ i + 1 \in 0 .. n - 1 /\ i + 1 # 0
      /\ 0 \in 0 .. n - 1
      /\ \A i \in 0 .. n - 1 : i # 0 => i - 1 \in 0 .. BufsInRing' - 1 /\ i - 1 \in Nat /\ (i - 1) + 1 = i
  BY <1>2, <1>5
<1>8. \A i, j \in 0 .. BufsInRing' - 1 : Slot(i)' = Slot(j)' => i = j
  <2> SUFFICES ASSUME NEW i \in 0 .. BufsInRing' - 1, NEW j \in 0 .. BufsInRing' - 1, Slot(i)' = Slot(j)'
               PROVE  i = j
    OBVIOUS
  <2>1. i + 1 = j + 1
    BY <1>1, <1>6, <1>7 DEF RingI
  <2> QED
    BY <1>7, <2>1
<1>9. \A d \in Filled' : \A i \in 0 .. BufsInRing' - 1 : Slot(i)' # d.buf
  <2> SUFFICES ASSUME NEW d \in Filled', NEW i \in 0 .. BufsInRing' - 1 PROVE Slot(i)' # d.buf
    OBVIOUS
  <2>1. Slot(i)' = Slot(i + 1) /\ i + 1 \in 0 .. n - 1 /\ i + 1 # 0
    BY <1>6, <1>7
  <2> QED
    BY <1>1, <1>7, <2>1 DEF RingI
<1>10. \A d, b \in Filled' : d.buf = b.buf => d = b
  BY <1>1, <1>7 DEF RingI
<1>11. \A b \in Bids : \/ \E i \in 0 .. BufsInRing' - 1 : Slot(i)' = b
                       \/ \E d \in Filled' : d.buf = b
  <2> SUFFICES ASSUME NEW b \in Bids
               PROVE  \/ \E i \in 0 .. BufsInRing' - 1 : Slot(i)' = b
                      \/ \E d \in Filled' : d.buf = b
    OBVIOUS
  <2>1. CASE \E i \in 0 .. n - 1 : Slot(i) = b
    <3>1. PICK i \in 0 .. n - 1 : Slot(i) = b
      BY <2>1
    <3>2. CASE i = 0
      BY <3>1, <3>2
    <3>3. CASE i # 0
      <4>1. Slot(i - 1)' = b
        BY <1>6, <1>7, <3>1, <3>3
      <4> QED
        BY <1>7, <3>3, <4>1
    <3> QED
      BY <3>2, <3>3
  <2>2. CASE \E d \in Filled : d.buf = b
    BY <2>2
  <2> QED
    BY <1>1, <2>1, <2>2 DEF RingI
<1>12. BufsInRing' <= NumBufs /\ BufsInRing' + Cardinality(Filled') = NumBufs
  BY <1>0, <1>1, <1>2, <1>3, <1>5 DEF RingI
<1>13. \A d \in (cq \cup batch)' : d.buf # NoBuf <=> IsFilled(d)
  <2>1. c.buf \in Bids
    BY SlotType
  <2>2. c.buf # NoBuf
    BY <1>0, <2>1 DEF Bids, NoBuf
  <2> QED
    BY <2>2 DEF RingI
<1> QED
  BY <1>4, <1>8, <1>9, <1>10, <1>11, <1>12, <1>13 DEF RingI

-----------------------------------------------------------------------------
(* The completion handlers *)

\* What every handler that hands an fd on keeps, whatever it does to the ring.
LEMMA HandOverCore ==
    ASSUME IInv, NEW c \in batch, NEW op, Take(c, op), NEW fd \in Fds, About(c, fd),
           NEW e \in Sqes, FdOf(e.ud) = fd, push(e), NEW k \in Connections, Suits(e, k),
           conns' = IF IsIo(e) THEN conns \cup {fd} ELSE conns \ {fd},
           conn' = [conn EXCEPT ![fd] = k],
           slots' \in [Bids -> Bids], tail' \in 0 .. TailMod - 1, got' \in [Peers -> Seq(Units)],
           answered' \in [Peers -> Nat], accept_armed' \in BOOLEAN
    PROVE  TypeOK' /\ QueuesI' /\ OwnersI' /\ StatesI'
<1>1. TypeOK /\ QueuesI /\ OwnersI /\ StatesI
  BY DEF IInv
<1>2. /\ pc = "top" /\ pc' = "top" /\ Posted' = Posted \ {c} /\ IsFiniteSet(Posted')
      /\ \A d \in Posted' : ~ (d \in cq' /\ d \in batch')
      /\ (cq \cup batch)' \in SUBSET (cq \cup batch)
      /\ UNCHANGED <<peerVars, taken, fdPeer, khead, pool, shutdown>>
  BY TakeFacts
<1>3. c \in Posted
  BY DEF Posted, About
<1>4. FdOf(e.ud) # Listener /\ e \notin Pend
  BY <1>1, <1>3, FdFacts DEF OwnersI, About
<1>5. /\ Pend' = Pend \cup {e} /\ \A f \in Pend' : Apart(f)'
      /\ (sq \cup kern \cup lost)' \in SUBSET Sqes /\ faults' \in 0 .. MaxFaults
  BY <1>1, <1>4, PushOp
<1>6. OwnersI'
  BY <1>1, <1>2, <1>3, <1>5, OwnersHandOver
<1>7. StatesI'
  BY <1>1, <1>2, <1>3, <1>5, StatesHandOver
<1>8. QueuesI'
  BY <1>2, <1>5 DEF QueuesI, Apart
<1>9. conns' \in SUBSET Fds /\ conn' \in [Fds -> Connections]
  BY <1>1 DEF TypeOK
<1>10. TypeOK'
  BY <1>1, <1>2, <1>5, <1>9 DEF TypeOK, peerVars
<1> QED
  BY <1>6, <1>7, <1>8, <1>10

\* A handler of a completion that carries no buffer leaves the ring alone.
LEMMA HandOver ==
    ASSUME IInv, NEW c \in batch, NEW op, Take(c, op), NEW fd \in Fds, About(c, fd),
           NEW e \in Sqes, FdOf(e.ud) = fd, push(e), NEW k \in Connections, Suits(e, k),
           conns' = IF IsIo(e) THEN conns \cup {fd} ELSE conns \ {fd},
           conn' = [conn EXCEPT ![fd] = k],
           ~ IsFilled(c), UNCHANGED <<slots, tail, got>>,
           answered' \in [Peers -> Nat], accept_armed' \in BOOLEAN
    PROVE  IInv'
<1>1. TypeOK /\ RingI /\ PeersI /\ InputI
  BY DEF IInv
<1>2. TypeOK' /\ QueuesI' /\ OwnersI' /\ StatesI'
  BY <1>1, HandOverCore DEF TypeOK
<1>3. /\ pc = "top" /\ pc' = "top" /\ Filled' = Filled \ {c}
      /\ (cq \cup batch)' \in SUBSET (cq \cup batch)
      /\ UNCHANGED <<peerVars, taken, fdPeer, khead, pool>>
  BY TakeFacts
<1>4. Filled' = Filled
  BY <1>3 DEF Filled
<1>5. RingI'
  BY <1>1, <1>3, <1>4, RingFrame
<1>6. PeersI'
  BY <1>1, <1>3, PeersFrame DEF peerVars
<1>7. InputI'
  BY <1>1, <1>3, <1>4, InputFrame DEF peerVars
<1> QED
  BY <1>2, <1>5, <1>6, <1>7 DEF IInv

\* A completion that is about no connection is taken note of.
LEMMA Dismiss ==
    ASSUME IInv, NEW c \in batch, NEW op, Take(c, op), c \notin Posted, NoPush,
           UNCHANGED <<conns, conn, slots, tail, got, answered>>, accept_armed' \in BOOLEAN
    PROVE  IInv'
<1>1. TypeOK /\ QueuesI /\ OwnersI /\ StatesI /\ RingI /\ PeersI /\ InputI
  BY DEF IInv
<1>2. /\ pc = "top" /\ pc' = "top" /\ Filled' = Filled \ {c} /\ Posted' = Posted \ {c}
      /\ IsFiniteSet(Posted')
      /\ \A d \in Posted' : ~ (d \in cq' /\ d \in batch')
      /\ (cq \cup batch)' \in SUBSET (cq \cup batch)
      /\ UNCHANGED <<peerVars, taken, fdPeer, khead, pool, shutdown>>
  BY TakeFacts
<1>3. Posted' = Posted /\ Filled' = Filled
  BY <1>2 DEF Filled
<1>4. UNCHANGED <<sq, kern, faults, lost>> /\ Pend' = Pend
  BY DEF NoPush, Pend
<1>5. TypeOK'
  <2>1. (sq \cup kern \cup lost)' \in SUBSET Sqes /\ (cq \cup batch)' \in SUBSET Cqes /\ faults' \in 0 .. MaxFaults
    BY <1>1, <1>2, <1>4 DEF TypeOK
  <2>2. shutdown' \in BOOLEAN
    BY <1>1, <1>2 DEF TypeOK
  <2> QED
    BY <1>1, <1>2, <2>1, <2>2, TypeFrame DEF peerVars
<1>6. QueuesI'
  BY <1>1, <1>2, <1>4 DEF QueuesI
<1>7. OwnersI' /\ StatesI'
  BY <1>1, <1>2, <1>3, <1>4, OwnersFrame, StatesFrame
<1>8. RingI' /\ PeersI' /\ InputI'
  BY <1>1, <1>2, <1>3, RingFrame, PeersFrame, InputFrame DEF peerVars
<1> QED
  BY <1>5, <1>6, <1>7, <1>8 DEF IInv

\* drop_conn pushes a close.
LEMMA DropFacts ==
    ASSUME IInv, NEW fd \in conns, drop_conn(fd)
    PROVE  \E e \in Sqes, k \in Connections :
              /\ FdOf(e.ud) = fd /\ push(e) /\ Suits(e, k)
              /\ conns' = IF IsIo(e) THEN conns \cup {fd} ELSE conns \ {fd}
              /\ conn' = [conn EXCEPT ![fd] = k]
<1>1. fd \in Fds /\ OP_CLOSE \in {OP_RECV, OP_SEND, OP_CLOSE} /\ 0 \in Nat
  BY DEF IInv, TypeOK
<1>2. PICK e : e = Sqe(OP_CLOSE, fd, 0)
  OBVIOUS
<1>3. e \in Sqes /\ OpOf(e.ud) = OP_CLOSE /\ FdOf(e.ud) = fd
  BY <1>1, <1>2, SqeFacts
<1>4. New \in Connections
  BY NewType DEF WellFormed
<1>5. ~ IsIo(e) /\ Suits(e, New)
  BY <1>3, OpsDiffer DEF IsIo, Suits
<1>6. push(e) /\ conns' = conns \ {fd} /\ conn' = [conn EXCEPT ![fd] = New]
  BY <1>2 DEF drop_conn, submit_close
<1> QED
  BY <1>3, <1>4, <1>5, <1>6

\* The connection fed goes on with the operation its new state asks for.
LEMMA DeliverFacts ==
    ASSUME IInv, NEW fd \in conns, NEW k, WellFormed(k), deliver(fd, k)
    PROVE  \E e \in Sqes, h \in Connections :
              /\ FdOf(e.ud) = fd /\ push(e) /\ Suits(e, h)
              /\ conns' = IF IsIo(e) THEN conns \cup {fd} ELSE conns \ {fd}
              /\ conn' = [conn EXCEPT ![fd] = h]
<1>1. fd \in Fds /\ k \in Connections /\ 0 \in Nat /\ k.state \in States /\ k.pending \in Nat
  BY DEF IInv, TypeOK, WellFormed, Connections
<1>2. apply(fd, k)
  BY DEF deliver
<1>3. CASE ActionForState(k) = "WantRead"
  <2>1. PICK e : e = Sqe(OP_RECV, fd, 0)
    OBVIOUS
  <2>2. e \in Sqes /\ OpOf(e.ud) = OP_RECV /\ FdOf(e.ud) = fd
    BY <1>1, <2>1, SqeFacts
  <2>3. k.state = "Reading"
    BY <1>1, <1>3 DEF ActionForState, States
  <2>4. IsIo(e) /\ Suits(e, k)
    BY <2>2, <2>3, OpsDiffer DEF IsIo, Suits
  <2>5. push(e) /\ conns' = conns \cup {fd} /\ conn' = [conn EXCEPT ![fd] = k]
    BY <1>2, <1>3, <2>1 DEF apply, submit_recv
  <2> QED
    BY <1>1, <2>2, <2>4, <2>5
<1>4. CASE ActionForState(k) = "WantWrite"
  <2>1. PICK e : e = Sqe(OP_SEND, fd, PendingWrite(k))
    OBVIOUS
  <2>2. k.state = "Writing" /\ PendingWrite(k) = k.pending
    BY <1>1, <1>4 DEF ActionForState, States, PendingWrite
  <2>3. e \in Sqes /\ OpOf(e.ud) = OP_SEND /\ FdOf(e.ud) = fd /\ e.len = k.pending
    BY <1>1, <2>1, <2>2, SqeFacts
  <2>4. IsIo(e) /\ Suits(e, k)
    BY <2>2, <2>3, OpsDiffer DEF IsIo, Suits
  <2>5. push(e) /\ conns' = conns \cup {fd} /\ conn' = [conn EXCEPT ![fd] = k]
    BY <1>2, <1>4, <2>1 DEF apply, submit_send
  <2> QED
    BY <1>1, <2>3, <2>4, <2>5
<1>5. CASE ActionForState(k) = "Close"
  <2>1. drop_conn(fd)
    BY <1>2, <1>5 DEF apply
  <2> QED
    BY <2>1, DropFacts
<1> QED
  BY <1>1, <1>3, <1>4, <1>5 DEF ActionForState, States

LEMMA OnAcceptStep == ASSUME IInv, NEW c \in batch, on_accept(c) PROVE IInv'
<1>1. TypeOK /\ OwnersI
  BY DEF IInv
<1>2. Take(c, OP_ACCEPT) /\ OpOf(c.ud) = OP_ACCEPT /\ UNCHANGED <<answered, got, slots, tail>>
  BY DEF on_accept, Take
<1>3. accept_armed' \in BOOLEAN /\ answered' \in [Peers -> Nat]
  <2>1. accept_armed \in BOOLEAN /\ c.more \in BOOLEAN
    BY <1>1 DEF TypeOK, Cqes
  <2>2. (accept_armed /\ c.more) \in BOOLEAN
    BY <2>1, Zenon
  <2>3. accept_armed' = (accept_armed /\ c.more)
    BY DEF on_accept, StillArmed
  <2> QED
    BY <1>1, <1>2, <2>2, <2>3 DEF TypeOK
<1>4. CASE c.res < 0 /\ NoPush /\ UNCHANGED <<conns, conn>>
  <2>1. c \notin Posted
    <3>1. c.res \in Int
      BY <1>1, QueueFacts
    <3> QED
      BY <1>2, <1>4, <3>1, OpsDiffer DEF Posted, IsIo, IsNew
  <2> QED
    BY <1>2, <1>3, <1>4, <2>1, Dismiss
<1>5. ASSUME c.res > 0
      PROVE  /\ c \in Posted /\ About(c, c.res) /\ c.res \in Fds /\ c.res \notin conns /\ ~ IsFilled(c)
             /\ OP_CLOSE \in {OP_RECV, OP_SEND, OP_CLOSE} /\ OP_RECV \in {OP_RECV, OP_SEND, OP_CLOSE} /\ 0 \in Nat
  BY <1>1, <1>2, <1>5, OpsDiffer DEF Posted, IsNew, About, OwnersI, IsFilled
<1>6. CASE c.res > 0 /\ submit_close(c.res) /\ UNCHANGED <<conns, conn>>
  <2>1. PICK e : e = Sqe(OP_CLOSE, c.res, 0)
    OBVIOUS
  <2>2. e \in Sqes /\ OpOf(e.ud) = OP_CLOSE /\ FdOf(e.ud) = c.res
    BY <1>5, <1>6, <2>1, SqeFacts
  <2>3. PICK k : k = conn[c.res]
    OBVIOUS
  <2>4. k \in Connections /\ conn' = [conn EXCEPT ![c.res] = k]
    BY <1>1, <1>5, <1>6, <2>3 DEF TypeOK
  <2>5. ~ IsIo(e) /\ Suits(e, k) /\ push(e)
    BY <1>6, <2>1, <2>2, OpsDiffer DEF IsIo, Suits, submit_close
  <2>6. conns' = IF IsIo(e) THEN conns \cup {c.res} ELSE conns \ {c.res}
    BY <1>5, <1>6, <2>5
  <2> QED
    BY <1>2, <1>3, <1>5, <1>6, <2>2, <2>4, <2>5, <2>6, HandOver
<1>7. CASE c.res > 0 /\ conns' = conns \cup {c.res} /\ conn' = [conn EXCEPT ![c.res] = New] /\ submit_recv(c.res)
  <2>1. PICK e : e = Sqe(OP_RECV, c.res, 0)
    OBVIOUS
  <2>2. e \in Sqes /\ OpOf(e.ud) = OP_RECV /\ FdOf(e.ud) = c.res
    BY <1>5, <1>7, <2>1, SqeFacts
  <2>3. New \in Connections /\ WellFormed(New) /\ New.state = "Reading"
    BY NewType DEF WellFormed
  <2>4. IsIo(e) /\ Suits(e, New) /\ push(e)
    BY <1>7, <2>1, <2>2, <2>3, OpsDiffer DEF IsIo, Suits, submit_recv
  <2>5. conns' = IF IsIo(e) THEN conns \cup {c.res} ELSE conns \ {c.res}
    BY <1>7, <2>4
  <2> HIDE DEF New
  <2> QED
    BY <1>2, <1>3, <1>5, <1>7, <2>2, <2>3, <2>4, <2>5, HandOver
<1> QED
  BY <1>4, <1>6, <1>7 DEF on_accept

LEMMA OnCloseStep == ASSUME IInv, NEW c \in batch, on_close(c) PROVE IInv'
<1>1. /\ Take(c, OP_CLOSE) /\ OpOf(c.ud) = OP_CLOSE /\ NoPush
      /\ UNCHANGED <<answered, got, slots, tail, conns, conn, accept_armed>>
  BY DEF on_close, Take
<1>2. c \notin Posted
  BY <1>1, OpsDiffer DEF Posted, IsIo, IsNew
<1>3. accept_armed' \in BOOLEAN
  BY <1>1 DEF IInv, TypeOK
<1> QED
  BY <1>1, <1>2, <1>3, Dismiss

\* A receive or send completion is about a connection in the table.
LEMMA IoFacts ==
    ASSUME IInv, NEW c \in batch, OpOf(c.ud) \in {OP_RECV, OP_SEND}
    PROVE  /\ c \in Posted /\ About(c, FdOf(c.ud))
           /\ FdOf(c.ud) \in conns /\ FdOf(c.ud) \in Fds
           /\ WellFormed(conn[FdOf(c.ud)]) /\ c.res \in Int
<1>1. TypeOK /\ OwnersI /\ StatesI
  BY DEF IInv
<1>2. c \in Posted /\ IsIo(c)
  BY DEF Posted, IsIo
<1> QED
  BY <1>1, <1>2, QueueFacts DEF OwnersI, StatesI, About

LEMMA OnSendStep == ASSUME IInv, NEW c \in batch, on_send(c) PROVE IInv'
<1>1. PICK fd : fd = FdOf(c.ud)
  OBVIOUS
<1>2. Take(c, OP_SEND) /\ OpOf(c.ud) = OP_SEND /\ UNCHANGED <<accept_armed, got, slots, tail>>
  BY DEF on_send, Take
<1>3. fd \in conns /\ fd \in Fds /\ About(c, fd) /\ c \in Posted /\ WellFormed(conn[fd]) /\ c.res \in Int
  BY <1>1, <1>2, IoFacts
<1>4. ~ IsFilled(c) /\ accept_armed' \in BOOLEAN /\ answered \in [Peers -> Nat]
  BY <1>2, OpsDiffer DEF IsFilled, IInv, TypeOK
<1>5. CASE c.res < 0 /\ drop_conn(fd) /\ UNCHANGED answered
  <2>1. PICK e \in Sqes, k \in Connections :
              /\ FdOf(e.ud) = fd /\ push(e) /\ Suits(e, k)
              /\ conns' = IF IsIo(e) THEN conns \cup {fd} ELSE conns \ {fd}
              /\ conn' = [conn EXCEPT ![fd] = k]
    BY <1>3, <1>5, DropFacts
  <2>2. answered' \in [Peers -> Nat]
    BY <1>4, <1>5
  <2> QED
    BY <1>2, <1>3, <1>4, <2>1, <2>2, HandOver
<1>6. CASE c.res >= 0
  <2>1. PICK k : k = OnWritten(conn[fd], c.res)
    OBVIOUS
  <2>2. deliver(fd, k) /\ answered' = [answered EXCEPT ![fdPeer[fd]] = IF k.state = "Writing" THEN @ ELSE @ + 1]
    BY <1>1, <1>3, <1>6, <2>1 DEF on_send
  <2>3. conn[fd].state = "Writing" /\ c.res \in 1 .. conn[fd].pending
    BY <1>1, <1>2, <1>3, <1>6 DEF IInv, StatesI
  <2>4. WellFormed(k)
    BY <1>3, <2>1, <2>3, OnWrittenType
  <2>5. PICK e \in Sqes, h \in Connections :
              /\ FdOf(e.ud) = fd /\ push(e) /\ Suits(e, h)
              /\ conns' = IF IsIo(e) THEN conns \cup {fd} ELSE conns \ {fd}
              /\ conn' = [conn EXCEPT ![fd] = h]
    BY <1>3, <2>2, <2>4, DeliverFacts
  <2>6. answered' \in [Peers -> Nat]
    <3>1. PICK p : p = fdPeer[fd]
      OBVIOUS
    <3>2. p \in Peers /\ answered[p] \in Nat
      BY <1>3, <1>4, <3>1 DEF IInv, OwnersI, Open, TypeOK
    <3>3. PICK v \in Nat : answered' = [answered EXCEPT ![p] = v]
      <4>1. CASE k.state = "Writing"
        BY <2>2, <3>1, <3>2, <4>1
      <4>2. CASE k.state # "Writing"
        <5>1. answered' = [answered EXCEPT ![p] = answered[p] + 1] /\ answered[p] + 1 \in Nat
          BY <2>2, <3>1, <3>2, <4>2
        <5> QED
          BY <5>1
      <4> QED
        BY <4>1, <4>2
    <3> QED
      BY <1>4, <3>3
  <2> QED
    BY <1>2, <1>3, <1>4, <2>5, <2>6, HandOver
<1> QED
  BY <1>1, <1>3, <1>5, <1>6 DEF on_send

\* The buffer of a completion holds what comes next of its peer's stream.
LEMMA FilledFacts ==
    ASSUME IInv, NEW c \in Filled, NEW p, p = fdPeer[FdOf(c.ud)]
    PROVE  /\ p \in Peers /\ c.buf \in Bids /\ FdOf(c.ud) \in Fds /\ Open(FdOf(c.ud))
           /\ Bytes(c) \in Seq(Units) /\ taken[p] \in Nat
           /\ got[p] \o Bytes(c) = SubSeq(stream[p], 1, taken[p])
           /\ SubSeq(stream[p], 1, taken[p]) \in Seq(Units)
           /\ Len(SubSeq(stream[p], 1, taken[p])) = taken[p]
<1>1. TypeOK /\ OwnersI /\ RingI /\ PeersI /\ InputI
  BY DEF IInv
<1>2. c \in Posted /\ IsIo(c) /\ IsFilled(c) /\ c \in cq \cup batch /\ c \in Cqes
  BY <1>1, QueueFacts DEF Filled, IsFilled, IsIo
<1>3. FdOf(c.ud) \in conns /\ FdOf(c.ud) \in Fds /\ Open(FdOf(c.ud))
  BY <1>1, <1>2 DEF OwnersI, TypeOK
<1>4. p \in Peers /\ c.buf \in Bids /\ c.res \in Int /\ c.res > 0
  BY <1>1, <1>2, <1>3 DEF RingI, Cqes, Open, TypeOK, IsFilled
<1>5. PICK s, g, t : s = stream[p] /\ g = Len(got[p]) /\ t = taken[p]
  OBVIOUS
<1>6. s \in Seq(Units) /\ Len(s) \in Nat /\ g \in Nat /\ t \in Nat /\ t <= Len(s) /\ got[p] \in Seq(Units)
  <2>1. s \in Seq(Units) /\ got[p] \in Seq(Units)
    BY <1>1, <1>4, <1>5, IoUringAssumption DEF TypeOK
  <2>2. Len(s) \in Nat /\ g \in Nat
    BY <1>5, <2>1, LenProperties
  <2>3. t \in Nat /\ sent[p] \in Nat /\ t <= sent[p] /\ sent[p] <= Len(s)
    BY <1>1, <1>4, <1>5 DEF TypeOK, PeersI
  <2> QED
    BY <2>1, <2>2, <2>3
<1>7. g + c.res = t /\ pool[c.buf] = SubSeq(s, g + 1, t) /\ got[p] = SubSeq(s, 1, g)
  BY <1>1, <1>4, <1>5 DEF InputI, InputIntact
<1>8. PICK q : q = pool[c.buf]
  OBVIOUS
<1>9. q \in Seq(Units) /\ Len(q) = c.res
  <2>1. \A i \in g + 1 .. t : s[i] \in Units
    BY <1>6, ElementOfSeq
  <2>2. g + 1 \in Int /\ t \in Int /\ g + 1 <= t /\ t - (g + 1) + 1 = c.res
    BY <1>4, <1>6, <1>7
  <2> QED
    BY <1>7, <1>8, <2>1, <2>2, SubSeqProperties
<1>10. Bytes(c) = q
  BY <1>8, <1>9, SubSeqFull DEF Bytes
<1>11. got[p] \o Bytes(c) = SubSeq(s, 1, t)
  <2>1. 1 \in 1 .. Len(s) + 1 /\ g \in 1 - 1 .. Len(s) /\ t \in g .. Len(s)
    BY <1>4, <1>6, <1>7
  <2>2. SubSeq(s, 1, g) \o SubSeq(s, g + 1, t) = SubSeq(s, 1, t)
    BY <1>6, <2>1, ConcatAdjacentSubSeq
  <2> QED
    BY <1>7, <1>8, <1>10, <2>2
<1>12. SubSeq(s, 1, t) \in Seq(Units) /\ Len(SubSeq(s, 1, t)) = t
  <2>1. \A i \in 1 .. t : s[i] \in Units
    BY <1>6, ElementOfSeq
  <2>2. 1 \in Int /\ t \in Int /\ t - 1 + 1 = t /\ (1 <= t \/ t = 0)
    BY <1>6
  <2> QED
    BY <2>1, <2>2, SubSeqProperties
<1> QED
  BY <1>3, <1>4, <1>5, <1>6, <1>9, <1>10, <1>11, <1>12

LEMMA OnRecvStep == ASSUME IInv, NEW c \in batch, on_recv(c) PROVE IInv'
<1>1. PICK fd : fd = FdOf(c.ud)
  OBVIOUS
<1>2. Take(c, OP_RECV) /\ OpOf(c.ud) = OP_RECV /\ UNCHANGED <<accept_armed, answered>>
  BY DEF on_recv, Take
<1>3. fd \in conns /\ fd \in Fds /\ About(c, fd) /\ c \in Posted /\ WellFormed(conn[fd]) /\ c.res \in Int
  BY <1>1, <1>2, IoFacts
<1>4. accept_armed' \in BOOLEAN /\ answered' \in [Peers -> Nat]
  BY <1>2 DEF IInv, TypeOK
<1>5. CASE c.res <= 0 /\ drop_conn(fd) /\ UNCHANGED <<slots, tail, got>>
  <2>1. PICK e \in Sqes, k \in Connections :
              /\ FdOf(e.ud) = fd /\ push(e) /\ Suits(e, k)
              /\ conns' = IF IsIo(e) THEN conns \cup {fd} ELSE conns \ {fd}
              /\ conn' = [conn EXCEPT ![fd] = k]
    BY <1>3, <1>5, DropFacts
  <2>2. ~ IsFilled(c)
    BY <1>3, <1>5 DEF IsFilled
  <2> QED
    BY <1>2, <1>3, <1>4, <1>5, <2>1, <2>2, HandOver
<1>6. CASE c.res > 0
  <2>1. PICK p : p = fdPeer[fd]
    OBVIOUS
  <2>2. PICK all : all = SubSeq(stream[p], 1, taken[p])
    OBVIOUS
  <2>3. c \in Filled
    BY <1>2, <1>3, <1>6 DEF Filled, IsFilled
  <2>4. /\ p \in Peers /\ c.buf \in Bids /\ Bytes(c) \in Seq(Units) /\ Open(fd)
        /\ got[p] \o Bytes(c) = all /\ all \in Seq(Units) /\ Len(all) = taken[p] /\ taken[p] \in Nat
    BY <1>1, <2>1, <2>2, <2>3, FilledFacts
  <2>5. PICK k : k = OnBytes(conn[fd], Bytes(c))
    OBVIOUS
  <2>6. deliver(fd, k) /\ recycle(c.buf) /\ got' = [got EXCEPT ![p] = all]
    BY <1>1, <1>3, <1>6, <2>1, <2>4, <2>5 DEF on_recv
  <2>7. WellFormed(k)
    BY <1>3, <2>4, <2>5, OnBytesType
  <2>8. PICK e \in Sqes, h \in Connections :
              /\ FdOf(e.ud) = fd /\ push(e) /\ Suits(e, h)
              /\ conns' = IF IsIo(e) THEN conns \cup {fd} ELSE conns \ {fd}
              /\ conn' = [conn EXCEPT ![fd] = h]
    BY <1>3, <2>6, <2>7, DeliverFacts
  <2>9. /\ pc = "top" /\ pc' = "top" /\ Filled' = Filled \ {c}
        /\ (cq \cup batch)' \in SUBSET (cq \cup batch)
        /\ UNCHANGED <<peerVars, taken, fdPeer, khead, pool>>
    BY <1>2, TakeFacts
  <2>10. RingI' /\ slots' \in [Bids -> Bids] /\ tail' \in 0 .. TailMod - 1
    BY <2>3, <2>4, <2>6, <2>9, RecycleRing DEF IInv, QueuesI
  <2>11. got' \in [Peers -> Seq(Units)] /\ got'[p] = all /\ \A q \in Peers : q # p => got'[q] = got[q]
    BY <2>4, <2>6 DEF IInv, TypeOK
  <2>12. TypeOK' /\ QueuesI' /\ OwnersI' /\ StatesI'
    BY <1>2, <1>3, <1>4, <2>8, <2>10, <2>11, HandOverCore
  <2>13. PeersI'
    <3>1. phase[p] = "open"
      BY <1>3, <2>1, <2>4 DEF IInv, PeersI
    <3> QED
      BY <2>9, <2>11, <3>1 DEF IInv, PeersI, peerVars, Open
  <2>14. InputI'
    <3>1. InputI /\ UNCHANGED <<stream, taken, fdPeer, pool>>
      BY <2>9 DEF IInv, peerVars
    <3>2. \A q \in Peers : got'[q] = SubSeq(stream[q], 1, Len(got'[q])) /\ Len(got'[q]) <= taken[q]
      <4> SUFFICES ASSUME NEW q \in Peers
                   PROVE  got'[q] = SubSeq(stream[q], 1, Len(got'[q])) /\ Len(got'[q]) <= taken[q]
        OBVIOUS
      <4>1. CASE q = p
        BY <2>2, <2>4, <2>11, <4>1
      <4>2. CASE q # p
        BY <2>11, <3>1, <4>2 DEF InputI, InputIntact
      <4> QED
        BY <4>1, <4>2
    <3>3. \A g \in Fds : Open(g) /\ g # fd => fdPeer[g] # p /\ fdPeer[g] \in Peers
      BY <1>3, <2>1, <2>4 DEF IInv, PeersI, Open, TypeOK
    <3>4. \A g \in Fds : Open(g) /\ (\A d \in Filled' : FdOf(d.ud) # g) => Len(got'[fdPeer[g]]) = taken[fdPeer[g]]
      <4> SUFFICES ASSUME NEW g \in Fds, Open(g), \A d \in Filled' : FdOf(d.ud) # g
                   PROVE  Len(got'[fdPeer[g]]) = taken[fdPeer[g]]
        OBVIOUS
      <4>1. CASE g = fd
        BY <2>1, <2>4, <2>11, <4>1
      <4>2. CASE g # fd
        <5>1. \A d \in Filled : FdOf(d.ud) # g
          BY <1>1, <2>9, <4>2
        <5> QED
          BY <2>11, <3>1, <3>3, <4>2, <5>1 DEF InputI
      <4> QED
        BY <4>1, <4>2
    <3>5. \A d \in Filled' : FdOf(d.ud) # fd /\ FdOf(d.ud) \in Fds /\ Open(FdOf(d.ud)) /\ d \in Filled
      <4> SUFFICES ASSUME NEW d \in Filled' PROVE FdOf(d.ud) # fd /\ FdOf(d.ud) \in Fds /\ Open(FdOf(d.ud)) /\ d \in Filled
        OBVIOUS
      <4>1. d \in Filled /\ d # c
        BY <2>9
      <4>2. IsIo(d) /\ d \in Posted /\ IsIo(c)
        BY <1>2, <4>1 DEF Filled, IsFilled, IsIo
      <4> QED
        BY <1>1, <1>3, <4>1, <4>2, FilledFacts DEF IInv, OwnersI
    <3>6. \A d \in Filled' : /\ Len(got'[fdPeer[FdOf(d.ud)]]) + d.res = taken[fdPeer[FdOf(d.ud)]]
                             /\ pool[d.buf] = SubSeq(stream[fdPeer[FdOf(d.ud)]],
                                                Len(got'[fdPeer[FdOf(d.ud)]]) + 1, taken[fdPeer[FdOf(d.ud)]])
      BY <2>11, <3>1, <3>3, <3>5 DEF InputI
    <3> QED
      BY <3>1, <3>2, <3>4, <3>6 DEF InputI, InputIntact, Open
  <2> QED
    BY <2>10, <2>12, <2>13, <2>14 DEF IInv
<1> QED
  BY <1>1, <1>3, <1>5, <1>6 DEF on_recv

-----------------------------------------------------------------------------
(* The kernel *)

\* The kernel takes an operation on a connection off its list and posts c.
LEMMA PostFacts ==
    ASSUME IInv, NEW e \in kern, FdOf(e.ud) # Listener, NEW c, c.ud = e.ud, ~ c.more, Post(e, c),
           UNCHANGED lost
    PROVE  /\ e \in Pend /\ pc # "stopped"
           /\ Pend' = Pend \ {e} /\ \A f \in Pend' : Apart(f)'
           /\ cq' = cq \cup {c} /\ UNCHANGED <<sq, slots, tail>>
           /\ kern' = kern \ {e}
<1>1. QueuesI
  BY DEF IInv
<1>2. e \in Pend /\ pc # "stopped"
  BY <1>1 DEF Pend, QueuesI
<1>3. kern' = kern \ {e} /\ cq' = cq \cup {c} /\ UNCHANGED <<sq, slots, tail>>
  BY DEF Post
<1> QED
  BY <1>1, <1>2, <1>3 DEF Pend, QueuesI, Apart

\* A receive or a send completes: the completion takes the operation's place.
LEMMA CompleteIo ==
    ASSUME IInv, NEW e \in kern, IsIo(e), NEW c \in Cqes, c.ud = e.ud, ~ c.more, Complete(e, c),
           UNCHANGED fdPeer,
           OpOf(e.ud) = OP_SEND => c.res < 0 \/ c.res \in 1 .. e.len
    PROVE  /\ QueuesI' /\ OwnersI' /\ StatesI'
           /\ pc # "stopped" /\ c \notin Posted /\ Posted' = Posted \cup {c}
           /\ (cq \cup batch)' = cq \cup batch \cup {c}
           /\ UNCHANGED <<loopVars, slots, tail>>
           /\ (sq \cup kern \cup lost)' \in SUBSET Sqes /\ (cq \cup batch)' \in SUBSET Cqes
           /\ FdOf(e.ud) \in conns /\ FdOf(e.ud) \in Fds /\ Open(FdOf(e.ud))
           /\ \A d \in Posted : IsIo(d) => FdOf(d.ud) # FdOf(e.ud)
<1>1. TypeOK /\ QueuesI /\ OwnersI /\ StatesI
  BY DEF IInv
<1>2. FdOf(e.ud) \in Fds /\ FdOf(e.ud) # Listener
  <2>1. e.ud \in UserData
    BY <1>1 DEF TypeOK, Sqes
  <2> QED
    BY <2>1, UserDataFacts, OpsDiffer DEF IsIo
<1>3. UNCHANGED loopVars /\ Post(e, c)
  BY DEF Complete
<1>4. /\ e \in Pend /\ pc # "stopped"
      /\ Pend' = Pend \ {e} /\ \A f \in Pend' : Apart(f)'
      /\ cq' = cq \cup {c} /\ UNCHANGED <<sq, slots, tail>>
      /\ kern' = kern \ {e}
  BY <1>2, <1>3, PostFacts DEF loopVars
<1>5. IsIo(c) /\ ~ IsNew(c)
  BY OpsDiffer DEF IsIo, IsNew
<1>6. UNCHANGED <<conns, conn, batch, pc, lost>>
  BY <1>3 DEF loopVars
<1>7. Posted' = Posted \cup {c}
  BY <1>4, <1>5, <1>6 DEF Posted, IsIo, IsNew
<1>8. FdOf(e.ud) \in conns /\ Open(FdOf(e.ud)) /\ \A d \in Posted : IsIo(d) => FdOf(d.ud) # FdOf(e.ud)
  BY <1>1, <1>4 DEF OwnersI
<1>9. c \notin Posted /\ c \notin batch /\ c \notin cq
  BY <1>5, <1>8 DEF Posted
<1>10. QueuesI'
  <2>1. IsFiniteSet(Posted')
    BY <1>1, <1>7, FS_AddElement DEF QueuesI
  <2>2. \A d \in Posted' : ~ (d \in cq' /\ d \in batch')
    BY <1>1, <1>4, <1>6, <1>7, <1>9 DEF QueuesI
  <2> QED
    BY <1>1, <1>4, <1>6, <2>1, <2>2 DEF QueuesI, Apart
<1>11. OwnersI'
  <2> USE DEF Open
  <2>1. \A f, g \in Pend' : FdOf(f.ud) = FdOf(g.ud) => f = g
    BY <1>1, <1>4 DEF OwnersI
  <2>2. \A d, b \in Posted' : /\ IsIo(d) /\ IsIo(b) /\ FdOf(d.ud) = FdOf(b.ud) => d = b
                              /\ IsNew(d) /\ IsNew(b) /\ d.res = b.res => d = b
    BY <1>1, <1>5, <1>7, <1>8 DEF OwnersI
  <2>3. \A d \in Posted', f \in Pend' : /\ IsIo(d)  => FdOf(f.ud) # FdOf(d.ud)
                                        /\ IsNew(d) => FdOf(f.ud) # d.res
    <3> SUFFICES ASSUME NEW d \in Posted', NEW f \in Pend'
                 PROVE  /\ IsIo(d)  => FdOf(f.ud) # FdOf(d.ud)
                        /\ IsNew(d) => FdOf(f.ud) # d.res
      OBVIOUS
    <3>1. CASE d = c
      BY <1>1, <1>4, <1>5, <3>1 DEF OwnersI
    <3>2. CASE d \in Posted
      BY <1>1, <1>4, <3>2 DEF OwnersI
    <3> QED
      BY <1>7, <3>1, <3>2
  <2>4. \A d \in Posted' : /\ IsNew(d) => d.res \in Fds /\ Open(d.res)' /\ d.res \notin conns'
                           /\ IsIo(d) => FdOf(d.ud) \in conns'
    BY <1>1, <1>5, <1>6, <1>7, <1>8 DEF OwnersI
  <2>5. \A f \in Pend' : Open(FdOf(f.ud))' /\ (IsIo(f) <=> FdOf(f.ud) \in conns')
    BY <1>1, <1>4, <1>6 DEF OwnersI
  <2>6. \A g \in conns' : /\ Open(g)'
                          /\ \/ \E f \in Pend' : FdOf(f.ud) = g
                             \/ \E d \in Posted' : IsIo(d) /\ FdOf(d.ud) = g
    <3> SUFFICES ASSUME NEW g \in conns
                 PROVE  /\ Open(g)'
                        /\ \/ \E f \in Pend' : FdOf(f.ud) = g
                           \/ \E d \in Posted' : IsIo(d) /\ FdOf(d.ud) = g
      BY <1>6
    <3>1. Open(g)'
      BY <1>1 DEF OwnersI
    <3>2. CASE g = FdOf(e.ud)
      BY <1>5, <1>7, <3>1, <3>2
    <3>3. CASE g # FdOf(e.ud)
      <4>1. CASE \E f \in Pend : FdOf(f.ud) = g
        BY <1>4, <3>1, <3>3, <4>1
      <4>2. CASE \E d \in Posted : IsIo(d) /\ FdOf(d.ud) = g
        BY <1>7, <3>1, <4>2
      <4> QED
        BY <1>1, <4>1, <4>2 DEF OwnersI
    <3> QED
      BY <3>2, <3>3
  <2>7. \A g \in Fds : Open(g)' => \/ g \in conns'
                                   \/ \E f \in Pend' : FdOf(f.ud) = g
                                   \/ \E d \in Posted' : IsNew(d) /\ d.res = g
    <3> SUFFICES ASSUME NEW g \in Fds, Open(g)
                 PROVE  \/ g \in conns
                        \/ \E f \in Pend' : FdOf(f.ud) = g
                        \/ \E d \in Posted' : IsNew(d) /\ d.res = g
      BY <1>6
    <3>1. CASE g \in conns
      BY <3>1
    <3>2. CASE g \notin conns /\ \E f \in Pend : FdOf(f.ud) = g
      BY <1>4, <1>8, <3>2
    <3>3. CASE \E d \in Posted : IsNew(d) /\ d.res = g
      BY <1>7, <3>3
    <3> QED
      BY <1>1, <3>1, <3>2, <3>3 DEF OwnersI
  <2> QED
    BY <2>1, <2>2, <2>3, <2>4, <2>5, <2>6, <2>7 DEF OwnersI, IsIo, IsNew
<1>12. StatesI'
  <2>1. \A f \in Pend' : f \in Pend
    BY <1>4
  <2>2. /\ OpOf(c.ud) = OP_RECV => conn[FdOf(c.ud)].state = "Reading"
        /\ OpOf(c.ud) = OP_SEND =>
                /\ conn[FdOf(c.ud)].state = "Writing"
                /\ c.res < 0 \/ c.res \in 1 .. conn[FdOf(c.ud)].pending
    BY <1>1, <1>4 DEF StatesI
  <2> QED
    BY <1>1, <1>6, <1>7, <2>1, <2>2 DEF StatesI
<1>13. (cq \cup batch)' = cq \cup batch \cup {c} /\ (sq \cup kern \cup lost)' \in SUBSET Sqes /\ (cq \cup batch)' \in SUBSET Cqes
  BY <1>1, <1>4, <1>6 DEF TypeOK
<1> QED
  BY <1>2, <1>3, <1>4, <1>7, <1>8, <1>9, <1>10, <1>11, <1>12, <1>13

\* A completion that carries no buffer leaves the ring and the input alone.
LEMMA EmptyStep ==
    ASSUME IInv, NEW e \in kern, IsIo(e), NEW c \in Cqes, c.ud = e.ud, ~ c.more, Complete(e, c),
           OpOf(e.ud) = OP_SEND => c.res < 0 \/ c.res \in 1 .. e.len,
           c.buf = NoBuf, ~ IsFilled(c), UNCHANGED <<sockVars, kernVars>>
    PROVE  IInv'
<1>1. TypeOK /\ RingI /\ PeersI /\ InputI
  BY DEF IInv
<1>2. UNCHANGED <<stream, phase, backlog, sent, taken, fin, rst, answered, got, fdPeer, khead, pool>>
  BY DEF sockVars, peerVars, kernVars
<1>3. /\ QueuesI' /\ OwnersI' /\ StatesI'
      /\ Posted' = Posted \cup {c} /\ (cq \cup batch)' = cq \cup batch \cup {c}
      /\ UNCHANGED <<loopVars, slots, tail>>
      /\ (sq \cup kern \cup lost)' \in SUBSET Sqes /\ (cq \cup batch)' \in SUBSET Cqes
  BY <1>2, CompleteIo
<1>4. UNCHANGED <<conns, conn, accept_armed, batch, pc, shutdown, faults, lost>>
  BY <1>3 DEF loopVars
<1>5. Filled' = Filled
  BY <1>3 DEF Filled, IsFilled
<1>6. TypeOK'
  <2>1. /\ accept_armed' \in BOOLEAN /\ shutdown' \in BOOLEAN /\ faults' \in 0 .. MaxFaults
        /\ pc' \in {"top", "enter", "collect", "stopped"}
    BY <1>1, <1>4 DEF TypeOK
  <2> QED
    BY <1>1, <1>2, <1>3, <1>4, <2>1, TypeFrame
<1>7. RingI'
  BY <1>1, <1>2, <1>3, <1>4, <1>5, RingFrame
<1>8. PeersI' /\ InputI'
  BY <1>1, <1>2, <1>5, PeersFrame, InputFrame
<1> QED
  BY <1>3, <1>6, <1>7, <1>8 DEF IInv

\* The completions the kernel makes.
LEMMA CqeFacts ==
    ASSUME NEW e \in Sqes, NEW res \in Int, NEW buf \in Bids \cup {NoBuf}, NEW more \in BOOLEAN,
           NEW c, c = Cqe(e, res, buf, more)
    PROVE  c \in Cqes /\ c.ud = e.ud /\ c.res = res /\ c.buf = buf
BY DEF Cqe, Cqes, Sqes

LEMMA LastCqe ==
    ASSUME NEW e \in Sqes, NEW res \in Int, NEW buf \in Bids \cup {NoBuf}, NEW c, c = Cqe(e, res, buf, FALSE)
    PROVE  c \in Cqes /\ c.ud = e.ud /\ c.res = res /\ c.buf = buf /\ ~ c.more
<1>1. ~ c.more
  BY DEF Cqe
<1> QED
  BY <1>1 DEF Cqe, Cqes, Sqes

LEMMA KernelRecvFailsStep == ASSUME IInv, NEW e \in kern, KernelRecvFails(e) PROVE IInv'
<1>1. e \in Sqes /\ OpOf(e.ud) = OP_RECV /\ IsIo(e) /\ NoBuf \in Bids \cup {NoBuf}
  BY DEF IInv, TypeOK, KernelRecvFails, IsIo
<1>2. PICK r \in RecvErrors(fdPeer[FdOf(e.ud)]) : Complete(e, Cqe(e, r, NoBuf, FALSE))
  BY DEF KernelRecvFails
<1>3. r \in Int /\ r <= 0
  BY <1>2 DEF RecvErrors, ECONNRESET, ENOBUFS
<1>4. PICK c : c = Cqe(e, r, NoBuf, FALSE)
  OBVIOUS
<1>5. c \in Cqes /\ c.ud = e.ud /\ c.res = r /\ c.buf = NoBuf /\ ~ c.more
  BY <1>1, <1>3, <1>4, LastCqe DEF Cqe
<1>6. ~ IsFilled(c)
  BY <1>3, <1>5 DEF IsFilled
<1> QED
  BY <1>1, <1>2, <1>4, <1>5, <1>6, OpsDiffer, EmptyStep DEF KernelRecvFails

LEMMA KernelSendStep == ASSUME IInv, NEW e \in kern, KernelSend(e) PROVE IInv'
<1>1. e \in Sqes /\ OpOf(e.ud) = OP_SEND /\ IsIo(e) /\ NoBuf \in Bids \cup {NoBuf} /\ e.len \in Nat
  BY DEF IInv, TypeOK, KernelSend, IsIo, Sqes
<1>2. PICK n \in IF rst[fdPeer[FdOf(e.ud)]] THEN {ECONNRESET} ELSE 1 .. e.len :
          Complete(e, Cqe(e, n, NoBuf, FALSE))
  BY DEF KernelSend
<1>3. n \in Int /\ (n < 0 \/ n \in 1 .. e.len)
  BY <1>1, <1>2 DEF ECONNRESET
<1>4. PICK c : c = Cqe(e, n, NoBuf, FALSE)
  OBVIOUS
<1>5. c \in Cqes /\ c.ud = e.ud /\ c.res = n /\ c.buf = NoBuf /\ ~ c.more
  BY <1>1, <1>3, <1>4, LastCqe DEF Cqe
<1>6. ~ IsFilled(c)
  BY <1>1, <1>5, OpsDiffer DEF IsFilled
<1> QED
  BY <1>1, <1>2, <1>3, <1>4, <1>5, <1>6, EmptyStep DEF KernelSend

\* A receive takes a buffer, the peer's next bytes, and posts both.
LEMMA KernelRecvStep == ASSUME IInv, NEW e \in kern, KernelRecv(e) PROVE IInv'
<1>1. TypeOK /\ QueuesI /\ OwnersI /\ RingI /\ PeersI /\ InputI
  BY DEF IInv
<1>2. e \in Sqes /\ OpOf(e.ud) = OP_RECV /\ IsIo(e) /\ BufsInRing > 0
  BY <1>1 DEF TypeOK, KernelRecv, IsIo
<1>3. PICK fd, p : fd = FdOf(e.ud) /\ p = fdPeer[fd]
  OBVIOUS
<1>4. PICK n, b : n = Min({BufSize, sent[p] - taken[p]}) /\ b = slots[khead % NumBufs]
  OBVIOUS
<1>5. PICK c : c = Cqe(e, n, b, FALSE)
  OBVIOUS
<1>6. /\ taken[p] < sent[p] /\ Complete(e, c)
      /\ pool' = [pool EXCEPT ![b] = SubSeq(stream[p], taken[p] + 1, taken[p] + n)]
      /\ taken' = [taken EXCEPT ![p] = @ + n]
      /\ khead' = (khead + 1) % TailMod
      /\ UNCHANGED <<stream, phase, backlog, sent, fin, rst, answered, got, fdPeer>>
  BY <1>3, <1>4, <1>5 DEF KernelRecv, peerVars
<1>7. fd \in Fds /\ fd \in conns /\ Open(fd) /\ p \in Peers
  <2>1. e \in Pend
    <3>1. e.ud \in UserData
      BY <1>2 DEF Sqes
    <3> QED
      BY <1>2, <3>1, UserDataFacts, OpsDiffer DEF Pend
  <2> QED
    BY <1>1, <1>2, <1>3, <2>1, QueueFacts DEF OwnersI, Open, TypeOK
<1>8. PICK s, t, g : s = stream[p] /\ t = taken[p] /\ g = got[p]
  OBVIOUS
<1>9. s \in Seq(Units) /\ Len(s) \in Nat /\ t \in Nat /\ sent[p] \in Nat /\ sent[p] <= Len(s) /\ t < sent[p]
  <2>1. s \in Seq(Units)
    BY <1>1, <1>7, <1>8, IoUringAssumption DEF TypeOK
  <2>2. Len(s) \in Nat
    BY <2>1, LenProperties
  <2> QED
    BY <1>1, <1>6, <1>7, <1>8, <2>1, <2>2 DEF TypeOK, PeersI
<1>10. n \in Nat /\ n > 0 /\ t + n <= sent[p]
  <2>1. BufSize \in Nat /\ BufSize > 0 /\ sent[p] - t \in Nat
    <3>1. BufSize \in Nat \ {0}
      BY IoUringAssumption
    <3> QED
      BY <1>9, <3>1
  <2>2. n = IF BufSize <= sent[p] - t THEN BufSize ELSE sent[p] - t
    BY <1>4, <1>8, <2>1, MinOfTwo
  <2> QED
    BY <1>9, <2>1, <2>2
<1>11. b = Slot(0) /\ b \in Bids
  <2>1. khead + 0 = khead /\ 0 \in Nat
    BY <1>1 DEF TypeOK
  <2> QED
    BY <1>1, <1>4, <2>1, SlotType DEF Slot
<1>12. c \in Cqes /\ c.ud = e.ud /\ c.res = n /\ c.buf = b /\ ~ c.more
  <2>1. n \in Int
    BY <1>10
  <2> QED
    BY <1>2, <1>5, <1>11, <2>1, LastCqe DEF Cqe
<1>13. IsFilled(c)
  BY <1>2, <1>10, <1>12 DEF IsFilled
<1>14. /\ QueuesI' /\ OwnersI' /\ StatesI'
       /\ pc # "stopped" /\ c \notin Posted /\ Posted' = Posted \cup {c}
       /\ (cq \cup batch)' = cq \cup batch \cup {c}
       /\ UNCHANGED <<loopVars, slots, tail>>
       /\ (sq \cup kern \cup lost)' \in SUBSET Sqes /\ (cq \cup batch)' \in SUBSET Cqes
       /\ \A d \in Posted : IsIo(d) => FdOf(d.ud) # fd
  BY <1>2, <1>3, <1>6, <1>12, OpsDiffer, CompleteIo
<1>15. Filled' = Filled \cup {c} /\ c \notin Filled
  BY <1>13, <1>14 DEF Filled, IsFilled
<1>16. RingI' /\ khead' \in 0 .. TailMod - 1
  BY <1>1, <1>2, <1>6, <1>11, <1>12, <1>13, <1>14, <1>15, TakeRing DEF QueuesI
<1>17. taken' \in [Peers -> Nat] /\ taken'[p] = t + n /\ \A q \in Peers : q # p => taken'[q] = taken[q]
  <2>1. taken' = [taken EXCEPT ![p] = t + n] /\ t + n \in Nat
    BY <1>6, <1>8, <1>9, <1>10
  <2> QED
    BY <1>1, <1>7, <2>1 DEF TypeOK
<1>18. PICK new : new = SubSeq(s, t + 1, t + n)
  OBVIOUS
<1>19. new \in Seq(Units)
  <2>1. \A i \in t + 1 .. t + n : s[i] \in Units
    BY <1>9, <1>10, ElementOfSeq
  <2>2. t + 1 \in Int /\ t + n \in Int
    BY <1>9, <1>10
  <2> QED
    BY <1>18, <2>1, <2>2, SubSeqProperties
<1>20. pool' \in [Bids -> Seq(Units)] /\ pool'[b] = new /\ \A a \in Bids : a # b => pool'[a] = pool[a]
  <2>1. pool' = [pool EXCEPT ![b] = new]
    BY <1>6, <1>8, <1>18
  <2> QED
    BY <1>1, <1>11, <1>19, <2>1 DEF TypeOK
<1>21. TypeOK'
  BY <1>1, <1>6, <1>14, <1>16, <1>17, <1>20 DEF TypeOK, loopVars
<1>22. PeersI'
  <2>1. phase[p] = "open"
    BY <1>1, <1>3, <1>7 DEF PeersI
  <2>2. \A q \in Peers : taken'[q] <= sent[q] /\ sent[q] <= Len(stream[q])
    BY <1>1, <1>10, <1>17 DEF PeersI
  <2>3. \A q \in Peers : phase[q] \in {"idle", "queued"} => taken'[q] = 0 /\ got[q] = << >>
    BY <1>1, <1>17, <2>1 DEF PeersI
  <2> QED
    BY <1>1, <1>6, <2>2, <2>3 DEF PeersI, Open
<1>23. InputI'
  <2>1. Len(g) = t
    <3>1. \A d \in Filled : FdOf(d.ud) # fd
      BY <1>14 DEF Filled, IsFilled, IsIo
    <3> QED
      BY <1>1, <1>3, <1>7, <1>8, <3>1 DEF InputI
  <2>2. \A q \in Peers : Len(got[q]) <= taken'[q]
    <3> SUFFICES ASSUME NEW q \in Peers PROVE Len(got[q]) <= taken'[q]
      OBVIOUS
    <3>1. CASE q = p
      BY <1>8, <1>9, <1>10, <1>17, <2>1, <3>1
    <3>2. CASE q # p
      BY <1>1, <1>17, <3>2 DEF InputI
    <3> QED
      BY <3>1, <3>2
  <2>3. \A h \in Fds : Open(h) /\ h # fd => fdPeer[h] # p /\ fdPeer[h] \in Peers
    BY <1>1, <1>3, <1>7 DEF PeersI, Open, TypeOK
  <2>4. \A h \in Fds : Open(h) /\ (\A d \in Filled' : FdOf(d.ud) # h) => Len(got[fdPeer[h]]) = taken'[fdPeer[h]]
    <3> SUFFICES ASSUME NEW h \in Fds, Open(h), \A d \in Filled' : FdOf(d.ud) # h
                 PROVE  Len(got[fdPeer[h]]) = taken'[fdPeer[h]]
      OBVIOUS
    <3>1. h # fd /\ \A d \in Filled : FdOf(d.ud) # h
      BY <1>3, <1>12, <1>15
    <3> QED
      BY <1>1, <1>17, <2>3, <3>1 DEF InputI
  <2>5. ASSUME NEW d \in Filled'
        PROVE  /\ Len(got[fdPeer[FdOf(d.ud)]]) + d.res = taken'[fdPeer[FdOf(d.ud)]]
               /\ pool'[d.buf] = SubSeq(stream[fdPeer[FdOf(d.ud)]],
                                        Len(got[fdPeer[FdOf(d.ud)]]) + 1, taken'[fdPeer[FdOf(d.ud)]])
    <3>1. CASE d = c
      BY <1>3, <1>8, <1>12, <1>17, <1>18, <1>20, <2>1, <3>1
    <3>2. CASE d \in Filled
      <4>1. FdOf(d.ud) # fd
        BY <1>14, <3>2 DEF Filled, IsFilled, IsIo
      <4>2. PICK q : q = fdPeer[FdOf(d.ud)]
        OBVIOUS
      <4>3. q \in Peers /\ d.buf \in Bids /\ FdOf(d.ud) \in Fds /\ Open(FdOf(d.ud))
        BY <3>2, <4>2, FilledFacts
      <4>4. q # p /\ d.buf # b
        <5>1. 0 \in 0 .. BufsInRing - 1
          <6>1. BufsInRing \in Int
            BY <1>1, RingIndex
          <6> QED
            BY <1>2, <6>1
        <5> QED
          BY <1>1, <1>11, <2>3, <3>2, <4>1, <4>2, <4>3, <5>1 DEF RingI
      <4>5. taken'[q] = taken[q] /\ pool'[d.buf] = pool[d.buf]
        BY <1>17, <1>20, <4>3, <4>4
      <4> QED
        BY <1>1, <3>2, <4>2, <4>5 DEF InputI
    <3> QED
      BY <1>15, <3>1, <3>2
  <2> QED
    BY <1>1, <1>6, <2>2, <2>4, <2>5 DEF InputI, InputIntact, Open
<1> QED
  BY <1>14, <1>16, <1>21, <1>22, <1>23 DEF IInv

\* A close frees its fd, which nothing else is about.
LEMMA KernelCloseStep == ASSUME IInv, NEW e \in kern, KernelClose(e) PROVE IInv'
<1>1. TypeOK /\ QueuesI /\ OwnersI /\ StatesI /\ RingI /\ PeersI /\ InputI
  BY DEF IInv
<1>2. e \in Sqes /\ OpOf(e.ud) = OP_CLOSE /\ ~ IsIo(e) /\ NoBuf \in Bids \cup {NoBuf} /\ 0 \in Int
  BY <1>1, OpsDiffer DEF TypeOK, KernelClose, IsIo
<1>3. PICK fd, p : fd = FdOf(e.ud) /\ p = fdPeer[fd]
  OBVIOUS
<1>4. PICK c : c = Cqe(e, 0, NoBuf, FALSE)
  OBVIOUS
<1>5. c \in Cqes /\ c.ud = e.ud /\ c.res = 0 /\ c.buf = NoBuf /\ ~ c.more
  BY <1>2, <1>4, LastCqe DEF Cqe
<1>6. /\ Complete(e, c)
      /\ fdPeer' = [fdPeer EXCEPT ![fd] = NoPeer] /\ phase' = [phase EXCEPT ![p] = "closed"]
      /\ UNCHANGED <<stream, backlog, sent, taken, fin, rst, answered, got, khead, pool>>
  BY <1>3, <1>4 DEF KernelClose
<1>7. fd # Listener
  <2>1. e.ud \in UserData
    BY <1>2 DEF Sqes
  <2> QED
    BY <1>2, <1>3, <2>1, UserDataFacts, OpsDiffer
<1>8. /\ e \in Pend /\ pc # "stopped" /\ Pend' = Pend \ {e} /\ \A f \in Pend' : Apart(f)'
      /\ cq' = cq \cup {c} /\ UNCHANGED <<sq, slots, tail>> /\ kern' = kern \ {e}
  BY <1>3, <1>5, <1>6, <1>7, PostFacts DEF Complete, loopVars
<1>9. UNCHANGED <<conns, conn, accept_armed, batch, pc, shutdown, faults, lost>>
  BY <1>6 DEF Complete, loopVars
<1>10. Posted' = Posted /\ Filled' = Filled /\ c \notin Posted
  <2>1. ~ IsIo(c) /\ ~ IsNew(c)
    BY <1>2, <1>5, OpsDiffer DEF IsIo, IsNew
  <2>2. Posted' = Posted
    BY <1>8, <1>9, <2>1 DEF Posted, IsIo, IsNew
  <2> QED
    BY <2>1, <2>2 DEF Filled, IsFilled, Posted
<1>11. fd \in Fds /\ Open(fd) /\ fd \notin conns /\ p \in Peers
  BY <1>1, <1>2, <1>3, <1>8, QueueFacts DEF OwnersI, Open, TypeOK
<1>12. /\ \A g \in Fds : g # fd => fdPeer'[g] = fdPeer[g] /\ (Open(g)' <=> Open(g))
       /\ fdPeer'[fd] = NoPeer /\ ~ Open(fd)'
       /\ \A q \in Peers : q # p => phase'[q] = phase[q]
       /\ phase'[p] = "closed" /\ phase[p] = "open"
  BY <1>1, <1>3, <1>6, <1>11 DEF TypeOK, Open, PeersI
<1>13. QueuesI'
  <2>1. \A d \in Posted' : ~ (d \in cq' /\ d \in batch')
    BY <1>1, <1>8, <1>9, <1>10 DEF QueuesI
  <2> QED
    BY <1>1, <1>8, <1>9, <1>10, <2>1 DEF QueuesI, Apart
<1>14. \A f \in Pend' : f \in Pend /\ FdOf(f.ud) # fd /\ FdOf(f.ud) \in Fds
  BY <1>1, <1>3, <1>8, QueueFacts DEF OwnersI
<1>15. \A d \in Posted : /\ IsNew(d) => d.res # fd /\ d.res \in Fds
                         /\ IsIo(d) => FdOf(d.ud) # fd /\ FdOf(d.ud) \in Fds
  BY <1>1, <1>3, <1>8, <1>11, QueueFacts DEF OwnersI
<1>16. OwnersI'
  <2>1. \A d \in Posted' : /\ IsNew(d) => d.res \in Fds /\ Open(d.res)' /\ d.res \notin conns'
                           /\ IsIo(d) => FdOf(d.ud) \in conns'
    BY <1>1, <1>9, <1>10, <1>12, <1>15 DEF OwnersI
  <2>2. \A f \in Pend' : Open(FdOf(f.ud))' /\ (IsIo(f) <=> FdOf(f.ud) \in conns')
    BY <1>1, <1>9, <1>12, <1>14 DEF OwnersI
  <2>3. \A g \in Fds : g # fd /\ (\E f \in Pend : FdOf(f.ud) = g) => \E f \in Pend' : FdOf(f.ud) = g
    BY <1>3, <1>8
  <2>4. \A g \in conns' : /\ Open(g)'
                          /\ \/ \E f \in Pend' : FdOf(f.ud) = g
                             \/ \E d \in Posted' : IsIo(d) /\ FdOf(d.ud) = g
    <3> SUFFICES ASSUME NEW g \in conns
                 PROVE  /\ Open(g)'
                        /\ \/ \E f \in Pend' : FdOf(f.ud) = g
                           \/ \E d \in Posted' : IsIo(d) /\ FdOf(d.ud) = g
      BY <1>9
    <3>1. g \in Fds /\ g # fd
      BY <1>1, <1>11 DEF TypeOK
    <3> QED
      BY <1>1, <1>10, <1>12, <2>3, <3>1 DEF OwnersI
  <2>5. \A g \in Fds : Open(g)' => \/ g \in conns'
                                   \/ \E f \in Pend' : FdOf(f.ud) = g
                                   \/ \E d \in Posted' : IsNew(d) /\ d.res = g
    BY <1>1, <1>9, <1>10, <1>12, <2>3 DEF OwnersI
  <2>6. \A d \in Posted', f \in Pend' : /\ IsIo(d)  => FdOf(f.ud) # FdOf(d.ud)
                                        /\ IsNew(d) => FdOf(f.ud) # d.res
    BY <1>1, <1>10, <1>14 DEF OwnersI
  <2>7. /\ \A f, g \in Pend' : FdOf(f.ud) = FdOf(g.ud) => f = g
        /\ \A d, b \in Posted' : /\ IsIo(d) /\ IsIo(b) /\ FdOf(d.ud) = FdOf(b.ud) => d = b
                                 /\ IsNew(d) /\ IsNew(b) /\ d.res = b.res => d = b
    BY <1>1, <1>10, <1>14 DEF OwnersI
  <2> QED
    BY <2>1, <2>2, <2>4, <2>5, <2>6, <2>7 DEF OwnersI, IsIo, IsNew
<1>17. StatesI'
  BY <1>1, <1>9, <1>10, <1>14 DEF StatesI
<1>18. RingI'
  <2>1. ~ IsFilled(c)
    BY <1>5 DEF IsFilled
  <2> QED
    BY <1>1, <1>5, <1>6, <1>8, <1>9, <1>10, <2>1, RingFrame
<1>19. PeersI'
  <2>1. \A q \in Peers : phase'[q] \in {"idle", "queued"} => taken[q] = 0 /\ got[q] = << >>
    BY <1>1, <1>12 DEF PeersI
  <2>2. \A g \in Fds : Open(g)' => phase'[fdPeer'[g]] = "open"
    <3> SUFFICES ASSUME NEW g \in Fds, Open(g)' PROVE phase'[fdPeer'[g]] = "open"
      OBVIOUS
    <3>1. g # fd /\ Open(g) /\ fdPeer'[g] = fdPeer[g]
      BY <1>12
    <3>2. fdPeer[g] # p /\ fdPeer[g] \in Peers
      BY <1>1, <1>3, <1>11, <3>1 DEF PeersI, Open, TypeOK
    <3> QED
      BY <1>1, <1>12, <3>1, <3>2 DEF PeersI
  <2>3. \A g, h \in Fds : Open(g)' /\ fdPeer'[g] = fdPeer'[h] => g = h
    <3> SUFFICES ASSUME NEW g \in Fds, NEW h \in Fds, Open(g)', fdPeer'[g] = fdPeer'[h] PROVE g = h
      OBVIOUS
    <3>1. g # fd /\ h # fd /\ Open(g) /\ fdPeer[g] = fdPeer[h]
      BY <1>12 DEF Open
    <3> QED
      BY <1>1, <3>1 DEF PeersI
  <2>4. \A i \in 1 .. Len(backlog) : phase'[backlog[i]] = "queued"
    <3> SUFFICES ASSUME NEW i \in 1 .. Len(backlog) PROVE phase'[backlog[i]] = "queued"
      OBVIOUS
    <3>1. backlog[i] \in Peers /\ phase[backlog[i]] = "queued"
      BY <1>1, ElementOfSeq DEF PeersI, TypeOK
    <3> QED
      BY <1>12, <3>1
  <2> QED
    BY <1>1, <1>6, <2>1, <2>2, <2>3, <2>4 DEF PeersI
<1>20. InputI'
  <2>1. \A d \in Filled : FdOf(d.ud) # fd /\ FdOf(d.ud) \in Fds
    BY <1>15 DEF Filled, IsFilled, IsIo
  <2>2. \A g \in Fds : Open(g)' /\ (\A d \in Filled : FdOf(d.ud) # g) => Len(got[fdPeer'[g]]) = taken[fdPeer'[g]]
    BY <1>1, <1>12 DEF InputI
  <2>3. \A d \in Filled : fdPeer'[FdOf(d.ud)] = fdPeer[FdOf(d.ud)]
    BY <1>12, <2>1
  <2> QED
    BY <1>1, <1>6, <1>10, <2>2, <2>3 DEF InputI, InputIntact
<1>21. TypeOK'
  <2>1. fdPeer' \in [Fds -> Peers \cup {NoPeer}] /\ phase' \in [Peers -> {"idle", "queued", "open", "closed"}]
    BY <1>1, <1>6 DEF TypeOK
  <2> QED
    BY <1>1, <1>5, <1>6, <1>8, <1>9, <2>1 DEF TypeOK
<1> QED
  BY <1>13, <1>16, <1>17, <1>18, <1>19, <1>20, <1>21 DEF IInv

\* Taking the first of the backlog.
LEMMA BacklogTail ==
    ASSUME TypeOK, PeersI, backlog # << >>, backlog' = Tail(backlog)
    PROVE  /\ Head(backlog) \in Peers /\ phase[Head(backlog)] = "queued" /\ backlog' \in Seq(Peers)
           /\ \A i \in 1 .. Len(backlog') :
                 /\ backlog'[i] \in Peers /\ backlog'[i] # Head(backlog) /\ phase[backlog'[i]] = "queued"
                 /\ \A j \in 1 .. Len(backlog') : backlog'[i] = backlog'[j] => i = j
<1>1. backlog \in Seq(Peers) /\ Len(backlog) \in Nat
  BY LenProperties DEF TypeOK
<1>2. /\ backlog' \in Seq(Peers) /\ Len(backlog') = Len(backlog) - 1
      /\ \A i \in 1 .. Len(backlog') : backlog'[i] = backlog[i + 1]
  BY <1>1, HeadTailProperties
<1>3. Len(backlog) > 0
  BY <1>1, EmptySeq
<1>4. 1 \in 1 .. Len(backlog) /\ Head(backlog) = backlog[1] /\ Head(backlog) \in Peers
  BY <1>1, <1>3, ElementOfSeq
<1>5. \A i \in 1 .. Len(backlog') : i + 1 \in 1 .. Len(backlog) /\ i + 1 # 1
  BY <1>1, <1>2
<1>6. phase[Head(backlog)] = "queued"
  BY <1>4 DEF PeersI
<1>7. ASSUME NEW i \in 1 .. Len(backlog')
      PROVE  backlog'[i] \in Peers /\ backlog'[i] # Head(backlog) /\ phase[backlog'[i]] = "queued"
  <2>1. i + 1 \in 1 .. Len(backlog) /\ i + 1 # 1 /\ backlog'[i] = backlog[i + 1]
    BY <1>2, <1>5
  <2> QED
    BY <1>1, <1>4, <2>1, ElementOfSeq DEF PeersI
<1>8. ASSUME NEW i \in 1 .. Len(backlog'), NEW j \in 1 .. Len(backlog'), backlog'[i] = backlog'[j]
      PROVE  i = j
  <2>1. i + 1 = j + 1
    BY <1>2, <1>5, <1>8 DEF PeersI
  <2> QED
    BY <2>1
<1> QED
  BY <1>2, <1>4, <1>6, <1>7, <1>8

\* An accept opens a free fd, which nothing is about yet.
LEMMA KernelAcceptStep == ASSUME IInv, NEW e \in kern, KernelAccept(e) PROVE IInv'
<1>1. TypeOK /\ QueuesI /\ OwnersI /\ StatesI /\ RingI /\ PeersI /\ InputI
  BY DEF IInv
<1>2. e \in Sqes /\ OpOf(e.ud) = OP_ACCEPT /\ backlog # << >> /\ FreeFds # {} /\ NoBuf \in Bids \cup {NoBuf}
  BY <1>1 DEF TypeOK, KernelAccept
<1>3. PICK fd, p : fd = Min(FreeFds) /\ p = Head(backlog)
  OBVIOUS
<1>4. fd \in Fds /\ ~ Open(fd)
  <2>1. FreeFds \in SUBSET Nat
    BY FdFacts DEF FreeFds
  <2>2. fd \in FreeFds
    BY <1>2, <1>3, <2>1, MinIsLeast
  <2> QED
    BY <2>2 DEF FreeFds
<1>5. PICK more \in BOOLEAN : Complete(e, Cqe(e, fd, NoBuf, more))
  BY <1>3 DEF KernelAccept
<1>6. PICK c : c = Cqe(e, fd, NoBuf, more)
  OBVIOUS
<1>7. c \in Cqes /\ c.ud = e.ud /\ c.res = fd /\ c.buf = NoBuf
  <2>1. fd \in Int
    BY <1>4, FdFacts
  <2> QED
    BY <1>2, <1>5, <1>6, <2>1, CqeFacts DEF Cqe
<1>8. /\ fdPeer' = [fdPeer EXCEPT ![fd] = p] /\ phase' = [phase EXCEPT ![p] = "open"]
      /\ backlog' = Tail(backlog)
      /\ UNCHANGED <<stream, sent, taken, fin, rst, answered, got, khead, pool>>
  BY <1>3 DEF KernelAccept
<1>9. /\ kern' \in SUBSET kern /\ kern \ {e} \in SUBSET kern' /\ cq' = cq \cup {c}
      /\ UNCHANGED <<slots, tail, sq, conns, conn, accept_armed, batch, pc, shutdown, faults, lost>>
  BY <1>5, <1>6 DEF Complete, Post, loopVars
<1>10. FdOf(e.ud) = Listener
  <2>1. e.ud \in UserData
    BY <1>2 DEF Sqes
  <2> QED
    BY <1>2, <2>1, UserDataFacts
<1>11. Pend' = Pend
  BY <1>9, <1>10 DEF Pend
<1>12. IsNew(c) /\ ~ IsIo(c) /\ ~ IsFilled(c)
  BY <1>2, <1>4, <1>7, FdFacts, OpsDiffer DEF IsNew, IsIo, IsFilled, Fds
<1>13. Posted' = Posted \cup {c}
  BY <1>9, <1>12 DEF Posted, IsIo, IsNew
<1>14. Filled' = Filled
  BY <1>12, <1>13 DEF Filled, IsFilled
<1>15. /\ \A d \in Posted : /\ IsNew(d) => d.res # fd /\ d.res \in Fds
                            /\ IsIo(d) => FdOf(d.ud) # fd /\ FdOf(d.ud) \in Fds
       /\ \A f \in Pend : FdOf(f.ud) # fd /\ FdOf(f.ud) \in Fds
       /\ fd \notin conns
  BY <1>1, <1>4, QueueFacts DEF OwnersI
<1>16. c \notin Posted /\ c \notin batch
  BY <1>7, <1>12, <1>15 DEF Posted
<1>17. QueuesI'
  <2>1. IsFiniteSet(Posted')
    BY <1>1, <1>13, FS_AddElement DEF QueuesI
  <2>2. \A d \in Posted' : ~ (d \in cq' /\ d \in batch')
    BY <1>1, <1>9, <1>13, <1>16 DEF QueuesI
  <2>3. pc # "stopped"
    BY <1>1 DEF QueuesI
  <2>4. \A f \in Pend' : Apart(f)'
    BY <1>1, <1>9, <1>11 DEF QueuesI, Apart
  <2> QED
    BY <1>1, <1>9, <2>1, <2>2, <2>3, <2>4 DEF QueuesI, Apart
<1>18. /\ p \in Peers /\ phase[p] = "queued" /\ backlog' \in Seq(Peers)
       /\ \A i \in 1 .. Len(backlog') :
             /\ backlog'[i] \in Peers /\ backlog'[i] # p /\ phase[backlog'[i]] = "queued"
             /\ \A j \in 1 .. Len(backlog') : backlog'[i] = backlog'[j] => i = j
  BY <1>1, <1>2, <1>3, <1>8, BacklogTail
<1>19. /\ \A g \in Fds : g # fd => fdPeer'[g] = fdPeer[g] /\ (Open(g)' <=> Open(g))
       /\ fdPeer'[fd] = p /\ Open(fd)'
       /\ \A q \in Peers : q # p => phase'[q] = phase[q]
       /\ phase'[p] = "open"
  BY <1>1, <1>4, <1>8, <1>18, IoUringAssumption DEF TypeOK, Open
<1>20. OwnersI'
  <2>1. \A d \in Posted' : /\ IsNew(d) => d.res \in Fds /\ Open(d.res)' /\ d.res \notin conns'
                           /\ IsIo(d) => FdOf(d.ud) \in conns'
    BY <1>1, <1>4, <1>7, <1>9, <1>12, <1>13, <1>15, <1>19 DEF OwnersI
  <2>2. \A f \in Pend' : Open(FdOf(f.ud))' /\ (IsIo(f) <=> FdOf(f.ud) \in conns')
    BY <1>1, <1>9, <1>11, <1>15, <1>19 DEF OwnersI
  <2>3. \A g \in conns' : /\ Open(g)'
                          /\ \/ \E f \in Pend' : FdOf(f.ud) = g
                             \/ \E d \in Posted' : IsIo(d) /\ FdOf(d.ud) = g
    <3> SUFFICES ASSUME NEW g \in conns
                 PROVE  /\ Open(g)'
                        /\ \/ \E f \in Pend' : FdOf(f.ud) = g
                           \/ \E d \in Posted' : IsIo(d) /\ FdOf(d.ud) = g
      BY <1>9
    <3>1. g \in Fds /\ g # fd
      BY <1>1, <1>15 DEF TypeOK
    <3> QED
      BY <1>1, <1>11, <1>13, <1>19, <3>1 DEF OwnersI
  <2>4. \A g \in Fds : Open(g)' => \/ g \in conns'
                                   \/ \E f \in Pend' : FdOf(f.ud) = g
                                   \/ \E d \in Posted' : IsNew(d) /\ d.res = g
    <3> SUFFICES ASSUME NEW g \in Fds, Open(g)'
                 PROVE  \/ g \in conns'
                        \/ \E f \in Pend' : FdOf(f.ud) = g
                        \/ \E d \in Posted' : IsNew(d) /\ d.res = g
      OBVIOUS
    <3>1. CASE g = fd
      BY <1>7, <1>12, <1>13, <3>1
    <3>2. CASE g # fd
      BY <1>1, <1>9, <1>11, <1>13, <1>19, <3>2 DEF OwnersI
    <3> QED
      BY <3>1, <3>2
  <2>5. \A d \in Posted', f \in Pend' : /\ IsIo(d)  => FdOf(f.ud) # FdOf(d.ud)
                                        /\ IsNew(d) => FdOf(f.ud) # d.res
    BY <1>1, <1>7, <1>11, <1>12, <1>13, <1>15 DEF OwnersI
  <2>6. /\ \A f, g \in Pend' : FdOf(f.ud) = FdOf(g.ud) => f = g
        /\ \A d, b \in Posted' : /\ IsIo(d) /\ IsIo(b) /\ FdOf(d.ud) = FdOf(b.ud) => d = b
                                 /\ IsNew(d) /\ IsNew(b) /\ d.res = b.res => d = b
    BY <1>1, <1>7, <1>11, <1>12, <1>13, <1>15 DEF OwnersI
  <2> QED
    BY <2>1, <2>2, <2>3, <2>4, <2>5, <2>6 DEF OwnersI, IsIo, IsNew
<1>21. StatesI'
  <2>1. OpOf(c.ud) # OP_RECV /\ OpOf(c.ud) # OP_SEND
    BY <1>2, <1>7, OpsDiffer
  <2> QED
    BY <1>1, <1>9, <1>11, <1>13, <2>1 DEF StatesI
<1>22. RingI'
  BY <1>1, <1>7, <1>8, <1>9, <1>12, <1>14, RingFrame
<1>23. PeersI'
  <2>1. \A q \in Peers : phase'[q] \in {"idle", "queued"} => taken[q] = 0 /\ got[q] = << >>
    BY <1>1, <1>19 DEF PeersI
  <2>2. \A g \in Fds : Open(g) => fdPeer[g] # p /\ fdPeer[g] \in Peers
    BY <1>1, <1>18 DEF PeersI, Open, TypeOK
  <2>3. \A g \in Fds : Open(g)' => phase'[fdPeer'[g]] = "open"
    BY <1>1, <1>19, <2>2 DEF PeersI
  <2>4. \A g, h \in Fds : Open(g)' /\ fdPeer'[g] = fdPeer'[h] => g = h
    <3> SUFFICES ASSUME NEW g \in Fds, NEW h \in Fds, Open(g)', fdPeer'[g] = fdPeer'[h] PROVE g = h
      OBVIOUS
    <3>1. Open(h)'
      BY DEF Open
    <3> QED
      BY <1>1, <1>19, <2>2, <3>1 DEF PeersI
  <2>5. \A i \in 1 .. Len(backlog') : phase'[backlog'[i]] = "queued"
    BY <1>18, <1>19
  <2> QED
    BY <1>1, <1>8, <1>18, <2>1, <2>3, <2>4, <2>5 DEF PeersI
<1>24. InputI'
  <2>1. \A d \in Filled : FdOf(d.ud) # fd /\ FdOf(d.ud) \in Fds
    BY <1>15 DEF Filled, IsFilled, IsIo
  <2>2. Len(got[p]) = taken[p]
    <3>1. got[p] = << >> /\ taken[p] = 0
      BY <1>1, <1>18 DEF PeersI
    <3> QED
      BY <3>1
  <2>3. \A g \in Fds : Open(g)' /\ (\A d \in Filled : FdOf(d.ud) # g) => Len(got[fdPeer'[g]]) = taken[fdPeer'[g]]
    BY <1>1, <1>19, <2>2 DEF InputI
  <2>4. \A d \in Filled : fdPeer'[FdOf(d.ud)] = fdPeer[FdOf(d.ud)]
    BY <1>19, <2>1
  <2> QED
    BY <1>1, <1>8, <1>14, <2>3, <2>4 DEF InputI, InputIntact
<1>25. TypeOK'
  <2>1. fdPeer' \in [Fds -> Peers \cup {NoPeer}] /\ phase' \in [Peers -> {"idle", "queued", "open", "closed"}]
    BY <1>1, <1>8, <1>18 DEF TypeOK
  <2> QED
    BY <1>1, <1>7, <1>8, <1>9, <1>18, <2>1 DEF TypeOK
<1> QED
  BY <1>17, <1>20, <1>21, <1>22, <1>23, <1>24, <1>25 DEF IInv

\* The queues move, and with them no operation or completion of a connection.
LEMMA QueueStep ==
    ASSUME IInv, Pend' = Pend, Posted' = Posted,
           \A f \in Pend' : Apart(f)', \A d \in Posted' : ~ (d \in cq' /\ d \in batch'),
           (sq \cup kern \cup lost)' \in SUBSET Sqes, (cq \cup batch)' \in SUBSET Cqes,
           \A c \in (cq \cup batch)' : c \in cq \cup batch \/ (c.buf = NoBuf /\ ~ IsFilled(c)),
           UNCHANGED <<sockVars, kernVars, slots, tail, conns, conn>>,
           accept_armed' \in BOOLEAN, shutdown' \in BOOLEAN, faults' \in 0 .. MaxFaults,
           pc # "stopped", pc' \in {"top", "enter", "collect"}, pc' # "top" => batch' = {}
    PROVE  IInv'
<1>1. TypeOK /\ QueuesI /\ OwnersI /\ StatesI /\ RingI /\ PeersI /\ InputI
  BY DEF IInv
<1>2. UNCHANGED <<stream, phase, backlog, sent, taken, fin, rst, answered, got, fdPeer, khead, pool>>
  BY DEF sockVars, peerVars, kernVars
<1>3. Filled' = Filled
  BY DEF Filled, IsFilled
<1>4. TypeOK'
  BY <1>1, <1>2, TypeFrame
<1>5. QueuesI'
  BY <1>1 DEF QueuesI, Apart
<1>6. OwnersI' /\ StatesI'
  BY <1>1, <1>2, OwnersFrame, StatesFrame
<1>7. RingI'
  BY <1>1, <1>2, <1>3, RingFrame
<1>8. PeersI' /\ InputI'
  BY <1>1, <1>2, <1>3, PeersFrame, InputFrame
<1> QED
  BY <1>4, <1>5, <1>6, <1>7, <1>8 DEF IInv

LEMMA KernelAcceptFailsStep == ASSUME IInv, NEW e \in kern, KernelAcceptFails(e) PROVE IInv'
<1>1. TypeOK /\ QueuesI
  BY DEF IInv
<1>2. e \in Sqes /\ OpOf(e.ud) = OP_ACCEPT /\ NoBuf \in Bids \cup {NoBuf}
  BY <1>1 DEF TypeOK, KernelAcceptFails
<1>3. PICK c : c = Cqe(e, EMFILE, NoBuf, FALSE)
  OBVIOUS
<1>4. c \in Cqes /\ c.ud = e.ud /\ c.res = EMFILE /\ c.buf = NoBuf /\ ~ c.more /\ EMFILE < 0
  <2>1. EMFILE \in Int /\ EMFILE < 0
    BY DEF EMFILE
  <2> QED
    BY <1>2, <1>3, <2>1, LastCqe DEF Cqe
<1>5. /\ kern' = kern \ {e} /\ cq' = cq \cup {c}
      /\ UNCHANGED <<slots, tail, sq, sockVars, kernVars, conns, conn, accept_armed, batch, pc, shutdown, lost>>
  BY <1>3, <1>4 DEF KernelAcceptFails, Post
<1>6. FdOf(e.ud) = Listener
  <2>1. e.ud \in UserData
    BY <1>2 DEF Sqes
  <2> QED
    BY <1>2, <2>1, UserDataFacts
<1>7. ~ IsIo(c) /\ ~ IsNew(c) /\ ~ IsFilled(c)
  <2>1. EMFILE \in Int
    BY DEF EMFILE
  <2> QED
    BY <1>2, <1>4, <2>1, OpsDiffer DEF IsIo, IsNew, IsFilled
<1>8. Pend' = Pend
  BY <1>5, <1>6 DEF Pend
<1>9. Posted' = Posted /\ c \notin Posted
  BY <1>5, <1>7 DEF Posted, IsIo, IsNew
<1>10. \A f \in Pend' : Apart(f)'
  BY <1>1, <1>5, <1>8 DEF QueuesI, Apart
<1>11. \A d \in Posted' : ~ (d \in cq' /\ d \in batch')
  BY <1>1, <1>5, <1>9 DEF QueuesI
<1>12. faults' \in 0 .. MaxFaults
  BY <1>1, IoUringAssumption DEF TypeOK, KernelAcceptFails
<1>13. (sq \cup kern \cup lost)' \in SUBSET Sqes /\ (cq \cup batch)' \in SUBSET Cqes
  BY <1>1, <1>4, <1>5 DEF TypeOK
<1>14. /\ accept_armed' \in BOOLEAN /\ shutdown' \in BOOLEAN /\ pc # "stopped"
       /\ pc' \in {"top", "enter", "collect"} /\ (pc' # "top" => batch' = {})
  BY <1>1, <1>5 DEF TypeOK, QueuesI
<1>15. \A d \in (cq \cup batch)' : d \in cq \cup batch \/ (d.buf = NoBuf /\ ~ IsFilled(d))
  BY <1>4, <1>5, <1>7
<1> QED
  BY <1>5, <1>8, <1>9, <1>10, <1>11, <1>12, <1>13, <1>14, <1>15, QueueStep

-----------------------------------------------------------------------------
(* The loop *)

\* An accept is pushed, unless one is armed.
LEMMA TopStep == ASSUME IInv, Top PROVE IInv'
<1>1. TypeOK /\ QueuesI
  BY DEF IInv
<1>2. /\ pc = "top" /\ batch = {} /\ pc' = "enter"
      /\ UNCHANGED <<sockVars, kernVars, cq, slots, tail, conns, conn, batch, shutdown>>
  BY DEF Top
<1>3. /\ Pend' = Pend /\ (\A f \in Pend' : Apart(f)')
      /\ (sq \cup kern \cup lost)' \in SUBSET Sqes /\ faults' \in 0 .. MaxFaults
  <2>1. CASE accept_armed
    <3>1. UNCHANGED <<sq, kern, faults, lost>>
      BY <2>1 DEF Top, NoPush
    <3> QED
      BY <1>1, <3>1 DEF Pend, QueuesI, Apart, TypeOK
  <2>2. CASE ~ accept_armed
    <3>1. PICK e : e = Sqe(OP_ACCEPT, Listener, 0)
      OBVIOUS
    <3>2. push(e)
      BY <2>2, <3>1 DEF Top
    <3>3. e \in Sqes /\ FdOf(e.ud) = Listener
      BY <3>1, AcceptSqe
    <3> QED
      BY <1>1, <3>2, <3>3, PushOp
  <2> QED
    BY <2>1, <2>2
<1>4. accept_armed' \in BOOLEAN
  <2>1. accept_armed' = accept_armed \/ accept_armed' = (faults' = faults)
    BY Zenon DEF Top
  <2>2. accept_armed \in BOOLEAN
    BY <1>1 DEF TypeOK
  <2> QED
    BY <2>1, <2>2, Zenon
<1>5. Posted' = Posted
  BY <1>2 DEF Posted, IsIo, IsNew
<1>6. \A d \in Posted' : ~ (d \in cq' /\ d \in batch')
  BY <1>2
<1>7. (cq \cup batch)' = cq \cup batch /\ cq \cup batch \in SUBSET Cqes /\ shutdown' \in BOOLEAN
  BY <1>1, <1>2 DEF TypeOK
<1>8. pc # "stopped" /\ pc' \in {"top", "enter", "collect"} /\ (pc' # "top" => batch' = {})
  BY <1>2
<1> QED
  BY <1>2, <1>3, <1>4, <1>5, <1>6, <1>7, <1>8, QueueStep

\* What is submitted moves to the kernel.
LEMMA EnterStep == ASSUME IInv, Enter PROVE IInv'
<1>1. TypeOK /\ QueuesI
  BY DEF IInv
<1>2. /\ pc = "enter" /\ pc' = "collect" /\ kern' = kern \cup sq /\ sq' = {}
      /\ UNCHANGED <<sockVars, kernVars, cq, slots, tail, conns, conn, accept_armed, batch, shutdown, faults, lost>>
  BY DEF Enter
<1>3. Pend' = Pend /\ Posted' = Posted
  BY <1>2 DEF Pend, Posted, IsIo, IsNew
<1>4. \A f \in Pend' : Apart(f)'
  BY <1>1, <1>2, <1>3 DEF QueuesI, Apart
<1>5. batch = {} /\ batch' = {}
  BY <1>1, <1>2 DEF QueuesI
<1>6. /\ (sq \cup kern \cup lost)' \in SUBSET Sqes /\ (cq \cup batch)' = cq \cup batch
      /\ cq \cup batch \in SUBSET Cqes /\ shutdown' \in BOOLEAN /\ faults' \in 0 .. MaxFaults
  BY <1>1, <1>2 DEF TypeOK
<1>7. accept_armed' \in BOOLEAN
  BY <1>1, <1>2 DEF TypeOK
<1>8. pc # "stopped" /\ pc' \in {"top", "enter", "collect"}
  BY <1>2
<1> QED
  BY <1>2, <1>3, <1>4, <1>5, <1>6, <1>7, <1>8, QueueStep

LEMMA EnterInterruptedStep == ASSUME IInv, EnterInterrupted PROVE IInv'
<1>1. TypeOK /\ QueuesI
  BY DEF IInv
<1>2. /\ pc = "enter" /\ pc' = "top" /\ UNCHANGED <<kern, cq, slots, tail, sq>>
      /\ UNCHANGED <<sockVars, kernVars, conns, conn, accept_armed, batch, shutdown, faults, lost>>
  BY DEF EnterInterrupted, ringVars
<1>3. Pend' = Pend /\ Posted' = Posted
  BY <1>2 DEF Pend, Posted, IsIo, IsNew
<1>4. (\A f \in Pend' : Apart(f)') /\ (\A d \in Posted' : ~ (d \in cq' /\ d \in batch'))
  BY <1>1, <1>2, <1>3 DEF QueuesI, Apart
<1>5. /\ (sq \cup kern \cup lost)' \in SUBSET Sqes /\ (cq \cup batch)' = cq \cup batch
      /\ cq \cup batch \in SUBSET Cqes /\ shutdown' \in BOOLEAN /\ faults' \in 0 .. MaxFaults
  BY <1>1, <1>2 DEF TypeOK
<1>6. accept_armed' \in BOOLEAN
  BY <1>1, <1>2 DEF TypeOK
<1>7. pc # "stopped" /\ pc' \in {"top", "enter", "collect"} /\ (pc' # "top" => batch' = {})
  BY <1>2
<1> QED
  BY <1>2, <1>3, <1>4, <1>5, <1>6, <1>7, QueueStep

\* The completions posted become the batch.
LEMMA DrainStep == ASSUME IInv, drain_cqes PROVE IInv'
<1>1. TypeOK /\ QueuesI
  BY DEF IInv
<1>2. /\ pc = "collect" /\ pc' = "top" /\ batch' = cq /\ cq' = {}
      /\ UNCHANGED <<sockVars, kernVars, kern, slots, tail, sq, conns, conn, accept_armed, shutdown, faults, lost>>
  BY DEF drain_cqes
<1>3. batch = {}
  BY <1>1, <1>2 DEF QueuesI
<1>4. Pend' = Pend /\ (cq \cup batch)' = cq \cup batch
  BY <1>2, <1>3 DEF Pend
<1>5. Posted' = Posted
  BY <1>4 DEF Posted, IsIo, IsNew
<1>6. (\A f \in Pend' : Apart(f)') /\ (\A d \in Posted' : ~ (d \in cq' /\ d \in batch'))
  BY <1>1, <1>2, <1>4 DEF QueuesI, Apart
<1>7. /\ (sq \cup kern \cup lost)' \in SUBSET Sqes
      /\ cq \cup batch \in SUBSET Cqes /\ shutdown' \in BOOLEAN /\ faults' \in 0 .. MaxFaults
  BY <1>1, <1>2 DEF TypeOK
<1>8. accept_armed' \in BOOLEAN
  BY <1>1, <1>2 DEF TypeOK
<1>9. pc # "stopped" /\ pc' \in {"top", "enter", "collect"} /\ (pc' # "top" => batch' = {})
  BY <1>2
<1> QED
  BY <1>2, <1>4, <1>5, <1>6, <1>7, <1>8, <1>9, QueueStep

\* The end of run leaves no fd open.
LEMMA StopStep == ASSUME IInv, Stop PROVE IInv'
<1>1. TypeOK /\ QueuesI /\ RingI /\ PeersI /\ InputI
  BY DEF IInv
<1>2. /\ pc' = "stopped" /\ batch = {} /\ batch' = {} /\ sq' = {} /\ kern' = {} /\ cq' = {} /\ lost' = {}
      /\ conns' = {} /\ conn' = [fd \in Fds |-> New] /\ fdPeer' = [fd \in Fds |-> NoPeer]
      /\ phase' = [c \in Peers |-> IF phase[c] = "idle" THEN "idle" ELSE "closed"] /\ backlog' = << >>
      /\ accept_armed' = FALSE
      /\ UNCHANGED <<stream, sent, fin, rst, taken, answered, got, khead, pool, slots, tail, shutdown, faults>>
  BY DEF Stop
<1>3. Pend' = {} /\ (cq \cup batch)' = {}
  BY <1>2 DEF Pend
<1>4. Posted' = {} /\ Filled' = {}
  BY <1>3 DEF Posted, Filled
<1>5. \A fd \in Fds : ~ Open(fd)'
  BY <1>2 DEF Open
<1>6. TypeOK'
  <2>1. New \in Connections
    BY NewType DEF WellFormed
  <2>2. conn' \in [Fds -> Connections] /\ fdPeer' \in [Fds -> Peers \cup {NoPeer}] /\ backlog' \in Seq(Peers)
    BY <1>2, <2>1
  <2>3. phase' \in [Peers -> {"idle", "queued", "open", "closed"}]
    BY <1>2
  <2> QED
    BY <1>1, <1>2, <2>2, <2>3 DEF TypeOK
<1>7. QueuesI'
  BY <1>2, <1>3, <1>4, FS_EmptySet DEF QueuesI
<1>8. OwnersI'
  BY <1>2, <1>3, <1>4, <1>5 DEF OwnersI
<1>9. StatesI'
  BY <1>2, <1>3, <1>4 DEF StatesI
<1>10. RingI'
  <2>1. BufsInRing' = BufsInRing /\ \A i : Slot(i)' = Slot(i)
    BY <1>2 DEF BufsInRing, Slot
  <2> QED
    BY <1>1, <1>2, <1>3, <1>4, <2>1 DEF RingI
<1>11. PeersI'
  <2>1. \A c \in Peers : phase'[c] \in {"idle", "queued"} => phase[c] = "idle"
    BY <1>2
  <2>2. \A i \in 1 .. Len(backlog') : FALSE
    BY <1>2
  <2> QED
    BY <1>1, <1>2, <1>5, <2>1, <2>2 DEF PeersI
<1>12. InputI'
  BY <1>1, <1>2, <1>4, <1>5 DEF InputI, InputIntact
<1> QED
  BY <1>6, <1>7, <1>8, <1>9, <1>10, <1>11, <1>12 DEF IInv

-----------------------------------------------------------------------------
(* Peers and the operator *)

\* A peer that was idle joins the backlog, at its end.
LEMMA ConnectBacklog ==
    ASSUME TypeOK, PeersI, NEW p \in Peers, phase[p] = "idle", backlog' = Append(backlog, p)
    PROVE  /\ backlog' \in Seq(Peers)
           /\ \A i \in 1 .. Len(backlog') :
                 /\ backlog'[i] = p \/ phase[backlog'[i]] = "queued"
                 /\ \A j \in 1 .. Len(backlog') : backlog'[i] = backlog'[j] => i = j
<1>1. PICK n : n = Len(backlog)
  OBVIOUS
<1>2. backlog \in Seq(Peers) /\ n \in Nat
  BY <1>1, LenProperties DEF TypeOK
<1>3. /\ backlog' \in Seq(Peers) /\ Len(backlog') = n + 1 /\ backlog'[n + 1] = p
      /\ \A i \in 1 .. n : backlog'[i] = backlog[i]
  BY <1>1, <1>2, AppendProperties
<1>4. \A i \in 1 .. n : phase[backlog[i]] = "queued" /\ \A j \in 1 .. n : backlog[i] = backlog[j] => i = j
  BY <1>1 DEF PeersI
<1>5. \A i \in 1 .. n : backlog'[i] # p /\ phase[backlog'[i]] = "queued"
  BY <1>3, <1>4
<1>6. \A i \in 1 .. n + 1 : i = n + 1 \/ i \in 1 .. n
  BY <1>2
<1> QED
  BY <1>3, <1>4, <1>5, <1>6

\* What a peer does changes only its own side of the connection.
LEMMA PeerStep == ASSUME IInv, NEW p \in Peers, Peer(p) PROVE IInv'
<1>1. TypeOK /\ QueuesI /\ OwnersI /\ StatesI /\ RingI /\ PeersI /\ InputI
  BY DEF IInv
<1>2. /\ UNCHANGED <<taken, answered, got, fdPeer, khead, pool, kern, cq, slots, tail, sq>>
      /\ UNCHANGED <<conns, conn, accept_armed, batch, pc, shutdown, faults, lost>>
      /\ stream' = stream
  BY DEF Peer, Connect, PeerSend, PeerShutdown, PeerReset, kernVars, ringVars, loopVars
<1>3. Pend' = Pend /\ Posted' = Posted
  BY <1>2 DEF Pend, Posted, IsIo, IsNew
<1>4. Filled' = Filled
  BY <1>3 DEF Filled, IsFilled
<1>5. QueuesI'
  BY <1>1, <1>2, <1>3 DEF QueuesI
<1>6. OwnersI' /\ StatesI'
  BY <1>1, <1>2, <1>3, OwnersFrame, StatesFrame
<1>7. RingI' /\ InputI'
  BY <1>1, <1>2, <1>4, RingFrame, InputFrame
<1>8. /\ stream[p] \in Seq(Units) /\ Len(stream[p]) \in Nat /\ sent[p] \in Nat /\ taken[p] \in Nat
      /\ taken[p] <= sent[p]
  BY <1>1, IoUringAssumption DEF TypeOK, PeersI
<1>9. CASE Connect(p)
  <2>1. /\ phase[p] = "idle" /\ phase' = [phase EXCEPT ![p] = "queued"]
        /\ backlog' = Append(backlog, p) /\ UNCHANGED <<sent, fin, rst>>
    BY <1>9 DEF Connect
  <2>2. /\ backlog' \in Seq(Peers)
        /\ \A i \in 1 .. Len(backlog') :
              /\ backlog'[i] = p \/ phase[backlog'[i]] = "queued"
              /\ \A j \in 1 .. Len(backlog') : backlog'[i] = backlog'[j] => i = j
    BY <1>1, <2>1, ConnectBacklog
  <2>3. /\ phase' \in [Peers -> {"idle", "queued", "open", "closed"}] /\ phase'[p] = "queued"
        /\ \A q \in Peers : q # p => phase'[q] = phase[q]
    BY <1>1, <2>1 DEF TypeOK
  <2>4. \A i \in 1 .. Len(backlog') : backlog'[i] \in Peers /\ phase'[backlog'[i]] = "queued"
    <3>1. \A i \in 1 .. Len(backlog') : backlog'[i] \in Peers
      BY <2>2, ElementOfSeq
    <3> QED
      BY <2>2, <2>3, <3>1
  <2>5. \A fd \in Fds : Open(fd) => fdPeer[fd] \in Peers /\ fdPeer[fd] # p /\ phase'[fdPeer[fd]] = "open"
    BY <1>1, <2>1, <2>3 DEF PeersI, Open, TypeOK
  <2>6. \A q \in Peers : phase'[q] \in {"idle", "queued"} => taken[q] = 0 /\ got[q] = << >>
    BY <1>1, <2>1, <2>3 DEF PeersI
  <2>7. PeersI'
    BY <1>1, <1>2, <2>1, <2>2, <2>4, <2>5, <2>6 DEF PeersI, Open
  <2>8. TypeOK'
    BY <1>1, <1>2, <2>1, <2>2, <2>3 DEF TypeOK
  <2> QED
    BY <1>5, <1>6, <1>7, <2>7, <2>8 DEF IInv
<1>10. CASE PeerSend(p)
  <2>1. /\ sent[p] < Len(stream[p]) /\ sent' = [sent EXCEPT ![p] = @ + 1]
        /\ UNCHANGED <<phase, backlog, fin, rst>>
    BY <1>10 DEF PeerSend
  <2>2. /\ sent' \in [Peers -> Nat] /\ taken[p] <= sent'[p] /\ sent'[p] <= Len(stream[p])
        /\ \A q \in Peers : q # p => sent'[q] = sent[q]
    BY <1>1, <1>8, <2>1 DEF TypeOK
  <2>3. PeersI'
    BY <1>1, <1>2, <2>1, <2>2 DEF PeersI, Open
  <2>4. TypeOK'
    BY <1>1, <1>2, <2>1, <2>2 DEF TypeOK
  <2> QED
    BY <1>5, <1>6, <1>7, <2>3, <2>4 DEF IInv
<1>11. CASE PeerShutdown(p) \/ PeerReset(p)
  <2>1. UNCHANGED <<phase, backlog, sent>>
    BY <1>11 DEF PeerShutdown, PeerReset
  <2>2. fin' \in [Peers -> BOOLEAN] /\ rst' \in [Peers -> BOOLEAN]
    BY <1>1, <1>11 DEF PeerShutdown, PeerReset, TypeOK
  <2>3. PeersI'
    BY <1>1, <1>2, <2>1, PeersFrame
  <2>4. TypeOK'
    BY <1>1, <1>2, <2>1, <2>2 DEF TypeOK
  <2> QED
    BY <1>5, <1>6, <1>7, <2>3, <2>4 DEF IInv
<1> QED
  BY <1>9, <1>10, <1>11 DEF Peer

\* The flag is set.
LEMMA SignalStep == ASSUME IInv, Signal PROVE IInv'
<1>1. TypeOK /\ QueuesI /\ OwnersI /\ StatesI /\ RingI /\ PeersI /\ InputI
  BY DEF IInv
<1>2. /\ UNCHANGED <<stream, phase, backlog, sent, fin, rst, taken, answered, got>>
      /\ UNCHANGED <<fdPeer, khead, pool, kern, cq, slots, tail, sq>>
      /\ UNCHANGED <<conns, conn, accept_armed, batch, pc, faults, lost>>
  BY DEF Signal, sockVars, peerVars, kernVars, ringVars
<1>3. Pend' = Pend /\ Posted' = Posted
  BY <1>2 DEF Pend, Posted, IsIo, IsNew
<1>4. Filled' = Filled
  BY <1>3 DEF Filled, IsFilled
<1>5. QueuesI'
  BY <1>1, <1>2, <1>3 DEF QueuesI
<1>6. OwnersI' /\ StatesI' /\ RingI' /\ PeersI' /\ InputI'
  BY <1>1, <1>2, <1>3, <1>4, OwnersFrame, StatesFrame, RingFrame, PeersFrame, InputFrame
<1>7. shutdown' \in BOOLEAN
  BY Zenon DEF Signal
<1>8. TypeOK'
  BY <1>1, <1>2, <1>7 DEF TypeOK
<1> QED
  BY <1>5, <1>6, <1>8 DEF IInv

-----------------------------------------------------------------------------
(* The theorem *)

LEMMA StepIInv == ASSUME IInv, [Next]_vars PROVE IInv'
<1>1. ASSUME NEW c \in Peers, Peer(c) PROVE IInv'
  BY <1>1, PeerStep
<1>2. ASSUME Signal PROVE IInv'
  BY <1>2, SignalStep
<1>3. ASSUME NEW e \in kern, Kernel(e) PROVE IInv'
  BY <1>3, KernelAcceptStep, KernelAcceptFailsStep, KernelRecvStep, KernelRecvFailsStep,
     KernelSendStep, KernelCloseStep DEF Kernel
<1>4. ASSUME run PROVE IInv'
  BY <1>4, TopStep, EnterStep, EnterInterruptedStep, DrainStep, StopStep,
     OnAcceptStep, OnRecvStep, OnSendStep, OnCloseStep DEF run
<1>5. ASSUME UNCHANGED vars PROVE IInv'
  <2>1. /\ UNCHANGED <<stream, phase, backlog, sent, fin, rst, taken, answered, got>>
        /\ UNCHANGED <<fdPeer, khead, pool, kern, cq, slots, tail, sq>>
        /\ UNCHANGED <<conns, conn, accept_armed, batch, pc, shutdown, faults, lost>>
    BY <1>5 DEF vars, sockVars, peerVars, kernVars, ringVars, loopVars
  <2>2. Pend' = Pend /\ Posted' = Posted
    BY <2>1 DEF Pend, Posted, IsIo, IsNew
  <2>3. Filled' = Filled
    BY <2>2 DEF Filled, IsFilled
  <2>4. QueuesI' /\ TypeOK'
    BY <2>1, <2>2 DEF IInv, QueuesI, TypeOK
  <2> QED
    BY <2>1, <2>2, <2>3, <2>4, OwnersFrame, StatesFrame, RingFrame, PeersFrame, InputFrame DEF IInv
<1> QED
  BY <1>1, <1>2, <1>3, <1>4, <1>5 DEF Next

\* The queues, the table, the buffer ring and the peers' input of the io_uring
\* runtime stay consistent in every state run can reach, whatever the order of
\* the completions and whichever submissions fail.
THEOREM IoUringInvariant == Spec => []IInv
<1>1. Init => IInv
  BY InitIInv
<1>2. IInv /\ [Next]_vars => IInv'
  BY StepIInv
<1> QED
  BY <1>1, <1>2, PTL DEF Spec

\* Every variable stays in its domain: no completion carries a buffer index,
\* an fd or a kind of operation that the runtime does not know.
THEOREM IoUringTypeCorrect == Spec => []TypeOK
<1>1. IInv => TypeOK
  BY DEF IInv
<1> QED
  BY <1>1, IoUringInvariant, PTL

\* What a connection is fed is what its own peer sent, in order and without
\* gaps (on_recv, BufRing::bytes_ptr).
THEOREM InputAlwaysIntact == Spec => []InputIntact
<1>1. IInv => InputIntact
  BY DEF IInv, InputI
<1> QED
  BY <1>1, IoUringInvariant, PTL

\* The bytes of a send in flight stay those that were submitted: push's safety
\* comment.
THEOREM SendBuffersStable == Spec => []SendBufferStable
<1>1. ASSUME IInv PROVE SendBufferStable
  <2> SUFFICES ASSUME NEW e \in sq \cup kern, OpOf(e.ud) = OP_SEND
               PROVE  FdOf(e.ud) \in conns /\ PendingWrite(conn[FdOf(e.ud)]) = e.len
    BY DEF SendBufferStable
  <2>1. e.ud \in UserData
    BY <1>1 DEF IInv, TypeOK, Sqes
  <2>2. e \in Pend
    BY <2>1, UserDataFacts, OpsDiffer DEF Pend
  <2>3. FdOf(e.ud) \in conns
    BY <1>1, <2>2 DEF IInv, OwnersI, IsIo
  <2>4. conn[FdOf(e.ud)].state = "Writing" /\ conn[FdOf(e.ud)].pending = e.len
    BY <1>1, <2>2 DEF IInv, StatesI
  <2> QED
    BY <2>3, <2>4 DEF PendingWrite
<1> QED
  BY <1>1, IoUringInvariant, PTL

\* Each completion that holds a buffer is of a connection of its own, and a
\* connection that waits for a receive has none.
LEMMA FewerFilled ==
    ASSUME IInv, NEW e \in kern, OpOf(e.ud) = OP_RECV
    PROVE  /\ Cardinality(Filled) \in Nat /\ Cardinality(conns) \in Nat
           /\ Cardinality(Filled) < Cardinality(conns)
<1> DEFINE fd == FdOf(e.ud)
           others == conns \ {fd}
           at == [c \in Filled |-> FdOf(c.ud)]
<1>1. TypeOK /\ OwnersI
  BY DEF IInv
<1>2. e \in Pend /\ IsIo(e)
  <2>1. e.ud \in UserData
    BY <1>1 DEF TypeOK, Sqes
  <2> QED
    BY <2>1, UserDataFacts, OpsDiffer DEF Pend, IsIo
<1>3. fd \in conns
  BY <1>1, <1>2 DEF OwnersI
<1>4. \A c \in Filled : c \in Posted /\ IsIo(c)
  BY DEF Filled, IsFilled, IsIo
<1>5. \A c \in Filled : FdOf(c.ud) \in conns /\ FdOf(c.ud) # fd
  BY <1>1, <1>2, <1>4 DEF OwnersI
<1>6. \A c, d \in Filled : FdOf(c.ud) = FdOf(d.ud) => c = d
  BY <1>1, <1>4 DEF OwnersI
<1>7. IsFiniteSet(conns)
  <2>1. NumFds \in Nat
    BY IoUringAssumption
  <2>2. IsFiniteSet(Fds) /\ conns \in SUBSET Fds
    BY <1>1, <2>1, FS_Interval DEF Fds, TypeOK
  <2> QED
    BY <2>2, FS_Subset
<1>8. IsFiniteSet(others) /\ Cardinality(others) = Cardinality(conns) - 1
  BY <1>3, <1>7, FS_RemoveElement
<1>9. at \in Injection(Filled, others)
  <2>1. at \in [Filled -> others]
    BY <1>5
  <2>2. \A c, d \in Filled : at[c] = at[d] => c = d
    BY <1>6
  <2> QED
    BY <2>1, <2>2 DEF Injection, IsInjective
<1> HIDE DEF others, at
<1>10. IsFiniteSet(Filled) /\ Cardinality(Filled) <= Cardinality(others)
  BY <1>8, <1>9, FS_Injection
<1>11. Cardinality(Filled) \in Nat /\ Cardinality(conns) \in Nat
  BY <1>7, <1>10, FS_CardinalityType
<1> QED
  BY <1>8, <1>10, <1>11

\* Until the stop every buffer is in the ring or in one completion, through
\* every wrap of the u16 tail (BufRing::stage, commit), and a receive in flight
\* finds one while there are no more connections than buffers.
THEOREM BuffersAlwaysConserved == Spec => []BuffersConserved
<1>1. ASSUME IInv PROVE BuffersConserved
  <2> DEFINE held == {e \in cq \cup batch : e.buf # NoBuf}
             ring == {slots[(khead + i) % NumBufs] : i \in 0 .. BufsInRing - 1}
  <2> SUFFICES ASSUME pc # "stopped"
               PROVE  /\ BufsInRing + Cardinality(held) = NumBufs
                      /\ ring \cup {e.buf : e \in held} = Bids
                      /\ Cardinality(conns) <= NumBufs /\ (\E e \in kern : OpOf(e.ud) = OP_RECV)
                            => BufsInRing > 0
    BY DEF BuffersConserved
  <2>1. TypeOK /\ RingI
    BY <1>1 DEF IInv
  <2>2. held = Filled
    BY <2>1 DEF RingI, Filled, Posted, IsFilled, IsIo
  <2>3. \A e \in held : e.buf \in Bids
    BY <2>1 DEF TypeOK, Cqes
  <2>4. \A i \in 0 .. BufsInRing - 1 : Slot(i) \in Bids
    <3>1. \A i \in 0 .. BufsInRing - 1 : i \in Nat
      BY <2>1, RingIndex
    <3> QED
      BY <2>1, <3>1, SlotType
  <2>5. \A b \in ring : b \in Bids
    BY <2>4 DEF Slot
  <2>6. \A b \in Bids : b \in ring \/ \E e \in held : e.buf = b
    BY <2>1, <2>2 DEF RingI, Slot
  <2>7. BufsInRing + Cardinality(held) = NumBufs
    BY <2>1, <2>2 DEF RingI
  <2>8. ASSUME Cardinality(conns) <= NumBufs, NEW e \in kern, OpOf(e.ud) = OP_RECV PROVE BufsInRing > 0
    <3>1. /\ Cardinality(Filled) \in Nat /\ Cardinality(conns) \in Nat
          /\ Cardinality(Filled) < Cardinality(conns)
      BY <1>1, <2>8, FewerFilled
    <3>2. BufsInRing \in Nat /\ NumBufs \in Nat
      BY <2>1, RingIndex, IoUringAssumption
    <3>3. BufsInRing + Cardinality(Filled) = NumBufs
      BY <2>1 DEF RingI
    <3> QED
      BY <2>8, <3>1, <3>2, <3>3
  <2>9. Cardinality(conns) <= NumBufs /\ (\E e \in kern : OpOf(e.ud) = OP_RECV) => BufsInRing > 0
    BY <2>8
  <2> HIDE DEF held, ring
  <2> QED
    BY <2>3, <2>5, <2>6, <2>7, <2>9
<1> QED
  BY <1>1, IoUringInvariant, PTL

-----------------------------------------------------------------------------
(* Counting the owners of an fd *)

\* Of sets with no two elements between them, cardinalities add up.
LEMMA CountTwo ==
    ASSUME NEW A, NEW B, \A x, y \in A \cup B : x = y, \A x \in A : x \notin B
    PROVE  Cardinality(A) + Cardinality(B) = Cardinality(A \cup B)
<1>1. CASE A = {}
  <2>1. Cardinality(A) = 0 /\ A \cup B = B
    BY <1>1, FS_EmptySet, Zenon
  <2>2. IsFiniteSet(B)
    <3>1. CASE B = {}
      BY <3>1, FS_EmptySet, Zenon
    <3>2. CASE B # {}
      <4>1. PICK x : B = {x}
        BY <3>2
      <4> QED
        BY <4>1, FS_Singleton, Zenon
    <3> QED
      BY <3>1, <3>2
  <2>3. Cardinality(B) \in Nat
    BY <2>2, FS_CardinalityType
  <2> QED
    BY <2>1, <2>3
<1>2. CASE A # {}
  <2>1. B = {}
    BY <1>2
  <2>2. PICK x : A = {x}
    BY <1>2
  <2>3. Cardinality(B) = 0
    BY <2>1, FS_EmptySet, Zenon
  <2>4. Cardinality(A) = 1
    BY <2>2, FS_Singleton, Zenon
  <2>5. A \cup B = A
    BY <2>1
  <2> QED
    BY <2>3, <2>4, <2>5
<1> QED
  BY <1>1, <1>2

LEMMA CountOne ==
    ASSUME NEW S, \A x, y \in S : x = y
    PROVE  Cardinality(S) = IF S = {} THEN 0 ELSE 1
<1>1. CASE S = {}
  BY <1>1, FS_EmptySet, Zenon
<1>2. CASE S # {}
  <2>1. PICK x : S = {x}
    BY <1>2
  <2>2. Cardinality(S) = 1
    BY <2>1, FS_Singleton, Zenon
  <2> QED
    BY <1>2, <2>2
<1> QED
  BY <1>1, <1>2

\* The operations of some kinds on an fd, counted over the queues, are one if
\* there is one that was not dropped, and none otherwise.
LEMMA CountPend ==
    ASSUME IInv, NEW fd \in Fds, NEW ops
    PROVE  Count(ops, fd) = IF \E e \in Pend : e \notin lost /\ OpOf(e.ud) \in ops /\ FdOf(e.ud) = fd
                            THEN 1 ELSE 0
<1>1. QueuesI /\ OwnersI
  BY DEF IInv
<1>2. PICK A, B : A = Of(sq, ops, fd) /\ B = Of(kern, ops, fd)
  OBVIOUS
<1>3. \A e : e \in A \cup B <=> e \in Pend /\ e \notin lost /\ OpOf(e.ud) \in ops /\ FdOf(e.ud) = fd
  BY <1>1, <1>2, FdFacts DEF Of, Pend, QueuesI
<1>4. \A x, y \in A \cup B : x = y
  BY <1>1, <1>3 DEF OwnersI
<1>5. \A x \in A : x \notin B
  BY <1>1, <1>2, <1>3 DEF QueuesI, Of
<1>6. Cardinality(A) + Cardinality(B) = Cardinality(A \cup B)
  BY <1>4, <1>5, CountTwo
<1>7. PICK D : D = A \cup B
  OBVIOUS
<1>8. Cardinality(D) = IF D = {} THEN 0 ELSE 1
  BY <1>4, <1>7, CountOne
<1>9. Count(ops, fd) = Cardinality(A) + Cardinality(B)
  BY <1>2 DEF Count
<1>10. D # {} <=> \E e \in Pend : e \notin lost /\ OpOf(e.ud) \in ops /\ FdOf(e.ud) = fd
  BY <1>3, <1>7
<1> QED
  BY <1>6, <1>7, <1>8, <1>9, <1>10

\* The same for the receives and sends that completed, and for the accepts.
LEMMA CountPosted ==
    ASSUME IInv, NEW fd \in Fds
    PROVE  /\ Completed({OP_RECV, OP_SEND}, fd)
                 = IF \E c \in Posted : IsIo(c) /\ FdOf(c.ud) = fd THEN 1 ELSE 0
           /\ Arrived(fd) = IF \E c \in Posted : IsNew(c) /\ c.res = fd THEN 1 ELSE 0
<1>1. QueuesI /\ OwnersI /\ fd > 0
  BY FdFacts DEF IInv, Fds
<1>2. Completed({OP_RECV, OP_SEND}, fd) = IF \E c \in Posted : IsIo(c) /\ FdOf(c.ud) = fd THEN 1 ELSE 0
  <2>1. PICK A, B : A = Of(cq, {OP_RECV, OP_SEND}, fd) /\ B = Of(batch, {OP_RECV, OP_SEND}, fd)
    OBVIOUS
  <2>2. \A c : c \in A \cup B <=> c \in Posted /\ IsIo(c) /\ FdOf(c.ud) = fd
    BY <2>1 DEF Of, Posted, IsIo
  <2>3. (\A x, y \in A \cup B : x = y) /\ (\A x \in A : x \notin B)
    BY <1>1, <2>1, <2>2 DEF OwnersI, QueuesI, Of
  <2>4. Cardinality(A) + Cardinality(B) = Cardinality(A \cup B)
    BY <2>3, CountTwo
  <2>5. PICK D : D = A \cup B
    OBVIOUS
  <2>6. Cardinality(D) = IF D = {} THEN 0 ELSE 1
    BY <2>3, <2>5, CountOne
  <2> QED
    BY <2>1, <2>2, <2>4, <2>5, <2>6 DEF Completed
<1>3. Arrived(fd) = IF \E c \in Posted : IsNew(c) /\ c.res = fd THEN 1 ELSE 0
  <2>1. PICK A, B : /\ A = {e \in cq : OpOf(e.ud) = OP_ACCEPT /\ e.res = fd}
                    /\ B = {e \in batch : OpOf(e.ud) = OP_ACCEPT /\ e.res = fd}
    OBVIOUS
  <2>2. \A c : c \in A \cup B <=> c \in Posted /\ IsNew(c) /\ c.res = fd
    BY <1>1, <2>1 DEF Posted, IsNew
  <2>3. (\A x, y \in A \cup B : x = y) /\ (\A x \in A : x \notin B)
    BY <1>1, <2>1, <2>2 DEF OwnersI, QueuesI
  <2>4. Cardinality(A) + Cardinality(B) = Cardinality(A \cup B)
    BY <2>3, CountTwo
  <2>5. PICK D : D = A \cup B
    OBVIOUS
  <2>6. Cardinality(D) = IF D = {} THEN 0 ELSE 1
    BY <2>3, <2>5, CountOne
  <2> QED
    BY <2>1, <2>2, <2>4, <2>5, <2>6 DEF Arrived
<1> QED
  BY <1>2, <1>3

\* A failed submission drops at most one entry.
LostI == IsFiniteSet(lost) /\ Cardinality(lost) <= faults

\* push, and a handler that does not call it.
LEMMA PushLost ==
    ASSUME NEW e, push(e) \/ NoPush
    PROVE  \/ UNCHANGED <<faults, lost>>
           \/ faults' = faults + 1 /\ \E f : lost' = lost \cup {f}
BY DEF push, NoPush

LEMMA StepLostI == ASSUME IInv, LostI, [Next]_vars PROVE LostI'
<1>1. faults \in Nat /\ IsFiniteSet(lost) /\ Cardinality(lost) \in Nat /\ Cardinality(lost) <= faults
  <2>1. IsFiniteSet(lost) /\ Cardinality(lost) <= faults
    BY DEF LostI
  <2> QED
    BY <2>1, FS_CardinalityType, IoUringAssumption DEF IInv, TypeOK
<1> DEFINE Same == UNCHANGED <<faults, lost>>
           One  == faults' = faults + 1 /\ \E f : lost' = lost \cup {f}
<1>2. ASSUME NEW c \in Peers, Peer(c) PROVE Same
  BY <1>2 DEF Peer, loopVars
<1>3. ASSUME Signal PROVE Same
  BY <1>3 DEF Signal
<1>4. ASSUME NEW e \in kern, Kernel(e) PROVE lost' = lost /\ (faults' = faults \/ faults' = faults + 1)
  BY <1>4 DEF Kernel, KernelAccept, KernelAcceptFails, KernelRecv, KernelRecvFails, KernelSend, KernelClose,
     Complete, loopVars
<1>5. ASSUME NEW fd, drop_conn(fd) PROVE Same \/ One
  BY <1>5, PushLost DEF drop_conn, submit_close
<1>6. ASSUME NEW fd, NEW k, deliver(fd, k) PROVE Same \/ One
  <2>1. CASE fd \in conns
    <3>1. apply(fd, k)
      BY <1>6, <2>1 DEF deliver
    <3> QED
      BY <1>5, <3>1, PushLost DEF apply, submit_recv, submit_send
  <2>2. CASE fd \notin conns
    BY <1>6, <2>2 DEF deliver, NoPush
  <2> QED
    BY <2>1, <2>2
<1>7. ASSUME NEW e \in batch, on_accept(e) PROVE Same \/ One
  BY <1>7, PushLost DEF on_accept, submit_close, submit_recv
<1>8. ASSUME NEW e \in batch, on_recv(e) PROVE Same \/ One
  BY <1>5, <1>6, <1>8 DEF on_recv
<1>9. ASSUME NEW e \in batch, on_send(e) PROVE Same \/ One
  BY <1>5, <1>6, <1>9 DEF on_send
<1>10. ASSUME NEW e \in batch, on_close(e) PROVE Same
  BY <1>10 DEF on_close, NoPush
<1>11. ASSUME Top PROVE Same \/ One
  BY <1>11, PushLost DEF Top
<1>12. ASSUME Enter \/ EnterInterrupted \/ drain_cqes \/ UNCHANGED vars PROVE Same
  BY <1>12 DEF Enter, EnterInterrupted, drain_cqes, vars, loopVars
<1>13. ASSUME Stop PROVE lost' = {} /\ faults' = faults
  BY <1>13 DEF Stop
<1>14. ASSUME One PROVE LostI'
  <2>1. PICK f : lost' = lost \cup {f}
    BY <1>14
  <2>2. IsFiniteSet(lost') /\ Cardinality(lost') = IF f \in lost THEN Cardinality(lost) ELSE Cardinality(lost) + 1
    BY <1>1, <2>1, FS_AddElement
  <2> QED
    BY <1>1, <1>14, <2>2 DEF LostI
<1>15. ASSUME lost' = lost, faults' = faults \/ faults' = faults + 1 PROVE LostI'
  BY <1>1, <1>15 DEF LostI
<1>16. ASSUME lost' = {}, faults' = faults PROVE LostI'
  <2>1. IsFiniteSet(lost') /\ Cardinality(lost') = 0
    BY <1>16, FS_EmptySet, Zenon
  <2> QED
    BY <1>1, <1>16, <2>1 DEF LostI
<1>17. ASSUME run PROVE Same \/ One \/ (lost' = {} /\ faults' = faults)
  <2> HIDE DEF Same, One
  <2> QED
    BY <1>7, <1>8, <1>9, <1>10, <1>11, <1>12, <1>13, <1>17 DEF run
<1> QED
  BY <1>2, <1>3, <1>4, <1>12, <1>14, <1>15, <1>16, <1>17 DEF Next

\* An open fd leaks, until the ring is torn down, only when a push dropped its
\* close, and none is closed twice; a connection in the table has exactly one
\* operation or had it dropped, so a completion never reaches another connection
\* after its fd is reused (on_accept, on_recv, on_send, drop_conn); and no more
\* entries are dropped than submissions failed (push).
THEOREM FdsAlwaysAccounted == Spec => []FdsAccounted
<1>1. ASSUME IInv, LostI PROVE FdsAccounted
  <2> SUFFICES ASSUME NEW fd \in Fds
               PROVE  /\ Arrived(fd) + Count({OP_CLOSE}, fd) + (IF fd \in conns THEN 1 ELSE 0)
                            = IF Open(fd) /\ ~Lost({OP_CLOSE}, fd) THEN 1 ELSE 0
                      /\ Count({OP_RECV, OP_SEND}, fd) + Completed({OP_RECV, OP_SEND}, fd)
                            = IF fd \in conns /\ ~Lost({OP_RECV, OP_SEND}, fd) THEN 1 ELSE 0
                      /\ Lost({OP_CLOSE}, fd) => Open(fd)
                      /\ Lost({OP_RECV, OP_SEND}, fd) => fd \in conns
    BY <1>1 DEF FdsAccounted, LostI
  <2>1. TypeOK /\ OwnersI
    BY <1>1 DEF IInv
  <2>2. PICK arrived, closing, pending, completed, leaked, stranded \in BOOLEAN :
           /\ arrived <=> \E c \in Posted : IsNew(c) /\ c.res = fd
           /\ closing <=> \E e \in Pend : e \notin lost /\ OpOf(e.ud) \in {OP_CLOSE} /\ FdOf(e.ud) = fd
           /\ pending <=> \E e \in Pend : e \notin lost /\ OpOf(e.ud) \in {OP_RECV, OP_SEND} /\ FdOf(e.ud) = fd
           /\ completed <=> \E c \in Posted : IsIo(c) /\ FdOf(c.ud) = fd
           /\ leaked <=> \E e \in Pend : e \in lost /\ OpOf(e.ud) \in {OP_CLOSE} /\ FdOf(e.ud) = fd
           /\ stranded <=> \E e \in Pend : e \in lost /\ OpOf(e.ud) \in {OP_RECV, OP_SEND} /\ FdOf(e.ud) = fd
    BY Zenon
  <2>3. /\ Arrived(fd) = IF arrived THEN 1 ELSE 0
        /\ Count({OP_CLOSE}, fd) = IF closing THEN 1 ELSE 0
        /\ Count({OP_RECV, OP_SEND}, fd) = IF pending THEN 1 ELSE 0
        /\ Completed({OP_RECV, OP_SEND}, fd) = IF completed THEN 1 ELSE 0
    BY <1>1, <2>2, CountPend, CountPosted
  <2>4. (Lost({OP_CLOSE}, fd) <=> leaked) /\ (Lost({OP_RECV, OP_SEND}, fd) <=> stranded)
    BY <2>2, FdFacts DEF Lost, Of, Pend
  <2>5. \A e \in Pend : FdOf(e.ud) = fd =>
           \/ IsIo(e) /\ ~closing /\ ~leaked /\ (e \in lost => stranded /\ ~pending)
                                             /\ (e \notin lost => pending /\ ~stranded)
           \/ /\ OpOf(e.ud) = OP_CLOSE /\ ~pending /\ ~stranded
              /\ (e \in lost => leaked /\ ~closing) /\ (e \notin lost => closing /\ ~leaked)
    BY <2>1, <2>2, QueueFacts, OpsDiffer DEF OwnersI, IsIo
  <2>6. /\ arrived => ~closing /\ ~pending /\ ~leaked /\ ~stranded /\ fd \notin conns /\ Open(fd)
        /\ completed => ~closing /\ ~pending /\ ~leaked /\ ~stranded /\ fd \in conns
        /\ closing \/ leaked => fd \notin conns /\ Open(fd)
        /\ pending \/ stranded => fd \in conns
    BY <2>1, <2>2, OpsDiffer DEF OwnersI, IsIo
  <2>7. /\ closing => ~leaked
        /\ pending => ~stranded
    BY <2>2, <2>5, OpsDiffer DEF IsIo
  <2>8. fd \in conns => Open(fd) /\ (pending \/ stranded \/ completed)
    BY <2>1, <2>2, <2>5, <2>6 DEF OwnersI
  <2>9. Open(fd) => fd \in conns \/ closing \/ leaked \/ arrived
    BY <2>1, <2>2, <2>5 DEF OwnersI, IsIo
  <2> QED
    BY <2>3, <2>4, <2>6, <2>7, <2>8, <2>9
<1>2. Init => LostI
  <2>1. ASSUME Init PROVE lost = {} /\ faults = 0
    BY <2>1 DEF Init
  <2>2. ASSUME lost = {}, faults = 0 PROVE LostI
    <3>1. IsFiniteSet(lost) /\ Cardinality(lost) = 0
      BY <2>2, FS_EmptySet, Zenon
    <3> QED
      BY <2>2, <3>1 DEF LostI
  <2> QED
    BY <2>1, <2>2
<1>3. IInv /\ LostI /\ [Next]_vars => LostI'
  BY StepLostI
<1> QED
  BY <1>1, <1>2, <1>3, IoUringInvariant, PTL DEF Spec

-----------------------------------------------------------------------------
(* Why a connection is closed *)

\* What the completion c reports of its connection's peer p holds.
Reports(c, p) ==
    /\ OpOf(c.ud) = OP_RECV =>
          \/ c.res > 0 \/ c.res = ENOBUFS
          \/ c.res = 0 /\ fin[p] /\ taken[p] = sent[p]
          \/ c.res = ECONNRESET /\ rst[p]
    /\ OpOf(c.ud) = OP_SEND => c.res > 0 \/ rst[p]

\* A completion stays true until it is handled, however late that is.
CausesI == \A c \in Posted : IsIo(c) => Reports(c, fdPeer[FdOf(c.ud)])

\* A peer's end and reset are final.
LEMMA ReportKept ==
    ASSUME NEW c, NEW p, Reports(c, p), fin[p] => fin'[p], rst[p] => rst'[p],
           taken'[p] = taken[p], fin[p] => sent'[p] = sent[p]
    PROVE  Reports(c, p)'
BY Zenon DEF Reports

\* Completions that were posted before keep what they report if their fds keep
\* their peers.
LEMMA CausesKept ==
    ASSUME CausesI,
           \A c \in Posted' : IsIo(c) => c \in Posted \/ Reports(c, fdPeer[FdOf(c.ud)])',
           \A c \in Posted : IsIo(c) =>
               LET p == fdPeer[FdOf(c.ud)]
               IN  /\ fdPeer'[FdOf(c.ud)] = p
                   /\ (fin[p] => fin'[p]) /\ (rst[p] => rst'[p])
                   /\ taken'[p] = taken[p] /\ (fin[p] => sent'[p] = sent[p])
    PROVE  CausesI'
<1> SUFFICES ASSUME NEW c \in Posted', IsIo(c), c \in Posted PROVE Reports(c, fdPeer[FdOf(c.ud)])'
  BY DEF CausesI, IsIo
<1>1. PICK p : p = fdPeer[FdOf(c.ud)]
  OBVIOUS
<1>2. Reports(c, p)
  BY <1>1 DEF CausesI
<1>3. /\ fdPeer'[FdOf(c.ud)] = p /\ (fin[p] => fin'[p]) /\ (rst[p] => rst'[p])
      /\ taken'[p] = taken[p] /\ (fin[p] => sent'[p] = sent[p])
  BY <1>1
<1>4. Reports(c, p)'
  BY <1>2, <1>3, ReportKept
<1> QED
  BY <1>3, <1>4

\* Peers end their streams and reset, they take neither back.
LEMMA PeerCauses == ASSUME IInv, CausesI, NEW q \in Peers, Peer(q) PROVE CausesI'
<1>1. UNCHANGED <<taken, fdPeer, cq, batch>>
  BY DEF Peer, kernVars, ringVars, loopVars
<1>2. Posted' = Posted
  BY <1>1 DEF Posted, IsIo, IsNew
<1>3. \A p \in Peers : /\ (fin[p] => fin'[p]) /\ (rst[p] => rst'[p])
                       /\ (fin[p] => sent'[p] = sent[p])
  BY DEF Peer, Connect, PeerSend, PeerShutdown, PeerReset, IInv, TypeOK
<1>4. \A c \in Posted : IsIo(c) => fdPeer[FdOf(c.ud)] \in Peers
  BY DEF IInv, OwnersI, Open, TypeOK
<1> QED
  BY <1>1, <1>2, <1>3, <1>4, CausesKept

\* The runtime posts nothing and changes no peer until it stops.
LEMMA RunCauses == ASSUME IInv, CausesI, run \/ Signal \/ UNCHANGED vars PROVE CausesI'
<1> USE DEF vars, sockVars, peerVars, kernVars, ringVars, loopVars
<1>1. UNCHANGED <<fin, rst, sent, taken>>
  BY DEF run, Top, Enter, EnterInterrupted, drain_cqes, Stop, on_accept, on_recv, on_send, on_close, Take, Signal
<1>2. (cq \cup batch)' \in SUBSET (cq \cup batch)
  <2>1. \A e \in batch : batch \ {e} \in SUBSET batch
    OBVIOUS
  <2> QED
    BY <2>1 DEF run, Top, Enter, EnterInterrupted, drain_cqes, Stop, on_accept, on_recv, on_send, on_close, Take, Signal
<1>3. Posted' \in SUBSET Posted
  BY <1>2 DEF Posted, IsIo, IsNew
<1>4. CASE Stop
  <2>1. Posted' = {}
    BY <1>4 DEF Stop, Posted
  <2> QED
    BY <2>1 DEF CausesI
<1>5. CASE ~Stop
  <2>1. fdPeer' = fdPeer
    BY <1>5 DEF run, Top, Enter, EnterInterrupted, drain_cqes, on_accept, on_recv, on_send, on_close, Take, Signal
  <2> QED
    BY <1>1, <1>3, <2>1, CausesKept
<1> QED
  BY <1>4, <1>5

\* The kernel reports what holds, and takes the peer of no fd in the table.
LEMMA KernelCauses == ASSUME IInv, CausesI, NEW e \in kern, Kernel(e) PROVE CausesI'
<1>1. TypeOK /\ OwnersI /\ PeersI /\ QueuesI
  BY DEF IInv
<1>2. e \in Sqes /\ e.ud \in UserData
  BY <1>1 DEF TypeOK, Sqes
<1>3. OpOf(e.ud) # OP_ACCEPT => e \in Pend
  BY <1>2, UserDataFacts DEF Pend
<1>4. UNCHANGED <<fin, rst, sent, batch>>
  BY DEF Kernel, KernelAccept, KernelAcceptFails, KernelRecv, KernelRecvFails, KernelSend, KernelClose, Complete,
         sockVars, peerVars, loopVars
<1>5. \A c \in Posted : IsIo(c) => /\ FdOf(c.ud) \in conns /\ FdOf(c.ud) \in Fds /\ Open(FdOf(c.ud))
                                   /\ fdPeer[FdOf(c.ud)] \in Peers
  BY <1>1 DEF OwnersI, TypeOK, Open
<1>6. OpOf(e.ud) # OP_ACCEPT => \A c \in Posted : IsIo(c) => FdOf(c.ud) # FdOf(e.ud)
  BY <1>1, <1>3 DEF OwnersI
<1>7. CASE KernelAccept(e) \/ KernelAcceptFails(e) \/ KernelClose(e)
  <2>1. UNCHANGED taken /\ OpOf(e.ud) \in {OP_ACCEPT, OP_CLOSE}
    BY <1>7 DEF KernelAccept, KernelAcceptFails, KernelClose, sockVars
  <2>2. \E res, more : cq' = cq \cup {Cqe(e, res, NoBuf, more)}
    BY <1>7 DEF KernelAccept, KernelAcceptFails, KernelClose, Complete, Post
  <2>3. \A c \in Posted' : IsIo(c) => c \in Posted
    <3>1. PICK d : d.ud = e.ud /\ cq' = cq \cup {d}
      BY <2>2 DEF Cqe
    <3>2. ~IsIo(d)
      BY <2>1, <3>1, OpsDiffer DEF IsIo
    <3> QED
      BY <1>4, <3>1, <3>2 DEF Posted, IsIo, IsNew
  <2>4. \A fd \in Fds : fdPeer'[fd] # fdPeer[fd] => ~Open(fd) \/ (OpOf(e.ud) # OP_ACCEPT /\ fd = FdOf(e.ud))
    <3>1. CASE KernelAccept(e)
      <4>1. PICK g : g = Min(FreeFds)
        OBVIOUS
      <4>2. FreeFds \in SUBSET Nat /\ FreeFds # {}
        BY <3>1, FdFacts DEF KernelAccept, FreeFds
      <4>3. ~Open(g) /\ fdPeer' = [fdPeer EXCEPT ![g] = Head(backlog)]
        BY <3>1, <4>1, <4>2, MinIsLeast DEF KernelAccept, FreeFds
      <4> QED
        BY <1>1, <4>3 DEF TypeOK
    <3>2. CASE KernelClose(e)
      BY <1>1, <3>2, OpsDiffer DEF KernelClose, TypeOK
    <3> QED
      BY <1>7, <3>1, <3>2 DEF KernelAcceptFails, kernVars
  <2>5. \A c \in Posted : IsIo(c) => fdPeer'[FdOf(c.ud)] = fdPeer[FdOf(c.ud)]
    BY <1>5, <1>6, <2>4
  <2> QED
    BY <1>4, <2>1, <2>3, <2>5, CausesKept
<1>8. CASE KernelRecvFails(e) \/ KernelSend(e)
  <2>1. UNCHANGED <<taken, fdPeer>>
    BY <1>8 DEF KernelRecvFails, KernelSend, sockVars, kernVars
  <2>2. PICK d : d.ud = e.ud /\ cq' = cq \cup {d} /\ Reports(d, fdPeer[FdOf(e.ud)])
    <3>1. CASE KernelRecvFails(e)
      <4>1. PICK r \in RecvErrors(fdPeer[FdOf(e.ud)]) : cq' = cq \cup {Cqe(e, r, NoBuf, FALSE)}
        BY <3>1 DEF KernelRecvFails, Complete, Post
      <4>2. PICK d : d = Cqe(e, r, NoBuf, FALSE)
        OBVIOUS
      <4>3. d.ud = e.ud /\ d.res = r /\ OpOf(e.ud) = OP_RECV
        BY <3>1, <4>2 DEF Cqe, KernelRecvFails
      <4>4. Reports(d, fdPeer[FdOf(e.ud)])
        BY <4>1, <4>3, OpsDiffer DEF Reports, RecvErrors
      <4> QED
        BY <4>1, <4>2, <4>3, <4>4
    <3>2. CASE KernelSend(e)
      <4>1. PICK n \in IF rst[fdPeer[FdOf(e.ud)]] THEN {ECONNRESET} ELSE 1 .. e.len :
                cq' = cq \cup {Cqe(e, n, NoBuf, FALSE)}
        BY <3>2 DEF KernelSend, Complete, Post
      <4>2. PICK d : d = Cqe(e, n, NoBuf, FALSE)
        OBVIOUS
      <4>3. d.ud = e.ud /\ d.res = n /\ OpOf(e.ud) = OP_SEND
        BY <3>2, <4>2 DEF Cqe, KernelSend
      <4>4. e.len \in Nat
        BY <1>2 DEF Sqes
      <4>5. rst[fdPeer[FdOf(e.ud)]] \/ n > 0
        BY <4>1, <4>4
      <4>6. Reports(d, fdPeer[FdOf(e.ud)])
        BY <4>3, <4>5, OpsDiffer DEF Reports
      <4> QED
        BY <4>1, <4>2, <4>3, <4>6
    <3> QED
      BY <1>8, <3>1, <3>2
  <2>3. Reports(d, fdPeer[FdOf(d.ud)])'
    BY <1>4, <2>1, <2>2 DEF Reports
  <2>4. \A c \in Posted' : c \in Posted \/ c = d
    BY <1>4, <2>2 DEF Posted, IsIo, IsNew
  <2> QED
    BY <1>4, <2>1, <2>3, <2>4, CausesKept
<1>9. CASE KernelRecv(e)
  <2>1. PICK fd, p : fd = FdOf(e.ud) /\ p = fdPeer[fd]
    OBVIOUS
  <2>2. PICK n : n = Min({BufSize, sent[p] - taken[p]})
    OBVIOUS
  <2>3. /\ OpOf(e.ud) = OP_RECV /\ fdPeer' = fdPeer /\ taken[p] < sent[p]
        /\ taken' = [taken EXCEPT ![p] = @ + n]
    BY <1>9, <2>1, <2>2 DEF KernelRecv
  <2>4. PICK d : d.ud = e.ud /\ d.res = n /\ cq' = cq \cup {d}
    BY <1>9, <2>1, <2>2 DEF KernelRecv, Complete, Post, Cqe
  <2>5. fd \in Fds /\ Open(fd) /\ p \in Peers
    BY <1>1, <1>3, <2>1, <2>3, OpsDiffer, QueueFacts DEF OwnersI, Open, TypeOK
  <2>6. n > 0
    <3>1. BufSize \in Nat \ {0} /\ sent[p] \in Nat /\ taken[p] \in Nat
      BY <1>1, <2>5, IoUringAssumption DEF TypeOK
    <3>2. PICK m : m = sent[p] - taken[p]
      OBVIOUS
    <3>3. m \in Nat \ {0} /\ n = Min({BufSize, m})
      BY <2>2, <2>3, <3>1, <3>2
    <3> QED
      BY <3>1, <3>3, MinOfTwo
  <2>7. Reports(d, fdPeer[FdOf(d.ud)])'
    BY <2>3, <2>4, <2>6, OpsDiffer DEF Reports
  <2>8. \A c \in Posted' : c \in Posted \/ c = d
    BY <1>4, <2>4 DEF Posted, IsIo, IsNew
  <2>9. \A c \in Posted : IsIo(c) => fdPeer[FdOf(c.ud)] # p
    BY <1>1, <1>5, <1>6, <2>1, <2>3, <2>5, OpsDiffer DEF PeersI
  <2>10. \A c \in Posted : IsIo(c) => taken'[fdPeer[FdOf(c.ud)]] = taken[fdPeer[FdOf(c.ud)]]
    BY <1>1, <1>5, <2>3, <2>9 DEF TypeOK
  <2> QED
    BY <1>4, <2>3, <2>7, <2>8, <2>10, CausesKept
<1> QED
  BY <1>7, <1>8, <1>9 DEF Kernel

\* Completions are true when they are handled.
LEMMA CausesAlwaysHold == Spec => [](IInv /\ CausesI)
<1>1. Init => CausesI
  BY DEF Init, CausesI, Posted
<1>2. IInv /\ CausesI /\ [Next]_vars => CausesI'
  BY PeerCauses, RunCauses, KernelCauses DEF Next
<1> QED
  BY <1>1, <1>2, IoUringInvariant, PTL DEF Spec

\* Why the connection at fd may leave the table in a step: the program stops,
\* the peer has reset, the receive found no buffer, the peer has ended a stream
\* of which on_bytes was given all and a request is still incomplete, or the
\* last response of the connection is out in full.
Cause(fd) ==
    LET p == fdPeer[fd]
    IN  \/ shutdown \/ rst[p]
        \/ \E c \in batch : OpOf(c.ud) = OP_RECV /\ FdOf(c.ud) = fd /\ c.res = ENOBUFS
        \/ /\ conn[fd].state = "Reading"
           /\ fin[p] /\ Len(got[p]) = taken[p] /\ taken[p] = sent[p]
        \/ /\ conn[fd].state = "Writing" /\ CloseAfterWrite(conn[fd])
           /\ answered'[p] = answered[p] + 1

\* A handled receive drops its connection for what it reports.
LEMMA RecvCause ==
    ASSUME IInv, CausesI, NEW c \in batch, on_recv(c), NEW fd \in conns, fd \notin conns'
    PROVE  Cause(fd)
<1>1. PICK g : g = FdOf(c.ud)
  OBVIOUS
<1>2. OpOf(c.ud) = OP_RECV
  BY DEF on_recv, Take
<1>3. g \in conns /\ g \in Fds /\ c \in Posted /\ IsIo(c) /\ WellFormed(conn[g]) /\ c.res \in Int
  BY <1>1, <1>2, IoFacts DEF IsIo
<1>4. conn[g].state = "Reading" /\ Open(g)
  BY <1>1, <1>2, <1>3 DEF IInv, StatesI, OwnersI
<1>5. CASE c.res <= 0
  <2>1. fd = g
    BY <1>1, <1>3, <1>5 DEF on_recv, drop_conn
  <2>2. \/ c.res = ENOBUFS
        \/ c.res = 0 /\ fin[fdPeer[g]] /\ taken[fdPeer[g]] = sent[fdPeer[g]]
        \/ rst[fdPeer[g]]
    BY <1>1, <1>2, <1>3, <1>5 DEF CausesI, Reports
  <2>3. \A e \in Filled : FdOf(e.ud) # g
    <3>1. ~IsFilled(c)
      BY <1>3, <1>5 DEF IsFilled
    <3>2. \A e \in Filled : e \in Posted /\ IsIo(e) /\ IsFilled(e)
      BY DEF Filled, IsFilled, IsIo
    <3> QED
      BY <1>1, <1>3, <3>1, <3>2 DEF IInv, OwnersI
  <2>4. Len(got[fdPeer[g]]) = taken[fdPeer[g]]
    BY <1>3, <1>4, <2>3 DEF IInv, InputI
  <2> QED
    BY <1>1, <1>2, <1>4, <2>1, <2>2, <2>4 DEF Cause
<1>6. CASE c.res > 0
  <2>1. PICK k : k = OnBytes(conn[g], Bytes(c))
    OBVIOUS
  <2>2. deliver(g, k)
    BY <1>1, <1>3, <1>6, <2>1 DEF on_recv
  <2>3. Bytes(c) \in Seq(Units)
    <3>1. c \in Filled
      BY <1>2, <1>3, <1>6 DEF Filled, IsFilled
    <3> QED
      BY <3>1, FilledFacts
  <2>4. k.state \in {"Reading", "Writing"}
    BY <1>3, <1>4, <2>1, <2>3, OnBytesType
  <2> QED
    BY <1>3, <2>2, <2>4 DEF deliver, apply, ActionForState
<1> QED
  BY <1>3, <1>5, <1>6

\* A handled send drops its connection on an error or after the last response.
LEMMA SendCause ==
    ASSUME IInv, CausesI, NEW c \in batch, on_send(c), NEW fd \in conns, fd \notin conns'
    PROVE  Cause(fd)
<1>1. PICK g, p : g = FdOf(c.ud) /\ p = fdPeer[g]
  OBVIOUS
<1>2. OpOf(c.ud) = OP_SEND
  BY DEF on_send, Take
<1>3. g \in conns /\ g \in Fds /\ c \in Posted /\ IsIo(c) /\ WellFormed(conn[g]) /\ c.res \in Int
  BY <1>1, <1>2, IoFacts DEF IsIo
<1>4. p \in Peers
  BY <1>1, <1>3 DEF IInv, OwnersI, Open, TypeOK
<1>5. conn[g].state = "Writing" /\ conn[g] \in Connections
  BY <1>1, <1>2, <1>3 DEF IInv, StatesI, WellFormed
<1>6. fd = g
  BY <1>1, <1>3 DEF on_send, drop_conn, deliver, apply
<1>7. CASE c.res < 0
  <2>1. ~(c.res > 0)
    BY <1>3, <1>7
  <2>2. rst[p]
    BY <1>1, <1>2, <1>3, <2>1 DEF CausesI, Reports
  <2> QED
    BY <1>1, <1>6, <2>2 DEF Cause
<1>8. CASE c.res >= 0
  <2>1. PICK k : k = OnWritten(conn[g], c.res)
    OBVIOUS
  <2>2. /\ deliver(g, k)
        /\ answered' = [answered EXCEPT ![p] = IF k.state = "Writing" THEN @ ELSE @ + 1]
    BY <1>1, <1>3, <1>8, <2>1 DEF on_send
  <2>3. ActionForState(k) = "Close"
    BY <1>3, <1>6, <2>2 DEF deliver, apply
  <2>4. k.state # "Writing" /\ k.state # "Reading"
    BY <2>3 DEF ActionForState
  <2>5. CloseAfterWrite(conn[g])
    BY <1>5, <2>1, <2>4 DEF OnWritten, KeepAliveTurn, ParserReset, Connections
  <2>6. answered'[p] = answered[p] + 1
    BY <1>4, <2>2, <2>4 DEF IInv, TypeOK
  <2> QED
    BY <1>1, <1>5, <1>6, <2>5, <2>6 DEF Cause
<1> QED
  BY <1>3, <1>7, <1>8

\* The runtime drops no connection without a cause: completions handled in any
\* order, late or in one batch with others never cost a peer, half closed or
\* not, a connection with input not fed to on_bytes or a reply to come.
THEOREM NeverClosedWithoutCause == Spec => [][\A fd \in conns : fd \notin conns' => Cause(fd)]_vars
<1>1. ASSUME IInv, CausesI, [Next]_vars, NEW fd \in conns, fd \notin conns' PROVE Cause(fd)
  <2>1. CASE Signal \/ UNCHANGED vars
    BY <1>1, <2>1 DEF Signal, vars, loopVars
  <2>2. ASSUME NEW q \in Peers, Peer(q) PROVE FALSE
    BY <1>1, <2>2 DEF Peer, loopVars
  <2>3. ASSUME NEW e \in kern, Kernel(e) PROVE FALSE
    BY <1>1, <2>3 DEF Kernel, KernelAccept, KernelAcceptFails, KernelRecv, KernelRecvFails, KernelSend,
                      KernelClose, Complete, loopVars
  <2>4. CASE Top \/ Enter \/ EnterInterrupted \/ drain_cqes
    BY <1>1, <2>4 DEF Top, Enter, EnterInterrupted, drain_cqes
  <2>5. CASE Stop
    BY <2>5 DEF Stop, Cause
  <2>6. ASSUME NEW c \in batch, on_accept(c) \/ on_close(c) PROVE FALSE
    BY <1>1, <2>6 DEF on_accept, on_close
  <2> QED
    BY <1>1, <2>1, <2>2, <2>3, <2>4, <2>5, <2>6, RecvCause, SendCause DEF Next, run
<1>2. IInv /\ CausesI /\ [Next]_vars => [\A fd \in conns : fd \notin conns' => Cause(fd)]_vars
  BY <1>1
<1> QED
  BY <1>2, CausesAlwaysHold, PTL DEF Spec
=============================================================================
