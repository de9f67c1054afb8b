------------------------------ MODULE Blocking ------------------------------
(***************************************************************************)
(* One connection driven by the blocking loop that iterative, forking,     *)
(* preforked, thread-per-conn and thread-pool run: serve_connection of     *)
(* server/src/models/blocking.rs (and its copy in iterative.rs).           *)
(*                                                                         *)
(* The peer has a stream of units to send.  TCP delivers it in order and   *)
(* in pieces: a read returns what has arrived, at most READ_CHUNK units.   *)
(***************************************************************************)
EXTENDS Connection, FiniteSets, FiniteSetsExt

CONSTANTS
    Streams,    \* the streams a peer may send
    ReadChunk,  \* READ_CHUNK: most units one read returns
    Depth       \* most requests the peer has in flight; 1 = no pipelining

ASSUME BlockingAssumption ==
    /\ Streams \subseteq Seq(Units)
    /\ ReadChunk \in Nat \ {0}
    /\ Depth \in Nat \ {0}

VARIABLES
    stream,   \* what this peer sends in all
    sent,     \* units of it that have reached the receive queue
    taken,    \* units of it that read() has returned
    fin,      \* the peer has shut its sending side
    rst,      \* the peer has reset the connection
    conn,     \* the Connection
    pc,       \* "serving", or "returned" when the stream is dropped
    replies,  \* history: the responses written in full
    pipelined \* history: the peer sent past a request not answered yet

peerVars == <<stream, sent, fin, rst, pipelined>>
vars     == <<stream, sent, taken, fin, rst, conn, pc, replies, pipelined>>

\* Requests completed by the first n units of the stream.
RequestsIn(n) == Cardinality({i \in Ends(stream) : i <= n})

Init ==
    /\ stream \in Streams
    /\ sent = 0 /\ taken = 0
    /\ fin = FALSE /\ rst = FALSE
    /\ conn = New
    /\ pc = "serving"
    /\ replies = << >>
    /\ pipelined = FALSE

-----------------------------------------------------------------------------
(* The peer *)

PeerSend ==
    /\ sent < Len(stream) /\ ~fin /\ ~rst
    /\ RequestsIn(sent) - Len(replies) < Depth
    /\ sent' = sent + 1
    /\ pipelined' = (pipelined \/ RequestsIn(sent) > Len(replies))
    /\ UNCHANGED <<stream, taken, fin, rst, conn, pc, replies>>

PeerShutdown ==
    /\ ~fin /\ ~rst
    /\ fin' = TRUE
    /\ UNCHANGED <<stream, sent, taken, rst, conn, pc, replies, pipelined>>

PeerReset ==
    /\ ~rst
    /\ rst' = TRUE
    /\ UNCHANGED <<stream, sent, taken, fin, conn, pc, replies, pipelined>>

-----------------------------------------------------------------------------
(* serve_connection *)

WantRead  == pc = "serving" /\ ActionForState(conn) = "WantRead"
WantWrite == pc = "serving" /\ ActionForState(conn) = "WantWrite"

Return == pc' = "returned" /\ UNCHANGED <<taken, conn, replies>>

Read ==
    /\ WantRead
    /\ taken < sent
    /\ LET n == Min({ReadChunk, sent - taken})
       IN  /\ conn' = OnBytes(conn, SubSeq(stream, taken + 1, taken + n))
           /\ taken' = taken + n
    /\ UNCHANGED <<pc, replies>>

ReadEof ==
    /\ WantRead
    /\ taken = sent /\ fin
    /\ Return

\* Mutant: no read timeout is set.
ReadErrorOnlyReset ==
    /\ WantRead
    /\ taken = sent /\ rst
    /\ Return

\* ECONNRESET, or nothing arrived for read_timeout.
ReadError ==
    /\ WantRead
    /\ taken = sent
    /\ Return

Write ==
    /\ WantWrite
    /\ ~rst
    /\ \E n \in 1 .. PendingWrite(conn) :
          /\ conn' = OnWritten(conn, n)
          /\ replies' = IF n = PendingWrite(conn)
                        THEN Append(replies, conn.resp)
                        ELSE replies
    /\ UNCHANGED <<taken, pc>>

\* EPIPE, or the peer did not read for write_timeout.
WriteError ==
    /\ WantWrite
    /\ Return

Close ==
    /\ pc = "serving" /\ ActionForState(conn) = "Close"
    /\ Return

serve_connection ==
    /\ \/ Read \/ ReadEof \/ ReadError
       \/ Write \/ WriteError
       \/ Close
    /\ UNCHANGED peerVars

Next == PeerSend \/ PeerShutdown \/ PeerReset \/ serve_connection

\* The thread that runs the loop is scheduled, and the socket timeouts bound
\* how long a read or a write waits for the peer.
Spec == Init /\ [][Next]_vars /\ WF_vars(serve_connection)

-----------------------------------------------------------------------------
(* Properties *)

\* Every variable stays in its domain, the connection in the states of conn.rs.
TypeOK ==
    /\ stream \in Streams
    /\ sent \in 0 .. Len(stream) /\ taken \in 0 .. sent
    /\ fin \in BOOLEAN /\ rst \in BOOLEAN
    /\ conn \in Connections
    /\ pc \in {"serving", "returned"}
    /\ replies \in Seq(Verdicts) /\ pipelined \in BOOLEAN

\* The reply the i-th request of the stream deserves, from the whole stream and
\* not from how it was cut into reads.
ReplyTo(i) ==
    LET e     == CHOOSE e \in Ends(stream) : RequestsIn(e) = i
        start == Max({0} \cup {j \in Ends(stream) : j < e})
    IN  IF RequestsIn(Len(stream)) < i \/ e - start - 1 > MaxHead \/ stream[e] = "bad"
        THEN "failed"
        ELSE stream[e]

\* Responses answer the requests of the stream one for one and in order, and
\* nothing is answered after a response that closes (on_bytes, on_written and
\* the parser's retained bytes), however the stream was cut into reads.
RepliesAnswerRequests ==
    \A i \in 1 .. Len(replies) :
        /\ replies[i] = ReplyTo(i)
        /\ i < Len(replies) => replies[i] = "keep"

\* The loop waits for more input only when every complete request it has read
\* is answered: WantRead is never returned with a request in hand.
NothingOwedWhileReading ==
    WantRead => RequestsIn(taken) <= Len(replies)

\* So it is for a peer that waits for each reply before it sends on.
SequentialPeerNotOwed == ~pipelined => NothingOwedWhileReading

\* For such a peer the parser's buffer never exceeds an unfinished head within
\* the ceiling and one read more: what limits.rs promises of bounded input.
SequentialBufferBounded == ~pipelined => Len(conn.buf) <= MaxHead + ReadChunk

\* The loop returns, however the peer cuts, delays or abandons what it sends,
\* which is finite: a slow or silent peer does not pin the worker.
WorkerReleased == <>(pc = "returned")
=============================================================================
