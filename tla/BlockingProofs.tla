--------------------------- MODULE BlockingProofs ---------------------------
(***************************************************************************)
(* Theorems about Blocking, for every set of streams, every size of reads, *)
(* heads and responses, and every depth of pipelining.                     *)
(***************************************************************************)
EXTENDS Blocking, ConnectionProofs, FiniteSetTheorems

-----------------------------------------------------------------------------
(* The inductive invariant *)

\* The piece of the stream behind c and up to t.
Piece(c, t) == SubSeq(stream, c + 1, t)

\* How much of the stream the parser has consumed.
Cut == taken - Len(conn.buf)

\* The buffer is what was read and not consumed, and requests are consumed
\* whole.
BufferI ==
    /\ WellFormed(conn)
    /\ Len(conn.buf) <= taken
    /\ conn.buf = Piece(Cut, taken)
    /\ Cut = 0 \/ Cut \in Ends(stream)

\* The replies written are those deserved.  While the connection reads, every
\* request consumed is answered, by a reply that keeps it; while it writes, the
\* reply is that of the next request, which a refused one leaves in the buffer.
RepliesI ==
    /\ \A i \in 1 .. Len(replies) : replies[i] = ReplyTo(i)
    /\ \A i \in 1 .. Len(replies) : i < Len(replies) \/ conn.state # "Closed" => replies[i] = "keep"
    /\ conn.state = "Reading" => ~ conn.done /\ RequestsIn(Cut) = Len(replies)
    /\ conn.state = "Writing" =>
          /\ conn.resp = ReplyTo(Len(replies) + 1)
          /\ conn.resp = "keep" => RequestsIn(Cut) = Len(replies) + 1

\* A peer that does not pipeline has sent nothing behind a request not
\* answered, so nothing is left in the buffer when its reply is written.
SequentialI ==
    ~pipelined =>
        /\ sent > 0 => RequestsIn(sent - 1) <= Len(replies)
        /\ conn.state = "Reading" => Ends(conn.buf) = {} /\ Len(conn.buf) <= MaxHead
        /\ Len(conn.buf) <= MaxHead + ReadChunk

IInv == TypeOK /\ BufferI /\ RepliesI /\ SequentialI

-----------------------------------------------------------------------------
(* The requests of a stream *)

\* The requests completed by the first n units, as a set.
EndsTo(n) == {i \in Ends(stream) : i <= n}

LEMMA StreamFacts ==
    ASSUME TypeOK
    PROVE  /\ stream \in Seq(Units) /\ Len(stream) \in Nat /\ sent \in Nat /\ taken \in Nat
           /\ taken <= sent /\ sent <= Len(stream)
<1>1. stream \in Seq(Units)
  BY BlockingAssumption DEF TypeOK
<1>2. Len(stream) \in Nat
  BY <1>1, LenProperties
<1> QED
  BY <1>1, <1>2 DEF TypeOK

LEMMA EndsFinite ==
    ASSUME stream \in Seq(Units)
    PROVE  /\ Ends(stream) \in SUBSET (1 .. Len(stream)) /\ Len(stream) \in Nat
           /\ \A n : IsFiniteSet(EndsTo(n)) /\ RequestsIn(n) = Cardinality(EndsTo(n)) /\ RequestsIn(n) \in Nat
<1>1. Len(stream) \in Nat
  BY LenProperties
<1>2. IsFiniteSet(1 .. Len(stream))
  BY <1>1, FS_Interval
<1>3. Ends(stream) \in SUBSET (1 .. Len(stream))
  BY DEF Ends
<1>4. ASSUME NEW n PROVE IsFiniteSet(EndsTo(n)) /\ RequestsIn(n) = Cardinality(EndsTo(n)) /\ RequestsIn(n) \in Nat
  <2>1. EndsTo(n) \in SUBSET (1 .. Len(stream))
    BY <1>3 DEF EndsTo
  <2>2. IsFiniteSet(EndsTo(n))
    BY <1>2, <2>1, FS_Subset
  <2>3. RequestsIn(n) = Cardinality(EndsTo(n))
    BY DEF RequestsIn, EndsTo
  <2> QED
    BY <2>2, <2>3, FS_CardinalityType
<1> QED
  BY <1>1, <1>3, <1>4

\* More units complete more requests, and the same number if there is no end
\* among them.
LEMMA RequestsMonotone ==
    ASSUME stream \in Seq(Units), NEW m \in Nat, NEW n \in Nat, m <= n
    PROVE  /\ RequestsIn(m) <= RequestsIn(n)
           /\ (\A j \in Ends(stream) : j <= m \/ n < j) => RequestsIn(m) = RequestsIn(n)
<1>1. /\ Ends(stream) \in SUBSET (1 .. Len(stream)) /\ Len(stream) \in Nat
      /\ IsFiniteSet(EndsTo(n)) /\ RequestsIn(m) = Cardinality(EndsTo(m)) /\ RequestsIn(n) = Cardinality(EndsTo(n))
  BY EndsFinite
<1>2. EndsTo(m) \in SUBSET EndsTo(n)
  BY <1>1 DEF EndsTo
<1>3. Cardinality(EndsTo(m)) <= Cardinality(EndsTo(n))
  BY <1>1, <1>2, FS_Subset
<1>4. ASSUME \A j \in Ends(stream) : j <= m \/ n < j PROVE EndsTo(m) = EndsTo(n)
  BY <1>1, <1>4 DEF EndsTo
<1> QED
  BY <1>1, <1>3, <1>4

\* The next end completes one request more.
LEMMA RequestsNext ==
    ASSUME stream \in Seq(Units), NEW c \in Nat, NEW e \in Ends(stream), c < e,
           \A j \in Ends(stream) : j <= c \/ e <= j
    PROVE  RequestsIn(e) = RequestsIn(c) + 1
<1>1. /\ Ends(stream) \in SUBSET (1 .. Len(stream)) /\ Len(stream) \in Nat /\ IsFiniteSet(EndsTo(c))
      /\ RequestsIn(c) = Cardinality(EndsTo(c)) /\ RequestsIn(e) = Cardinality(EndsTo(e))
  BY EndsFinite
<1>2. EndsTo(e) = EndsTo(c) \cup {e} /\ e \notin EndsTo(c)
  BY <1>1 DEF EndsTo
<1>3. Cardinality(EndsTo(c) \cup {e}) = Cardinality(EndsTo(c)) + 1
  BY <1>1, <1>2, FS_AddElement
<1> QED
  BY <1>1, <1>2, <1>3

\* Every end completes a request of its own.
LEMMA EndsApart ==
    ASSUME stream \in Seq(Units), NEW e \in Ends(stream), NEW f \in Ends(stream),
           RequestsIn(e) = RequestsIn(f)
    PROVE  e = f
<1>1. ASSUME NEW a \in Ends(stream), NEW b \in Ends(stream), a < b PROVE RequestsIn(a) < RequestsIn(b)
  <2>1. /\ Ends(stream) \in SUBSET (1 .. Len(stream)) /\ Len(stream) \in Nat
        /\ IsFiniteSet(EndsTo(a)) /\ IsFiniteSet(EndsTo(b)) /\ RequestsIn(a) \in Nat /\ RequestsIn(b) \in Nat
        /\ RequestsIn(a) = Cardinality(EndsTo(a)) /\ RequestsIn(b) = Cardinality(EndsTo(b))
    BY EndsFinite
  <2>2. b \notin EndsTo(a) /\ EndsTo(a) \cup {b} \in SUBSET EndsTo(b)
    BY <1>1, <2>1 DEF EndsTo
  <2>3. Cardinality(EndsTo(a) \cup {b}) = Cardinality(EndsTo(a)) + 1
    BY <2>1, <2>2, FS_AddElement
  <2>4. Cardinality(EndsTo(a) \cup {b}) <= Cardinality(EndsTo(b))
    BY <2>1, <2>2, FS_Subset
  <2> QED
    BY <2>1, <2>3, <2>4
<1>2. e \in Nat /\ f \in Nat /\ RequestsIn(e) \in Nat
  BY EndsFinite
<1> QED
  BY <1>1, <1>2

NthEnd(i)  == CHOOSE e \in Ends(stream) : RequestsIn(e) = i
StartOf(e) == Max({0} \cup {j \in Ends(stream) : j < e})

\* What the request after the first c units deserves, if it is completed by e.
LEMMA ReplyNext ==
    ASSUME stream \in Seq(Units), NEW c \in Nat, c = 0 \/ c \in Ends(stream),
           NEW e \in Ends(stream), c < e, \A j \in Ends(stream) : j <= c \/ e <= j
    PROVE  ReplyTo(RequestsIn(c) + 1)
              = IF e - c - 1 > MaxHead \/ stream[e] = "bad" THEN "failed" ELSE stream[e]
<1>1. Ends(stream) \in SUBSET (1 .. Len(stream)) /\ Len(stream) \in Nat /\ RequestsIn(c) \in Nat
  BY EndsFinite
<1>2. PICK i : i = RequestsIn(c) + 1
  OBVIOUS
<1>3. RequestsIn(e) = i
  BY <1>2, RequestsNext
<1>4. NthEnd(i) = e
  <2>1. \A f \in Ends(stream) : RequestsIn(f) = i => f = e
    BY <1>3, EndsApart
  <2> QED
    BY <1>3, <2>1 DEF NthEnd
<1>5. StartOf(e) = c
  <2>1. PICK S : S = {0} \cup {j \in Ends(stream) : j < e}
    OBVIOUS
  <2>2. c \in S /\ \A y \in S : y \in Nat /\ c >= y
    BY <1>1, <2>1
  <2>3. \A x \in S : (\A y \in S : x >= y) => x = c
    BY <2>2
  <2>4. Max(S) = c
    BY <2>2, <2>3 DEF Max
  <2> QED
    BY <2>1, <2>4 DEF StartOf
<1>6. ~ (RequestsIn(Len(stream)) < i)
  <2>1. e \in Nat /\ e <= Len(stream)
    BY <1>1
  <2>2. RequestsIn(e) <= RequestsIn(Len(stream)) /\ RequestsIn(Len(stream)) \in Nat
    BY <1>1, <2>1, RequestsMonotone, EndsFinite
  <2> QED
    BY <1>1, <1>2, <1>3, <2>2
<1>7. ReplyTo(i) = IF RequestsIn(Len(stream)) < i \/ e - c - 1 > MaxHead \/ stream[e] = "bad"
                  THEN "failed" ELSE stream[e]
  <2>1. ReplyTo(i) = IF \/ RequestsIn(Len(stream)) < i
                        \/ NthEnd(i) - StartOf(NthEnd(i)) - 1 > MaxHead \/ stream[NthEnd(i)] = "bad"
                     THEN "failed" ELSE stream[NthEnd(i)]
    BY DEF ReplyTo, NthEnd, StartOf
  <2> QED
    BY <1>4, <1>5, <2>1
<1> QED
  BY <1>2, <1>6, <1>7

\* One that the stream does not complete can only be refused.
LEMMA ReplyNone ==
    ASSUME stream \in Seq(Units), NEW c \in Nat, \A j \in Ends(stream) : j <= c
    PROVE  ReplyTo(RequestsIn(c) + 1) = "failed"
<1>1. Ends(stream) \in SUBSET (1 .. Len(stream)) /\ Len(stream) \in Nat /\ RequestsIn(c) \in Nat
  BY EndsFinite
<1>2. EndsTo(Len(stream)) = EndsTo(c)
  BY <1>1 DEF EndsTo
<1>3. RequestsIn(Len(stream)) = RequestsIn(c)
  BY <1>2, EndsFinite
<1>4. RequestsIn(Len(stream)) < RequestsIn(c) + 1
  BY <1>1, <1>3
<1> QED
  BY <1>4 DEF ReplyTo

-----------------------------------------------------------------------------
(* A piece of the stream in the parser's buffer *)

LEMMA PieceFacts ==
    ASSUME stream \in Seq(Units), NEW c \in Nat, NEW t \in Nat, c <= t, t <= Len(stream)
    PROVE  /\ Piece(c, t) \in Seq(Units) /\ Len(Piece(c, t)) = t - c
           /\ \A i \in 1 .. Len(Piece(c, t)) : /\ Piece(c, t)[i] = stream[c + i]
                                               /\ i \in Ends(Piece(c, t)) <=> c + i \in Ends(stream)
           /\ \A j \in Ends(stream) : j <= c \/ t < j \/ j - c \in Ends(Piece(c, t))
<1> DEFINE all == Piece(c, t)
<1>1. Len(stream) \in Nat
  BY LenProperties
<1>2. \A i \in c + 1 .. t : stream[i] \in Units
  BY <1>1, ElementOfSeq
<1>3. /\ all \in Seq(Units) /\ Len(all) = IF c + 1 <= t THEN t - (c + 1) + 1 ELSE 0
      /\ \A i \in 1 .. t - (c + 1) + 1 : all[i] = stream[c + 1 + i - 1]
  BY <1>2, SubSeqProperties DEF Piece
<1> HIDE DEF all
<1>4. Len(all) = t - c
  BY <1>3
<1>5. \A i \in 1 .. Len(all) : all[i] = stream[c + i]
  <2> SUFFICES ASSUME NEW i \in 1 .. Len(all) PROVE all[i] = stream[c + i]
    OBVIOUS
  <2>1. i \in 1 .. t - (c + 1) + 1 /\ c + 1 + i - 1 = c + i
    BY <1>4
  <2> QED
    BY <1>3, <2>1
<1>6. \A i \in 1 .. Len(all) : i \in Ends(all) <=> c + i \in Ends(stream)
  BY <1>1, <1>4, <1>5 DEF Ends
<1>7. \A j \in Ends(stream) : j <= c \/ t < j \/ j - c \in Ends(all)
  <2> SUFFICES ASSUME NEW j \in Ends(stream), ~ (j <= c), ~ (t < j) PROVE j - c \in Ends(all)
    OBVIOUS
  <2>1. j \in Nat
    BY <1>1 DEF Ends
  <2>2. j - c \in 1 .. Len(all) /\ c + (j - c) = j
    BY <1>4, <2>1
  <2> QED
    BY <1>6, <2>2
<1> QED
  BY <1>3, <1>4, <1>5, <1>6, <1>7 DEF all

\* Dropping the first f units of a piece leaves the piece behind them.
LEMMA PieceRest ==
    ASSUME stream \in Seq(Units), NEW c \in Nat, NEW t \in Nat, c <= t, t <= Len(stream), NEW f \in 1 .. t - c
    PROVE  SubSeq(Piece(c, t), f + 1, t - c) = Piece(c + f, t)
<1>1. Len(stream) \in Nat /\ f \in Nat
  BY LenProperties
<1>2. CASE f = t - c
  <2>1. t - c < f + 1 /\ t < c + f + 1 /\ f + 1 \in Int /\ t - c \in Int /\ c + f + 1 \in Int
    BY <1>1, <1>2
  <2> QED
    BY <2>1, SubSeqEmpty DEF Piece
<1>3. CASE f < t - c
  <2>1. /\ c + 1 \in 1 .. Len(stream) /\ t \in 1 .. Len(stream)
        /\ f + 1 \in 1 .. t - (c + 1) + 1 /\ t - c \in 1 .. t - (c + 1) + 1
        /\ (c + 1) + (f + 1) - 1 = c + f + 1 /\ (c + 1) + (t - c) - 1 = t
    BY <1>1, <1>3
  <2>2. SubSeq(SubSeq(stream, c + 1, t), f + 1, t - c) = SubSeq(stream, (c + 1) + (f + 1) - 1, (c + 1) + (t - c) - 1)
    BY <2>1, SubSeqOfSubSeq
  <2> QED
    BY <2>1, <2>2 DEF Piece
<1> QED
  BY <1>1, <1>2, <1>3

\* The parser's verdict on the piece behind a consumed request is the reply the
\* next request deserves, wherever the piece ends.
LEMMA VerdictReply ==
    ASSUME stream \in Seq(Units), NEW c \in Nat, NEW t \in Nat, c <= t, t <= Len(stream),
           c = 0 \/ c \in Ends(stream), NEW all, all = Piece(c, t)
    PROVE  /\ Verdict(all) = "incomplete" => Ends(all) = {} /\ Len(all) <= MaxHead
           /\ Verdict(all) # "incomplete" => Verdict(all) = ReplyTo(RequestsIn(c) + 1)
           /\ Verdict(all) \in {"keep", "close"} =>
                 /\ FirstEnd(all) \in 1 .. Len(all)
                 /\ c + FirstEnd(all) \in Ends(stream)
                 /\ RequestsIn(c + FirstEnd(all)) = RequestsIn(c) + 1
<1>1. /\ all \in Seq(Units) /\ Len(all) = t - c
      /\ \A i \in 1 .. Len(all) : /\ all[i] = stream[c + i]
                                  /\ i \in Ends(all) <=> c + i \in Ends(stream)
      /\ \A j \in Ends(stream) : j <= c \/ t < j \/ j - c \in Ends(all)
  BY PieceFacts
<1>2. Ends(stream) \in SUBSET (1 .. Len(stream)) /\ Len(stream) \in Nat /\ MaxHead \in Nat
  BY EndsFinite, ConnectionAssumption
<1>3. CASE Ends(all) # {}
  <2>1. PICK f : f = FirstEnd(all)
    OBVIOUS
  <2>2. f \in Ends(all) /\ f \in 1 .. Len(all) /\ all[f] \in {"keep", "close", "bad"} /\ \A j \in Ends(all) : f <= j
    <3>1. Ends(all) \in SUBSET Nat
      BY DEF Ends
    <3>2. \E i \in Ends(all) : \A j \in Ends(all) : i <= j
      BY <1>3, <3>1, LeastExists
    <3>3. f \in Ends(all) /\ \A j \in Ends(all) : f <= j
      BY <2>1, <3>2 DEF FirstEnd
    <3> QED
      BY <1>1, <1>3, <2>1, <3>3, FirstEndFound
  <2>3. PICK e : e = c + f
    OBVIOUS
  <2>4. e \in Ends(stream) /\ stream[e] = all[f] /\ c < e /\ e - c - 1 = f - 1
    BY <1>1, <2>2, <2>3
  <2>5. \A j \in Ends(stream) : j <= c \/ e <= j
    BY <1>1, <1>2, <2>2, <2>3
  <2>6. RequestsIn(e) = RequestsIn(c) + 1
    BY <2>4, <2>5, RequestsNext
  <2>7. ReplyTo(RequestsIn(c) + 1) = IF f - 1 > MaxHead \/ all[f] = "bad" THEN "failed" ELSE all[f]
    BY <2>4, <2>5, ReplyNext
  <2>8. Verdict(all) = IF f - 1 > MaxHead \/ all[f] = "bad" THEN "failed" ELSE all[f]
    BY <1>3, <2>1 DEF Verdict
  <2>9. Verdict(all) # "incomplete"
    BY <2>2, <2>8
  <2> QED
    BY <2>1, <2>2, <2>3, <2>4, <2>6, <2>7, <2>8, <2>9
<1>4. CASE Ends(all) = {}
  <2>1. Verdict(all) = IF Len(all) > MaxHead THEN "failed" ELSE "incomplete"
    BY <1>4 DEF Verdict
  <2>2. ASSUME Len(all) > MaxHead PROVE ReplyTo(RequestsIn(c) + 1) = "failed"
    <3>1. PICK S : S = {j \in Ends(stream) : c < j}
      OBVIOUS
    <3>2. CASE S = {}
      <4>1. \A j \in Ends(stream) : j <= c
        BY <1>2, <3>1, <3>2
      <4> QED
        BY <4>1, ReplyNone
    <3>3. CASE S # {}
      <4>1. S \in SUBSET Nat
        BY <1>2, <3>1
      <4>2. PICK e \in S : \A j \in S : e <= j
        BY <3>3, <4>1, LeastExists
      <4>3. e \in Ends(stream) /\ c < e /\ \A j \in Ends(stream) : j <= c \/ e <= j
        BY <1>2, <3>1, <4>2
      <4>4. t < e
        BY <1>1, <1>2, <1>4, <4>3
      <4>5. e - c - 1 > MaxHead
        BY <1>1, <1>2, <2>2, <4>3, <4>4
      <4> QED
        BY <4>3, <4>5, ReplyNext
    <3> QED
      BY <3>2, <3>3
  <2>3. Len(all) \in Nat
    BY <1>1
  <2> QED
    BY <1>2, <1>4, <2>1, <2>2, <2>3
<1> QED
  BY <1>3, <1>4

-----------------------------------------------------------------------------
(* on_bytes and on_written *)

\* The connection q has made the verdict v of the bytes in all.
Answers(q, all, v) ==
    /\ WellFormed(q)
    /\ q.buf = IF v \in {"keep", "close"} THEN SubSeq(all, FirstEnd(all) + 1, Len(all)) ELSE all
    /\ v = "incomplete" => q.state = "Reading" /\ ~ q.done
    /\ v # "incomplete" => q.state = "Writing" /\ q.resp = v

\* on_bytes of a connection that reads: the verdict on all that is buffered
\* decides whether it answers, and what it keeps.
LEMMA OnBytesFacts ==
    ASSUME NEW k, WellFormed(k), k.state = "Reading", ~ k.done, NEW bytes \in Seq(Units)
    PROVE  Answers(OnBytes(k, bytes), k.buf \o bytes, Verdict(k.buf \o bytes))
<1> USE DEF Answers
<1>0. PICK all, v, q : all = k.buf \o bytes /\ v = Verdict(all) /\ q = OnBytes(k, bytes)
  OBVIOUS
<1>1. k \in Connections /\ WellFormed(q)
  BY <1>0, OnBytesType DEF WellFormed
<1>2. PushVerdict(k, bytes) = v
  BY <1>0 DEF PushVerdict
<1>3. PICK b : b = IF v \in {"keep", "close"} THEN SubSeq(all, FirstEnd(all) + 1, Len(all)) ELSE all
  OBVIOUS
<1>4. PICK p : p = Push(k, bytes)
  OBVIOUS
<1>5. p = [k EXCEPT !.buf = b, !.done = k.done \/ v # "incomplete"]
  BY <1>0, <1>2, <1>3, <1>4, Zenon DEF Push
<1>6. q = HandleStatus(p, v)
  BY <1>0, <1>2, <1>4 DEF OnBytes
<1>7. p.buf = b /\ p.state = "Reading" /\ p.done = (k.done \/ v # "incomplete")
  BY <1>1, <1>5 DEF Connections
<1>8. p \in Connections
  BY <1>1, <1>4, PushType
<1>9. ASSUME v = "incomplete" PROVE Answers(q, all, v)
  <2>1. q = p
    BY <1>6, <1>9 DEF HandleStatus
  <2>2. ~ p.done
    BY <1>7, <1>9, Zenon
  <2> QED
    BY <1>1, <1>3, <1>7, <1>9, <2>1, <2>2
<1>10. ASSUME v # "incomplete" PROVE Answers(q, all, v)
  <2>1. q = StartWriting(p, v)
    BY <1>6, <1>10 DEF HandleStatus
  <2>2. q.buf = p.buf /\ q.state = "Writing" /\ q.resp = v
    BY <1>8, <2>1 DEF StartWriting, Connections
  <2> QED
    BY <1>1, <1>3, <1>7, <1>10, <2>2
<1> QED
  BY <1>0, <1>9, <1>10

\* on_written: the buffer stays, and after a whole reply the connection reads
\* again or is closed.
LEMMA OnWrittenFacts ==
    ASSUME NEW k, WellFormed(k), k.state = "Writing", NEW n \in 1 .. k.pending,
           NEW q, q = OnWritten(k, n)
    PROVE  /\ WellFormed(q) /\ q.buf = k.buf
           /\ n < k.pending => q.state = "Writing" /\ q.resp = k.resp
           /\ n = k.pending /\ k.resp = "keep" => q.state = "Reading" /\ ~ q.done
           /\ n = k.pending /\ k.resp # "keep" => q.state = "Closed"
<1>1. k \in Connections /\ k.pending \in Nat /\ WellFormed(q)
  BY OnWrittenType DEF WellFormed, Connections
<1>2. CASE n < k.pending
  <2>1. q = [k EXCEPT !.pending = @ - n]
    BY <1>2 DEF OnWritten
  <2> QED
    BY <1>1, <1>2, <2>1 DEF Connections
<1>3. CASE n = k.pending /\ k.resp # "keep"
  <2>1. q = [k EXCEPT !.state = "Closed", !.pending = 0]
    BY <1>1, <1>3 DEF OnWritten, CloseAfterWrite
  <2>2. q.buf = k.buf /\ q.state = "Closed"
    BY <1>1, <2>1 DEF Connections
  <2> QED
    BY <1>1, <1>3, <2>2
<1>4. CASE n = k.pending /\ k.resp = "keep"
  <2>1. q = KeepAliveTurn(k)
    BY <1>1, <1>4 DEF OnWritten, CloseAfterWrite
  <2>2. PICK p : p = ParserReset(k)
    OBVIOUS
  <2>3. p \in Connections /\ p.buf = k.buf /\ ~ p.done
    BY <1>1, <2>2 DEF ParserReset, Connections
  <2>4. q.buf = p.buf /\ q.state = "Reading" /\ q.done = p.done
    BY <2>1, <2>2, <2>3 DEF KeepAliveTurn, Connections
  <2>5. ~ q.done
    BY <2>3, <2>4, Zenon
  <2> QED
    BY <1>1, <1>4, <2>3, <2>4, <2>5
<1> QED
  BY <1>1, <1>2, <1>3, <1>4

-----------------------------------------------------------------------------
(* The stream never changes *)

ReplyOf(s, i) ==
    LET e     == CHOOSE e \in Ends(s) : Cardinality({x \in Ends(s) : x <= e}) = i
        start == Max({0} \cup {j \in Ends(s) : j < e})
    IN  IF \/ Cardinality({x \in Ends(s) : x <= Len(s)}) < i \/ e - start - 1 > MaxHead \/ s[e] = "bad"
        THEN "failed"
        ELSE s[e]

LEMMA StreamFrame ==
    ASSUME stream' = stream
    PROVE  /\ \A i : RequestsIn(i)' = RequestsIn(i) /\ ReplyTo(i)' = ReplyTo(i)
           /\ \A c, t : Piece(c, t)' = Piece(c, t)
           /\ Ends(stream)' = Ends(stream)
<1>1. \A i : ReplyTo(i) = ReplyOf(stream, i)
  BY DEF ReplyTo, ReplyOf, RequestsIn
<1>2. \A i : ReplyTo(i)' = ReplyOf(stream', i)
  BY DEF ReplyTo, ReplyOf, RequestsIn
<1>3. \A i : ReplyTo(i)' = ReplyTo(i)
  BY <1>1, <1>2
<1>4. \A i : {j \in Ends(stream') : j <= i} = {j \in Ends(stream) : j <= i}
  OBVIOUS
<1> QED
  BY <1>3, <1>4 DEF RequestsIn, Piece

-----------------------------------------------------------------------------
(* The steps *)

LEMMA InitIInv == Init => IInv
<1> SUFFICES ASSUME Init PROVE IInv
  OBVIOUS
<1>1. /\ stream \in Streams /\ stream \in Seq(Units) /\ sent = 0 /\ taken = 0 /\ conn = New
      /\ replies = << >> /\ pc = "serving"
  BY BlockingAssumption DEF Init
<1>2. /\ WellFormed(conn) /\ conn.state = "Reading" /\ conn.buf = << >> /\ conn.done = FALSE
  BY <1>1, NewType DEF New
<1>3. Len(stream) \in Nat /\ Len(conn.buf) = 0 /\ Len(replies) = 0 /\ MaxHead \in Nat /\ ReadChunk \in Nat
  BY <1>1, <1>2, LenProperties, ConnectionAssumption, BlockingAssumption
<1>4. TypeOK
  <2>1. fin \in BOOLEAN /\ rst \in BOOLEAN /\ pipelined \in BOOLEAN
    BY DEF Init
  <2>2. replies \in Seq(Verdicts) /\ conn \in Connections
    BY <1>1, <1>2 DEF WellFormed
  <2> QED
    BY <1>1, <1>3, <2>1, <2>2 DEF TypeOK
<1>5. Cut = 0
  BY <1>1, <1>3 DEF Cut
<1>6. BufferI
  <2>1. Piece(0, 0) = << >>
    BY SubSeqEmpty DEF Piece
  <2> QED
    BY <1>1, <1>2, <1>3, <1>5, <2>1 DEF BufferI
<1>7. RequestsIn(0) = 0
  <2>1. /\ Ends(stream) \in SUBSET (1 .. Len(stream)) /\ RequestsIn(0) = Cardinality(EndsTo(0))
    BY <1>1, EndsFinite
  <2>2. EndsTo(0) = {}
    BY <1>3, <2>1 DEF EndsTo
  <2> QED
    BY <2>1, <2>2, FS_EmptySet, Zenon
<1>8. RepliesI
  <2>1. ~ conn.done
    BY <1>2, Zenon
  <2> QED
    BY <1>2, <1>3, <1>5, <1>7, <2>1 DEF RepliesI
<1>9. SequentialI
  <2>1. Ends(conn.buf) = {}
    BY <1>3 DEF Ends
  <2> QED
    BY <1>1, <1>3, <2>1 DEF SequentialI
<1> QED
  BY <1>4, <1>6, <1>8, <1>9 DEF IInv

\* A step that leaves the connection, what was read and the replies as they are.
LEMMA QuietStep ==
    ASSUME IInv, UNCHANGED <<stream, taken, conn, replies>>, TypeOK',
           ~ pipelined' => ~ pipelined /\ (sent' > 0 => RequestsIn(sent' - 1) <= Len(replies))
    PROVE  IInv'
<1>1. Cut' = Cut
  BY DEF Cut
<1>2. /\ \A i : RequestsIn(i)' = RequestsIn(i) /\ ReplyTo(i)' = ReplyTo(i)
      /\ \A c, t : Piece(c, t)' = Piece(c, t)
      /\ Ends(stream)' = Ends(stream)
  BY StreamFrame
<1>3. BufferI'
  BY <1>1, <1>2 DEF IInv, BufferI
<1>4. RepliesI'
  BY <1>1, <1>2 DEF IInv, RepliesI
<1>5. SequentialI'
  BY <1>2 DEF IInv, SequentialI
<1> QED
  BY <1>3, <1>4, <1>5 DEF IInv

LEMMA PeerStep == ASSUME IInv, PeerSend \/ PeerShutdown \/ PeerReset PROVE IInv'
<1>1. TypeOK /\ SequentialI
  BY DEF IInv
<1>2. UNCHANGED <<stream, taken, conn, replies, pc>>
  BY DEF PeerSend, PeerShutdown, PeerReset
<1>3. /\ stream \in Seq(Units) /\ Len(stream) \in Nat /\ sent \in Nat /\ taken \in Nat
      /\ taken <= sent /\ sent <= Len(stream)
  BY <1>1, StreamFacts
<1>4. fin' \in BOOLEAN /\ rst' \in BOOLEAN
  BY <1>1 DEF PeerSend, PeerShutdown, PeerReset, TypeOK
<1>5. CASE PeerSend
  <2>1. sent < Len(stream) /\ sent' = sent + 1 /\ pipelined' = (pipelined \/ RequestsIn(sent) > Len(replies))
    BY <1>5 DEF PeerSend
  <2>2. pipelined' \in BOOLEAN /\ (~ pipelined' => ~ pipelined /\ ~ (RequestsIn(sent) > Len(replies)))
    BY <2>1, Zenon
  <2>3. sent' - 1 = sent /\ sent' \in 0 .. Len(stream') /\ taken' \in 0 .. sent'
    BY <1>2, <1>3, <2>1
  <2>4. RequestsIn(sent) \in Nat /\ Len(replies) \in Nat
    BY <1>1, <1>3, EndsFinite, LenProperties DEF TypeOK
  <2>5. TypeOK'
    BY <1>1, <1>2, <1>4, <2>2, <2>3 DEF TypeOK
  <2>6. ~ pipelined' => ~ pipelined /\ (sent' > 0 => RequestsIn(sent' - 1) <= Len(replies))
    <3>1. ~ (RequestsIn(sent) > Len(replies)) => RequestsIn(sent' - 1) <= Len(replies)
      BY <2>3, <2>4
    <3> QED
      BY <2>2, <3>1, Zenon
  <2> QED
    BY <1>2, <2>5, <2>6, QuietStep
<1>6. CASE PeerShutdown \/ PeerReset
  <2>1. UNCHANGED <<sent, pipelined>>
    BY <1>6 DEF PeerShutdown, PeerReset
  <2>2. TypeOK'
    BY <1>1, <1>2, <1>4, <2>1 DEF TypeOK
  <2>3. ~ pipelined' => ~ pipelined /\ (sent' > 0 => RequestsIn(sent' - 1) <= Len(replies))
    BY <1>1, <2>1 DEF SequentialI
  <2> QED
    BY <1>2, <2>2, <2>3, QuietStep
<1> QED
  BY <1>5, <1>6

\* The end of serve_connection.
LEMMA ReturnStep == ASSUME IInv, Return, UNCHANGED peerVars PROVE IInv'
<1>1. pc' = "returned" /\ UNCHANGED <<stream, sent, fin, rst, pipelined, taken, conn, replies>>
  BY DEF Return, peerVars
<1>2. TypeOK'
  BY <1>1 DEF IInv, TypeOK
<1>3. ~ pipelined' => ~ pipelined /\ (sent' > 0 => RequestsIn(sent' - 1) <= Len(replies))
  BY <1>1 DEF IInv, SequentialI
<1> QED
  BY <1>1, <1>2, <1>3, QuietStep

\* A read: the parser is given the next piece of the stream.
LEMMA ReadStep == ASSUME IInv, Read, UNCHANGED peerVars PROVE IInv'
<1>1. TypeOK /\ BufferI /\ RepliesI /\ SequentialI
  BY DEF IInv
<1>2. UNCHANGED <<stream, sent, fin, rst, pipelined, pc, replies>>
  BY DEF Read, peerVars
<1>3. PICK c, n : c = Cut /\ n = Min({ReadChunk, sent - taken})
  OBVIOUS
<1>4. PICK t, bytes : t = taken + n /\ bytes = SubSeq(stream, taken + 1, t)
  OBVIOUS
<1>5. taken < sent /\ conn' = OnBytes(conn, bytes) /\ taken' = t
  BY <1>3, <1>4 DEF Read
<1>6. /\ stream \in Seq(Units) /\ Len(stream) \in Nat /\ sent \in Nat /\ taken \in Nat
      /\ taken <= sent /\ sent <= Len(stream)
  BY <1>1, StreamFacts
<1>7. ReadChunk \in Nat \ {0} /\ MaxHead \in Nat
  BY BlockingAssumption, ConnectionAssumption
<1>8. n \in Nat /\ n <= ReadChunk /\ t \in Nat /\ taken < t /\ t <= sent
  <2>1. sent - taken \in Nat
    BY <1>6
  <2>2. Min({ReadChunk, sent - taken}) = IF ReadChunk <= sent - taken THEN ReadChunk ELSE sent - taken
    BY <1>7, <2>1, MinOfTwo
  <2>3. n = IF ReadChunk <= sent - taken THEN ReadChunk ELSE sent - taken
    BY <1>3, <2>2
  <2> QED
    BY <1>4, <1>5, <1>6, <1>7, <2>3
<1>9. /\ WellFormed(conn) /\ conn \in Connections /\ conn.buf \in Seq(Units) /\ Len(conn.buf) \in Nat
      /\ Len(conn.buf) <= taken /\ conn.buf = Piece(c, taken) /\ (c = 0 \/ c \in Ends(stream))
  <2>1. WellFormed(conn) /\ conn.buf = Piece(c, taken) /\ Len(conn.buf) <= taken /\ (c = 0 \/ c \in Ends(stream))
    BY <1>1, <1>3 DEF BufferI
  <2>2. conn \in Connections
    BY <2>1 DEF WellFormed
  <2>3. conn.buf \in Seq(Units)
    BY <2>2 DEF Connections
  <2> QED
    BY <2>1, <2>2, <2>3, LenProperties
<1>10. c \in Nat /\ c <= taken /\ c + Len(conn.buf) = taken
  BY <1>3, <1>6, <1>9 DEF Cut
<1>11. conn.state = "Reading" /\ ~ conn.done /\ RequestsIn(c) = Len(replies)
  <2>1. conn.state = "Reading"
    BY <1>9 DEF Read, WantRead, ActionForState, Connections, States
  <2> QED
    BY <1>1, <1>3, <2>1 DEF RepliesI
<1>12. PICK all : all = conn.buf \o bytes
  OBVIOUS
<1>13. all = Piece(c, t) /\ bytes \in Seq(Units)
  <2>1. \A i \in taken + 1 .. t : stream[i] \in Units
    BY <1>6, <1>8, ElementOfSeq
  <2>2. bytes \in Seq(Units)
    BY <1>4, <1>6, <1>8, <2>1, SubSeqProperties
  <2>3. c + 1 \in 1 .. Len(stream) + 1 /\ taken \in (c + 1) - 1 .. Len(stream) /\ t \in taken .. Len(stream)
    BY <1>6, <1>8, <1>10
  <2>4. SubSeq(stream, c + 1, taken) \o SubSeq(stream, taken + 1, t) = SubSeq(stream, c + 1, t)
    BY <1>6, <2>3, ConcatAdjacentSubSeq
  <2> QED
    BY <1>4, <1>9, <1>12, <2>2, <2>4 DEF Piece
<1>14. PICK v : v = Verdict(all)
  OBVIOUS
<1>15. /\ WellFormed(conn')
       /\ conn'.buf = IF v \in {"keep", "close"} THEN SubSeq(all, FirstEnd(all) + 1, Len(all)) ELSE all
       /\ v = "incomplete" => conn'.state = "Reading" /\ ~ conn'.done
       /\ v # "incomplete" => conn'.state = "Writing" /\ conn'.resp = v
  <2>1. Answers(OnBytes(conn, bytes), conn.buf \o bytes, Verdict(conn.buf \o bytes))
    BY <1>9, <1>11, <1>13, OnBytesFacts
  <2>2. Answers(conn', all, v)
    BY <1>5, <1>12, <1>14, <2>1
  <2> QED
    BY <2>2 DEF Answers
<1>16. c <= t /\ t <= Len(stream)
  BY <1>6, <1>8, <1>10
<1>17. all \in Seq(Units) /\ Len(all) = t - c
  BY <1>6, <1>8, <1>10, <1>13, <1>16, PieceFacts
<1>18. /\ v = "incomplete" => Ends(all) = {} /\ Len(all) <= MaxHead
       /\ v # "incomplete" => v = ReplyTo(RequestsIn(c) + 1)
       /\ v \in {"keep", "close"} => /\ FirstEnd(all) \in 1 .. Len(all)
                                     /\ c + FirstEnd(all) \in Ends(stream)
                                     /\ RequestsIn(c + FirstEnd(all)) = RequestsIn(c) + 1
  BY <1>6, <1>8, <1>9, <1>10, <1>13, <1>14, <1>16, VerdictReply
<1>19. PICK d : d = IF v \in {"keep", "close"} THEN c + FirstEnd(all) ELSE c
  OBVIOUS
<1>20. /\ d \in Nat /\ c <= d /\ d <= t /\ (d = 0 \/ d \in Ends(stream))
       /\ v = "keep" => RequestsIn(d) = RequestsIn(c) + 1
       /\ v \notin {"keep", "close"} => d = c
  BY <1>8, <1>9, <1>10, <1>16, <1>17, <1>18, <1>19
<1>21. conn'.buf = Piece(d, t)
  <2>1. CASE v \in {"keep", "close"}
    <3>1. FirstEnd(all) \in 1 .. t - c
      BY <1>17, <1>18, <2>1
    <3>2. SubSeq(Piece(c, t), FirstEnd(all) + 1, t - c) = Piece(c + FirstEnd(all), t)
      BY <1>6, <1>8, <1>10, <1>16, <3>1, PieceRest
    <3> QED
      BY <1>13, <1>15, <1>17, <1>19, <2>1, <3>2
  <2>2. CASE v \notin {"keep", "close"}
    BY <1>13, <1>15, <1>19, <2>2
  <2> QED
    BY <2>1, <2>2
<1>22. Len(conn'.buf) = t - d
  BY <1>6, <1>8, <1>16, <1>20, <1>21, PieceFacts
<1>23. Cut' = d
  BY <1>5, <1>8, <1>20, <1>22 DEF Cut
<1>24. /\ \A i : RequestsIn(i)' = RequestsIn(i) /\ ReplyTo(i)' = ReplyTo(i)
       /\ \A x, y : Piece(x, y)' = Piece(x, y)
       /\ Ends(stream)' = Ends(stream)
  BY <1>2, StreamFrame
<1>25. TypeOK'
  <2>1. conn' \in Connections /\ taken' \in 0 .. sent
    BY <1>5, <1>6, <1>8, <1>15 DEF WellFormed
  <2> QED
    BY <1>1, <1>2, <2>1 DEF TypeOK
<1>26. BufferI'
  <2>1. Len(conn'.buf) <= taken'
    BY <1>5, <1>8, <1>20, <1>22
  <2> QED
    BY <1>5, <1>15, <1>20, <1>21, <1>23, <1>24, <2>1 DEF BufferI
<1>27. RepliesI'
  <2>1. \A i \in 1 .. Len(replies) : replies[i] = ReplyTo(i) /\ replies[i] = "keep"
    BY <1>1, <1>11 DEF RepliesI
  <2>2. v = "incomplete" => d = c
    BY <1>20
  <2> QED
    BY <1>2, <1>11, <1>15, <1>18, <1>20, <1>23, <1>24, <2>1, <2>2 DEF RepliesI
<1>28. SequentialI'
  <2> SUFFICES ASSUME ~ pipelined'
               PROVE  /\ sent > 0 => RequestsIn(sent - 1) <= Len(replies)
                      /\ conn'.state = "Reading" => Ends(conn'.buf) = {} /\ Len(conn'.buf) <= MaxHead
                      /\ Len(conn'.buf) <= MaxHead + ReadChunk
    BY <1>2, <1>24 DEF SequentialI
  <2>1. ~ pipelined
    BY <1>2
  <2>2. (sent > 0 => RequestsIn(sent - 1) <= Len(replies)) /\ Len(conn.buf) <= MaxHead
    BY <1>1, <1>11, <2>1 DEF SequentialI
  <2>3. conn'.state = "Reading" => v = "incomplete" /\ conn'.buf = all
    BY <1>15
  <2>4. Len(conn'.buf) <= MaxHead + ReadChunk
    BY <1>4, <1>6, <1>7, <1>8, <1>9, <1>10, <1>20, <1>22, <2>2
  <2> QED
    BY <1>18, <2>2, <2>3, <2>4
<1> QED
  BY <1>25, <1>26, <1>27, <1>28 DEF IInv

\* A write: a part of the reply goes out, or the rest of it.
LEMMA WriteStep == ASSUME IInv, Write, UNCHANGED peerVars PROVE IInv'
<1>1. TypeOK /\ BufferI /\ RepliesI /\ SequentialI
  BY DEF IInv
<1>2. UNCHANGED <<stream, sent, fin, rst, pipelined, pc, taken>>
  BY DEF Write, peerVars
<1>3. WellFormed(conn) /\ conn \in Connections /\ conn.resp \in Verdicts /\ conn.pending \in Nat
  BY <1>1 DEF BufferI, WellFormed, Connections
<1>4. conn.state = "Writing" /\ PendingWrite(conn) = conn.pending
  BY <1>3 DEF Write, WantWrite, ActionForState, PendingWrite, Connections, States
<1>5. PICK n \in 1 .. conn.pending :
          /\ conn' = OnWritten(conn, n)
          /\ replies' = IF n = conn.pending THEN Append(replies, conn.resp) ELSE replies
  BY <1>4 DEF Write
<1>6. /\ WellFormed(conn') /\ conn'.buf = conn.buf
      /\ n < conn.pending => conn'.state = "Writing" /\ conn'.resp = conn.resp
      /\ n = conn.pending /\ conn.resp = "keep" => conn'.state = "Reading" /\ ~ conn'.done
      /\ n = conn.pending /\ conn.resp # "keep" => conn'.state = "Closed"
  BY <1>3, <1>4, <1>5, OnWrittenFacts
<1>7. /\ stream \in Seq(Units) /\ Len(stream) \in Nat /\ sent \in Nat /\ taken \in Nat
      /\ taken <= sent /\ sent <= Len(stream)
  BY <1>1, StreamFacts
<1>8. Cut' = Cut
  BY <1>2, <1>6 DEF Cut
<1>9. /\ \A i : RequestsIn(i)' = RequestsIn(i) /\ ReplyTo(i)' = ReplyTo(i)
      /\ \A x, y : Piece(x, y)' = Piece(x, y)
      /\ Ends(stream)' = Ends(stream)
  BY <1>2, StreamFrame
<1>10. PICK m : m = Len(replies)
  OBVIOUS
<1>11. m \in Nat /\ replies \in Seq(Verdicts)
  BY <1>1, <1>10, LenProperties DEF TypeOK
<1>12. PICK r : r = conn.resp
  OBVIOUS
<1>13. /\ Append(replies, r) \in Seq(Verdicts) /\ Len(Append(replies, r)) = m + 1
       /\ \A i \in 1 .. m : Append(replies, r)[i] = replies[i]
       /\ Append(replies, r)[m + 1] = r
  BY <1>3, <1>10, <1>11, <1>12, AppendProperties
<1>14. BufferI'
  BY <1>1, <1>2, <1>6, <1>8, <1>9 DEF BufferI
<1>15. TypeOK'
  <2>1. conn' \in Connections /\ replies' \in Seq(Verdicts)
    BY <1>5, <1>6, <1>11, <1>12, <1>13 DEF WellFormed
  <2> QED
    BY <1>1, <1>2, <2>1 DEF TypeOK
<1>16. (\A i \in 1 .. m : replies[i] = ReplyTo(i) /\ replies[i] = "keep") /\ r = ReplyTo(m + 1)
  BY <1>1, <1>4, <1>10, <1>12 DEF RepliesI
<1>17. CASE n < conn.pending
  <2>1. replies' = replies
    BY <1>5, <1>17
  <2>2. RepliesI'
    BY <1>1, <1>4, <1>6, <1>8, <1>9, <1>17, <2>1 DEF RepliesI
  <2>3. SequentialI'
    BY <1>1, <1>2, <1>6, <1>9, <1>17, <2>1 DEF SequentialI
  <2> QED
    BY <1>14, <1>15, <2>2, <2>3 DEF IInv
<1>18. CASE n = conn.pending
  <2>1. replies' = Append(replies, r) /\ Len(replies') = m + 1
    BY <1>5, <1>12, <1>13, <1>18
  <2>2. \A i \in 1 .. m + 1 : i \in 1 .. m \/ i = m + 1
    BY <1>11
  <2>3. \A i \in 1 .. m + 1 : replies'[i] = ReplyTo(i) /\ (i < m + 1 \/ r = "keep" => replies'[i] = "keep")
    BY <1>11, <1>13, <1>16, <2>1, <2>2
  <2>4. r = "keep" => RequestsIn(Cut) = m + 1
    BY <1>1, <1>4, <1>10, <1>12 DEF RepliesI
  <2>5. conn'.state = (IF r = "keep" THEN "Reading" ELSE "Closed") /\ (r = "keep" => ~ conn'.done)
    BY <1>6, <1>12, <1>18
  <2>6. RepliesI'
    BY <1>8, <1>9, <2>1, <2>3, <2>4, <2>5 DEF RepliesI
  <2>7. SequentialI'
    <3> SUFFICES ASSUME ~ pipelined'
                 PROVE  /\ sent > 0 => RequestsIn(sent - 1) <= m + 1
                        /\ conn'.state = "Reading" => Ends(conn'.buf) = {} /\ Len(conn'.buf) <= MaxHead
                        /\ Len(conn'.buf) <= MaxHead + ReadChunk
      BY <1>2, <1>9, <2>1 DEF SequentialI
    <3>1. (sent > 0 => RequestsIn(sent - 1) <= m) /\ Len(conn.buf) <= MaxHead + ReadChunk
      BY <1>1, <1>2, <1>10 DEF SequentialI
    <3>2. ASSUME r = "keep" PROVE Len(conn.buf) = 0
      <4>1. Len(conn.buf) \in Nat /\ Len(conn.buf) <= taken
        <5>1. conn.buf \in Seq(Units)
          BY <1>3 DEF Connections
        <5> QED
          BY <1>1, <5>1, LenProperties DEF BufferI
      <4>2. Cut \in Nat /\ Cut = taken - Len(conn.buf)
        BY <1>7, <4>1 DEF Cut
      <4>3. CASE sent = 0
        BY <1>7, <4>1, <4>3
      <4>4. CASE sent > 0
        <5>1. sent - 1 \in Nat /\ RequestsIn(sent - 1) \in Nat /\ RequestsIn(sent - 1) <= m
          BY <1>7, <3>1, <4>4, EndsFinite
        <5>2. ~ (Cut <= sent - 1)
          <6> SUFFICES ASSUME Cut <= sent - 1 PROVE FALSE
            OBVIOUS
          <6>1. RequestsIn(Cut) <= RequestsIn(sent - 1)
            BY <1>7, <4>2, <5>1, RequestsMonotone
          <6> QED
            BY <1>11, <2>4, <3>2, <5>1, <6>1
        <5> QED
          BY <1>7, <4>1, <4>2, <5>2
      <4> QED
        BY <1>7, <4>3, <4>4
    <3>3. conn'.state = "Reading" => Ends(conn'.buf) = {} /\ Len(conn'.buf) <= MaxHead
      <4> SUFFICES ASSUME conn'.state = "Reading" PROVE Ends(conn'.buf) = {} /\ Len(conn'.buf) <= MaxHead
        OBVIOUS
      <4>1. Len(conn'.buf) = 0
        BY <1>6, <2>5, <3>2
      <4> QED
        BY <4>1, ConnectionAssumption DEF Ends
    <3>4. sent > 0 => RequestsIn(sent - 1) <= m + 1
      BY <1>7, <1>11, <3>1, EndsFinite
    <3> QED
      BY <1>6, <3>1, <3>3, <3>4
  <2> QED
    BY <1>14, <1>15, <2>6, <2>7 DEF IInv
<1> QED
  BY <1>3, <1>17, <1>18

LEMMA StepIInv == ASSUME IInv, [Next]_vars PROVE IInv'
<1>1. ASSUME serve_connection PROVE IInv'
  <2>1. UNCHANGED peerVars
    BY <1>1 DEF serve_connection
  <2>2. Read \/ Return \/ Write
    BY <1>1 DEF serve_connection, ReadEof, ReadError, WriteError, Close
  <2> QED
    BY <2>1, <2>2, ReadStep, ReturnStep, WriteStep
<1>2. ASSUME UNCHANGED vars PROVE IInv'
  <2>1. UNCHANGED <<stream, sent, taken, fin, rst, conn, pc, replies, pipelined>>
    BY <1>2 DEF vars
  <2>2. TypeOK'
    BY <2>1 DEF IInv, TypeOK
  <2>3. ~ pipelined' => ~ pipelined /\ (sent' > 0 => RequestsIn(sent' - 1) <= Len(replies))
    BY <2>1 DEF IInv, SequentialI
  <2> QED
    BY <2>1, <2>2, <2>3, QuietStep
<1> QED
  BY <1>1, <1>2, PeerStep DEF Next

-----------------------------------------------------------------------------
(* The theorems *)

\* In every state of serve_connection the buffer is the piece of the stream
\* behind the last request consumed, and the replies are those deserved.
THEOREM BlockingInvariant == Spec => []IInv
<1>1. Init => IInv
  BY InitIInv
<1>2. IInv /\ [Next]_vars => IInv'
  BY StepIInv
<1> QED
  BY <1>1, <1>2, PTL DEF Spec

\* Every variable stays in its domain, the connection in the states of conn.rs.
THEOREM BlockingTypeCorrect == Spec => []TypeOK
<1>1. IInv => TypeOK
  BY DEF IInv
<1> QED
  BY <1>1, BlockingInvariant, PTL

\* Responses answer the requests of the stream one for one and in order, and
\* nothing is answered after a response that closes, however the stream is cut
\* into reads (on_bytes, on_written, RequestParser::push and reset).
THEOREM RepliesAlwaysAnswer == Spec => []RepliesAnswerRequests
<1>1. IInv => RepliesAnswerRequests
  BY DEF IInv, RepliesI, RepliesAnswerRequests
<1> QED
  BY <1>1, BlockingInvariant, PTL

\* serve_connection waits for a peer that does not pipeline only when all its
\* complete requests are answered.
THEOREM SequentialPeerNeverOwed == Spec => []SequentialPeerNotOwed
<1>1. ASSUME IInv PROVE SequentialPeerNotOwed
  <2> SUFFICES ASSUME ~ pipelined, WantRead PROVE RequestsIn(taken) <= Len(replies)
    BY DEF SequentialPeerNotOwed, NothingOwedWhileReading
  <2>1. TypeOK /\ BufferI /\ RepliesI /\ SequentialI
    BY <1>1 DEF IInv
  <2>2. conn \in Connections /\ conn.buf \in Seq(Units)
    BY <2>1 DEF TypeOK, Connections
  <2>3. conn.state = "Reading"
    BY <2>2 DEF WantRead, ActionForState, Connections, States
  <2>4. RequestsIn(Cut) = Len(replies) /\ Ends(conn.buf) = {}
    BY <2>1, <2>3 DEF RepliesI, SequentialI
  <2>5. stream \in Seq(Units) /\ Len(stream) \in Nat /\ taken \in Nat /\ taken <= Len(stream)
    BY <2>1, StreamFacts
  <2>6. Len(conn.buf) \in Nat /\ Len(conn.buf) <= taken /\ conn.buf = Piece(Cut, taken)
    BY <2>1, <2>2, LenProperties DEF BufferI
  <2>7. Cut \in Nat /\ Cut <= taken
    BY <2>5, <2>6 DEF Cut
  <2>8. \A j \in Ends(stream) : j <= Cut \/ taken < j
    BY <2>4, <2>5, <2>6, <2>7, PieceFacts
  <2>9. RequestsIn(Cut) = RequestsIn(taken) /\ RequestsIn(taken) \in Nat
    BY <2>5, <2>7, <2>8, RequestsMonotone, EndsFinite
  <2> QED
    BY <2>4, <2>9
<1> QED
  BY <1>1, BlockingInvariant, PTL

\* For such a peer the parser's buffer never exceeds an unfinished head and one
\* read, for every ceiling and every size of reads.
THEOREM SequentialBufferAlwaysBounded == Spec => []SequentialBufferBounded
<1>1. IInv => SequentialBufferBounded
  BY DEF IInv, SequentialI, SequentialBufferBounded
<1> QED
  BY <1>1, BlockingInvariant, PTL
=============================================================================
