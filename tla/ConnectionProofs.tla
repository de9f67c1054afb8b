-------------------------- MODULE ConnectionProofs --------------------------
(***************************************************************************)
(* What the operations of Connection do to a connection's state, for every *)
(* input: the facts the proofs of its drivers rest on.                     *)
(***************************************************************************)
EXTENDS Connection, Integers, FiniteSetsExt, SequenceTheorems, WellFoundedInduction, TLAPS

(* Least elements of sets of naturals *)

\* A non-empty set of naturals has a least element.
LEMMA LeastExists ==
    ASSUME NEW S \in SUBSET Nat, S # {}
    PROVE  \E x \in S : \A y \in S : x <= y
<1> DEFINE R == {ss \in Nat \X Nat : ss[1] < ss[2]}
<1>1. IsWellFoundedOn(R, Nat)
  BY NatLessThanWellFounded, Zenon DEF OpToRel
<1>2. \A x, y \in Nat : y < x => <<y, x>> \in R
  OBVIOUS
<1> HIDE DEF R
<1>3. PICK x \in S : \A y \in S : ~(<<y, x>> \in R)
  BY <1>1, WFMin
<1>4. \A y \in S : x <= y
  <2> TAKE y \in S
  <2>1. ~(y < x)
    BY <1>2, <1>3, Zenon
  <2> QED
    BY <2>1
<1> QED
  BY <1>4

\* Min is that element.
LEMMA MinIsLeast ==
    ASSUME NEW S \in SUBSET Nat, S # {}
    PROVE  Min(S) \in S /\ \A x \in S : Min(S) <= x
BY LeastExists DEF Min

\* Min of two naturals, as used for the length of a read or a write.
LEMMA MinOfTwo ==
    ASSUME NEW a \in Nat, NEW b \in Nat
    PROVE  Min({a, b}) = IF a <= b THEN a ELSE b
<1>1. Min({a, b}) \in {a, b} /\ \A x \in {a, b} : Min({a, b}) <= x
  BY MinIsLeast
<1> QED
  BY <1>1

-----------------------------------------------------------------------------
(* The operations of a connection *)

\* A connection that has a response to send has some of it left to send.
WellFormed(k) == k \in Connections /\ (k.state = "Writing" => k.pending > 0)

\* A request that is complete in buf has a first end there.
LEMMA FirstEndFound ==
    ASSUME NEW buf \in Seq(Units), Ends(buf) # {}
    PROVE  FirstEnd(buf) \in 1 .. Len(buf) /\ buf[FirstEnd(buf)] \in {"keep", "close", "bad"}
<1>1. Ends(buf) \in SUBSET Nat
  BY DEF Ends
<1>2. \E i \in Ends(buf) : \A j \in Ends(buf) : i <= j
  BY <1>1, LeastExists
<1>3. FirstEnd(buf) \in Ends(buf)
  BY <1>2 DEF FirstEnd
<1> QED
  BY <1>3 DEF Ends, Units

\* The parser's verdict is one of Verdicts, and a request is accepted only
\* when its end is in the buffer.
LEMMA VerdictType ==
    ASSUME NEW buf \in Seq(Units)
    PROVE  /\ Verdict(buf) \in Verdicts
           /\ Verdict(buf) \in {"keep", "close"} => Ends(buf) # {}
BY FirstEndFound DEF Verdict, Verdicts

\* push and reset keep the connection's other fields and its type.
LEMMA PushType ==
    ASSUME NEW k \in Connections, NEW bytes \in Seq(Units)
    PROVE  /\ Push(k, bytes) \in Connections
           /\ PushVerdict(k, bytes) \in Verdicts
           /\ Push(k, bytes).state = k.state /\ Push(k, bytes).expired = k.expired
<1> DEFINE all == k.buf \o bytes
<1>1. all \in Seq(Units)
  BY ConcatProperties DEF Connections
<1>2. PushVerdict(k, bytes) \in Verdicts
  BY <1>1, VerdictType DEF PushVerdict, Verdicts
<1>3. PushVerdict(k, bytes) \in {"keep", "close"} => Ends(all) # {}
  BY <1>1, VerdictType DEF PushVerdict
<1> HIDE DEF all
<1>4. Ends(all) # {} => SubSeq(all, FirstEnd(all) + 1, Len(all)) \in Seq(Units)
  BY <1>1, FirstEndFound, SubSeqProperties
<1>5. k.done \in BOOLEAN
  BY DEF Connections
<1>6. (k.done \/ PushVerdict(k, bytes) # "incomplete") \in BOOLEAN
  OBVIOUS
<1>7. (IF PushVerdict(k, bytes) \in {"keep", "close"}
       THEN SubSeq(all, FirstEnd(all) + 1, Len(all)) ELSE all) \in Seq(Units)
  BY <1>1, <1>3, <1>4
<1>8. Push(k, bytes) = [k EXCEPT
            !.buf  = IF PushVerdict(k, bytes) \in {"keep", "close"}
                     THEN SubSeq(all, FirstEnd(all) + 1, Len(all))
                     ELSE all,
            !.done = k.done \/ PushVerdict(k, bytes) # "incomplete"]
  BY DEF Push, all
<1> QED
  BY <1>2, <1>6, <1>7, <1>8 DEF Connections

\* start_writing leaves a whole response to send.
LEMMA StartWritingType ==
    ASSUME NEW k \in Connections, NEW v \in Verdicts
    PROVE  /\ StartWriting(k, v) \in Connections
           /\ StartWriting(k, v).state = "Writing"
           /\ StartWriting(k, v).pending > 0
           /\ StartWriting(k, v).expired = k.expired
<1>1. "Writing" \in States /\ RespLen \in Nat /\ RespLen > 0
  BY ConnectionAssumption DEF States
<1>2. StartWriting(k, v) \in Connections
  BY <1>1 DEF StartWriting, Connections
<1>3. StartWriting(k, v).state = "Writing"
  BY DEF StartWriting, Connections
<1>4. StartWriting(k, v).pending = RespLen
  BY DEF StartWriting, Connections
<1>5. StartWriting(k, v).expired = k.expired
  BY DEF StartWriting, Connections
<1> QED
  BY <1>1, <1>2, <1>3, <1>4, <1>5

\* on_bytes leaves a well-formed connection that reads or writes; one that is
\* not Reading is left as it is.
LEMMA OnBytesType ==
    ASSUME NEW k, WellFormed(k), NEW bytes \in Seq(Units)
    PROVE  /\ WellFormed(OnBytes(k, bytes))
           /\ k.state = "Reading" => OnBytes(k, bytes).state \in {"Reading", "Writing"}
           /\ OnBytes(k, bytes).expired = k.expired
<1>1. k \in Connections
  BY DEF WellFormed
<1>2. CASE k.state # "Reading"
  BY <1>2 DEF OnBytes, WellFormed
<1>3. CASE k.state = "Reading"
  <2> DEFINE p == Push(k, bytes)
             v == PushVerdict(k, bytes)
  <2>1. p \in Connections /\ v \in Verdicts /\ p.state = "Reading" /\ p.expired = k.expired
    BY <1>1, <1>3, PushType
  <2>2. OnBytes(k, bytes) = HandleStatus(p, v)
    BY <1>3 DEF OnBytes
  <2> HIDE DEF p, v
  <2>3. /\ StartWriting(p, v) \in Connections
        /\ StartWriting(p, v).state = "Writing"
        /\ StartWriting(p, v).pending > 0
        /\ StartWriting(p, v).expired = p.expired
    BY <2>1, StartWritingType
  <2> QED
    BY <1>3, <2>1, <2>2, <2>3 DEF HandleStatus, WellFormed
<1> QED
  BY <1>2, <1>3

\* on_written of at least one and at most the pending units: a partial write
\* keeps the connection Writing, a full one leaves it Reading or Closed.
LEMMA OnWrittenType ==
    ASSUME NEW k, WellFormed(k), k.state = "Writing", NEW n \in 1 .. k.pending
    PROVE  /\ WellFormed(OnWritten(k, n))
           /\ OnWritten(k, n).state = "Writing" <=> n < k.pending
<1>1. k \in Connections /\ k.pending \in Nat
  BY DEF WellFormed, Connections
<1>2. CASE n < k.pending
  <2>1. OnWritten(k, n) = [k EXCEPT !.pending = @ - n]
    BY <1>2 DEF OnWritten
  <2> QED
    BY <1>1, <1>2, <2>1 DEF WellFormed, Connections
<1>3. CASE ~(n < k.pending) /\ CloseAfterWrite(k)
  <2>1. OnWritten(k, n) = [k EXCEPT !.state = "Closed", !.pending = 0]
    BY <1>3 DEF OnWritten
  <2>2. [k EXCEPT !.state = "Closed", !.pending = 0] \in Connections
    <3>1. "Closed" \in States /\ 0 \in Nat
      BY DEF States
    <3> QED
      BY <1>1, <3>1 DEF Connections
  <2>3. [k EXCEPT !.state = "Closed", !.pending = 0].state = "Closed"
    BY <1>1 DEF Connections
  <2> QED
    BY <1>1, <1>3, <2>1, <2>2, <2>3 DEF WellFormed
<1>4. CASE ~(n < k.pending) /\ ~CloseAfterWrite(k)
  <2>1. OnWritten(k, n) = KeepAliveTurn(k)
    BY <1>4 DEF OnWritten
  <2>2. ParserReset(k) \in Connections
    BY <1>1 DEF Connections, ParserReset
  <2>3. KeepAliveTurn(k) \in Connections
    BY <2>2 DEF Connections, States, Verdicts, KeepAliveTurn
  <2>4. KeepAliveTurn(k).state = "Reading"
    BY <2>2 DEF Connections, KeepAliveTurn
  <2> QED
    BY <1>1, <1>4, <2>1, <2>3, <2>4 DEF WellFormed
<1> QED
  BY <1>2, <1>3, <1>4

\* The state New and the passing of the deadline.
LEMMA NewType == WellFormed(New) /\ New.state = "Reading"
BY DEF WellFormed, New, Connections, States, Verdicts

LEMMA PassDeadlineType ==
    ASSUME NEW k, WellFormed(k)
    PROVE  WellFormed(PassDeadline(k)) /\ PassDeadline(k).state = k.state
BY DEF WellFormed, PassDeadline, Connections
=============================================================================
