------------------------- MODULE RequestParserProofs -------------------------
(***************************************************************************)
(* Proofs that the properties of RequestParser hold for every stream and   *)
(* every value of the ceilings.                                            *)
(***************************************************************************)
EXTENDS RequestParser, SequenceTheorems, FiniteSetTheorems, WellFoundedInduction, TLAPS

(* The inductive invariant *)

\* The resumed search starts inside buf, or at the start of the line.
ScanInside == line_start < scanned => scanned < Len(buf)

\* What the ceilings have established of the part of the request parsed so far.
CeilingsSoFar ==
    /\ state = "Headers" => header_block_start <= MaxRequestLine + 2
    /\ state = "Body" => /\ body_start <= MaxRequestLine + 2 + MaxHeaderBytes
                         /\ content_length <= MaxBody

\* The bytes taken out of buf were pushed before.
ConsumedWasFed ==
    /\ fed <= Len(stream)
    /\ base <= fed
    /\ status = "complete" => base + consumed <= fed

Safe ==
    /\ IndicesInBounds
    /\ state \in {"RequestLine", "Headers"} => ScanInside
    /\ ScanSkipsNothing
    /\ CeilingsSoFar
    /\ BoundedWhileIncomplete

IndInv == TypeOK /\ Safe

-----------------------------------------------------------------------------
(* Lemmas on the operators *)

\* A non-empty set of naturals has a least element, its Min.
LEMMA LeastOf ==
    ASSUME NEW S \in SUBSET Nat, S # {}
    PROVE  Min(S) \in S /\ \A y \in S : Min(S) <= y
<1> DEFINE R == {ss \in Nat \X Nat : ss[1] < ss[2]}
<1>1. IsWellFoundedOn(R, Nat)
  BY NatLessThanWellFounded, Zenon DEF OpToRel
<1>2. \A x, y \in Nat : y < x => <<y, x>> \in R
  OBVIOUS
<1> HIDE DEF R
<1>3. PICK x \in S : \A y \in S : ~(<<y, x>> \in R)
  BY <1>1, WFMin
<1>4. \A y \in S : ~(y < x)
  BY <1>2, <1>3, Zenon
<1>5. \A y \in S : x <= y
  BY <1>4
<1> QED
  BY <1>5 DEF Min

\* An element below all the others is the Min.
LEMMA LeastIs ==
    ASSUME NEW S \in SUBSET Nat, NEW x \in S, \A y \in S : x <= y
    PROVE  Min(S) = x
<1>1. Min(S) \in S /\ Min(S) <= x /\ Min(S) \in Nat /\ x \in Nat
  BY LeastOf
<1>2. x <= Min(S)
  BY <1>1
<1> QED
  BY <1>1, <1>2

\* The end of line next_crlf finds is a CRLF inside buf, and the first one from
\* where it began to search.
LEMMA EolFound ==
    ASSUME TypeOK, Eols # {}
    PROVE  /\ Eol \in Nat
           /\ ScanFrom <= Eol /\ line_start <= Eol
           /\ Eol + 2 <= Len(buf)
<1>1. ScanFrom \in Nat /\ line_start <= ScanFrom /\ line_start \in Nat /\ Len(buf) \in Nat
  BY DEF TypeOK, ScanFrom
<1>2. Eols \in SUBSET Nat
  BY <1>1 DEF Eols
<1>3. Eol \in Eols
  BY <1>2, LeastOf DEF Eol
<1>4. Eol \in ScanFrom .. Len(buf) /\ CrlfAt(buf, Eol)
  BY <1>3 DEF Eols
<1> QED
  BY <1>1, <1>4 DEF CrlfAt

\* A search that finds nothing leaves no end of line behind where it resumes,
\* and resumes inside buf.
LEMMA ScanEndSound ==
    ASSUME TypeOK, Eols = {}, ScanInside,
           \A i \in line_start .. scanned - 1 : ~CrlfAt(buf, i)
    PROVE  /\ ScanEnd \in Nat
           /\ line_start < ScanEnd => ScanEnd < Len(buf)
           /\ \A i \in line_start .. ScanEnd - 1 : ~CrlfAt(buf, i)
<1>1. Len(buf) \in Nat /\ line_start \in Nat /\ scanned \in Nat
  BY DEF TypeOK
<1>2. ScanEnd \in Nat /\ (line_start < ScanEnd => ScanEnd < Len(buf))
  BY <1>1 DEF ScanEnd, ScanFrom, ScanInside
<1>3. \A i \in ScanFrom .. Len(buf) : ~CrlfAt(buf, i)
  BY DEF Eols
<1>4. ASSUME NEW i \in line_start .. ScanEnd - 1
      PROVE  ~CrlfAt(buf, i)
  <2>1. CASE i < scanned
    BY <1>1, <1>2, <2>1
  <2>2. CASE ~(i < scanned)
    <3>1. i \in ScanFrom .. Len(buf)
      BY <1>1, <1>2, <2>2 DEF ScanEnd, ScanFrom
    <3> QED
      BY <1>3, <3>1
  <2> QED
    BY <2>1, <2>2
<1> QED
  BY <1>2, <1>4

\* Appending bytes makes no end of line where the search has been.
LEMMA AppendKeepsScan ==
    ASSUME NEW s \in Seq(Bytes), NEW t \in Seq(Bytes), NEW i \in Nat,
           i + 1 < Len(s), ~CrlfAt(s, i)
    PROVE  ~CrlfAt(s \o t, i)
BY ConcatProperties DEF CrlfAt

\* The verdict on a line is an error or "none".
LEMMA VerdictsAreErrors ==
    /\ \A line : RequestLineError(line) \in Errors \cup {"none"}
    /\ LengthError \in Errors \cup {"none"}
    /\ HeaderError \in Errors \cup {"none"}
BY DEF RequestLineError, LengthError, HeaderError, Errors

-----------------------------------------------------------------------------
(* The invariant is inductive *)

LEMMA InitInv == Init => IndInv
BY ParserAssumption
   DEF Init, IndInv, TypeOK, Safe, IndicesInBounds, ScanInside, ScanSkipsNothing, CeilingsSoFar,
       BoundedWhileIncomplete, States, Absent

LEMMA PushInv == IndInv /\ Push => IndInv'
<1> SUFFICES ASSUME IndInv, Push PROVE IndInv'
  OBVIOUS
<1> USE DEF IndInv
<1>1. PICK n \in 1 .. Len(stream) - fed :
          buf' = buf \o SubSeq(stream, fed + 1, fed + n) /\ fed' = fed + n
  BY DEF Push
<1>2. stream \in Seq(Bytes) /\ Len(stream) \in Nat /\ fed \in Nat /\ n \in Nat
  BY ParserAssumption DEF TypeOK
<1>3. SubSeq(stream, fed + 1, fed + n) \in Seq(Bytes)
  BY <1>2, SubSeqProperties
<1>4. buf' \in Seq(Bytes) /\ Len(buf') >= Len(buf) /\ Len(buf) \in Nat
  BY <1>1, <1>3, ConcatProperties DEF TypeOK
<1>5. TypeOK'
  BY <1>1, <1>2, <1>4 DEF TypeOK, Push, inputVars, parserVars
<1>6. IndicesInBounds' /\ CeilingsSoFar' /\ BoundedWhileIncomplete'
  BY <1>2, <1>4 DEF TypeOK, Safe, IndicesInBounds, CeilingsSoFar, BoundedWhileIncomplete, Push, inputVars,
                   parserVars
<1>7. (state \in {"RequestLine", "Headers"} => ScanInside)'
  BY <1>4 DEF TypeOK, Safe, ScanInside, Push, parserVars
<1>8. ScanSkipsNothing'
  <2> SUFFICES ASSUME state \in {"RequestLine", "Headers"},
                      NEW i \in line_start .. scanned - 1
               PROVE  ~CrlfAt(buf', i)
    BY DEF ScanSkipsNothing, Push, parserVars
  <2>1. ~CrlfAt(buf, i) /\ i \in Nat /\ i + 1 < Len(buf)
    BY <1>4 DEF TypeOK, Safe, ScanInside, ScanSkipsNothing
  <2> QED
    BY <1>1, <1>3, <2>1, AppendKeepsScan DEF TypeOK
<1> QED
  BY <1>5, <1>6, <1>7, <1>8 DEF Safe

LEMMA FailInv ==
    ASSUME IndInv, NEW e \in Errors, Fail(e)
    PROVE  IndInv'
BY DEF IndInv, TypeOK, Safe, IndicesInBounds, ScanInside, ScanSkipsNothing, CeilingsSoFar,
       BoundedWhileIncomplete, Fail, States, Errors

LEMMA LineIncompleteInv ==
    ASSUME IndInv, NEW from \in Nat, NEW limit \in Nat, NEW e \in Errors,
           state \in {"RequestLine", "Headers"}, LineIncomplete(from, limit, e),
           from + limit <= MaxRequestLine + 2 + MaxHeaderBytes + MaxBody
    PROVE  IndInv'
<1> USE DEF IndInv
<1>1. /\ ScanEnd \in Nat
      /\ line_start < ScanEnd => ScanEnd < Len(buf)
      /\ \A i \in line_start .. ScanEnd - 1 : ~CrlfAt(buf, i)
  BY ScanEndSound DEF LineIncomplete, Safe, ScanSkipsNothing
<1>2. TypeOK'
  BY <1>1 DEF TypeOK, LineIncomplete, States, Errors
<1>3. IndicesInBounds' /\ CeilingsSoFar'
  BY DEF TypeOK, Safe, IndicesInBounds, CeilingsSoFar, LineIncomplete
<1>4. ScanInside' /\ ScanSkipsNothing'
  BY <1>1 DEF ScanInside, ScanSkipsNothing, LineIncomplete
<1>5. BoundedWhileIncomplete'
  BY ParserAssumption DEF TypeOK, BoundedWhileIncomplete, LineIncomplete, Errors
<1> QED
  BY <1>2, <1>3, <1>4, <1>5 DEF Safe

LEMMA ParseRequestLineInv == IndInv /\ ParseRequestLine => IndInv'
<1> SUFFICES ASSUME IndInv, ParseRequestLine PROVE IndInv'
  OBVIOUS
<1> USE DEF IndInv
<1>0. /\ status = "running" /\ state = "RequestLine" /\ line_start = 0
      /\ Len(buf) \in Nat /\ buf \in Seq(Bytes)
      /\ MaxRequestLine \in Nat /\ MaxHeaderBytes \in Nat /\ MaxBody \in Nat
  BY ParserAssumption DEF ParseRequestLine, TypeOK, Safe, IndicesInBounds
<1>1. CASE LineIncomplete(line_start, MaxRequestLine, "RequestLineTooLong")
  BY <1>0, <1>1, LineIncompleteInv DEF Errors
<1>2. CASE /\ Eols # {}
           /\ RequestLineError(Line(Eol)) # "none"
           /\ Fail(RequestLineError(Line(Eol)))
  BY <1>2, VerdictsAreErrors, FailInv
<1>3. CASE /\ Eols # {}
           /\ RequestLineError(Line(Eol)) = "none"
           /\ line_start' = Eol + 2
           /\ scanned' = Eol + 2
           /\ header_block_start' = Eol + 2
           /\ state' = "Headers"
           /\ UNCHANGED <<stream, fed, base, buf, body_start, header_count, content_length,
                          length_header, status, consumed>>
  <2>1. Eol \in Nat /\ Eol + 2 <= Len(buf)
    BY <1>3, EolFound
  <2>2. Len(Line(Eol)) = Eol
    BY <1>0, <2>1, SubSeqProperties DEF Line
  <2>3. Eol <= MaxRequestLine
    <3>1. ~(Len(Line(Eol)) > MaxRequestLine)
      BY <1>3 DEF RequestLineError
    <3> QED
      BY <1>0, <2>1, <2>2, <3>1
  <2>4. TypeOK'
    BY <1>3, <2>1 DEF TypeOK, States
  <2>5. Safe'
    BY <1>0, <1>3, <2>1, <2>3
       DEF Safe, IndicesInBounds, ScanInside, ScanSkipsNothing, CeilingsSoFar, BoundedWhileIncomplete
  <2> QED
    BY <2>4, <2>5
<1> QED
  BY <1>1, <1>2, <1>3 DEF ParseRequestLine

LEMMA ParseHeadersInv == IndInv /\ ParseHeaders => IndInv'
<1> SUFFICES ASSUME IndInv, ParseHeaders PROVE IndInv'
  OBVIOUS
<1> USE DEF IndInv
<1>0. /\ status = "running" /\ state = "Headers"
      /\ header_block_start \in Nat /\ header_block_start <= line_start
      /\ header_block_start <= MaxRequestLine + 2
      /\ line_start \in Nat /\ Len(buf) \in Nat /\ header_count \in Nat
      /\ MaxRequestLine \in Nat /\ MaxHeaderBytes \in Nat /\ MaxBody \in Nat
  BY ParserAssumption DEF ParseHeaders, TypeOK, Safe, IndicesInBounds, CeilingsSoFar
<1>1. CASE LineIncomplete(header_block_start, MaxHeaderBytes, "HeadersTooLarge")
  BY <1>0, <1>1, LineIncompleteInv DEF Errors
<1>2. CASE Eols # {} /\ HeaderError # "none" /\ Fail(HeaderError)
  BY <1>2, VerdictsAreErrors, FailInv
<1>3. CASE /\ Eols # {}
           /\ HeaderError = "none" /\ Eol = line_start
           /\ body_start' = Eol + 2
           /\ content_length' = IF length_header = Absent THEN 0 ELSE length_header
           /\ state' = "Body"
           /\ UNCHANGED <<stream, fed, base, buf, line_start, scanned, header_block_start,
                          header_count, length_header, status, consumed>>
  <2>1. Eol \in Nat /\ Eol + 2 <= Len(buf)
    BY <1>3, EolFound
  <2>2. Eol + 2 - header_block_start <= MaxHeaderBytes /\ LengthError = "none"
    BY <1>0, <1>3, <2>1 DEF HeaderError
  <2>3. content_length' \in Nat /\ content_length' <= MaxBody
    BY <1>0, <1>3, <2>2 DEF LengthError, TypeOK, Absent, Unparsable
  <2>4. TypeOK'
    BY <1>3, <2>1, <2>3 DEF TypeOK, States
  <2>5. Safe'
    BY <1>0, <1>3, <2>1, <2>2, <2>3
       DEF Safe, IndicesInBounds, ScanInside, ScanSkipsNothing, CeilingsSoFar, BoundedWhileIncomplete
  <2> QED
    BY <2>4, <2>5
<1>4. CASE /\ Eols # {}
           /\ HeaderError = "none" /\ Eol # line_start
           /\ header_count' = header_count + 1
           /\ length_header' = InsertHeader(Line(Eol))
           /\ line_start' = Eol + 2
           /\ scanned' = Eol + 2
           /\ UNCHANGED <<stream, fed, base, buf, state, header_block_start, body_start,
                          content_length, status, consumed>>
  <2>1. Eol \in Nat /\ Eol + 2 <= Len(buf) /\ line_start <= Eol
    BY <1>4, EolFound
  <2>2. length_header' \in {Absent, Unparsable} \cup Nat
    BY <1>4 DEF TypeOK, InsertHeader, ParseLength, Absent, Unparsable
  <2>3. TypeOK'
    BY <1>0, <1>4, <2>1, <2>2 DEF TypeOK, States
  <2>4. Safe'
    BY <1>0, <1>4, <2>1
       DEF Safe, IndicesInBounds, ScanInside, ScanSkipsNothing, CeilingsSoFar, BoundedWhileIncomplete
  <2> QED
    BY <2>3, <2>4
<1> QED
  BY <1>1, <1>2, <1>3, <1>4 DEF ParseHeaders

LEMMA ParseBodyInv == IndInv /\ ParseBody => IndInv'
<1> SUFFICES ASSUME IndInv, ParseBody PROVE IndInv'
  OBVIOUS
<1> USE DEF IndInv
<1>0. /\ state = "Body" /\ status = "running"
      /\ body_start \in Nat /\ content_length \in Nat /\ Len(buf) \in Nat /\ buf \in Seq(Bytes)
      /\ body_start <= MaxRequestLine + 2 + MaxHeaderBytes /\ content_length <= MaxBody
      /\ MaxRequestLine \in Nat /\ MaxHeaderBytes \in Nat /\ MaxBody \in Nat
  BY ParserAssumption DEF ParseBody, TypeOK, Safe, CeilingsSoFar
<1>1. CASE status' = "incomplete"
  <2>1. Len(buf) - body_start < content_length /\ UNCHANGED <<buf, state, length_header, consumed>>
    BY <1>1 DEF ParseBody
  <2>2. TypeOK'
    BY <1>1, <2>1 DEF TypeOK, ParseBody
  <2> QED
    BY <1>0, <1>1, <2>1, <2>2
       DEF Safe, IndicesInBounds, ScanInside, ScanSkipsNothing, CeilingsSoFar, BoundedWhileIncomplete, ParseBody
<1>2. CASE status' # "incomplete"
  <2>1. /\ Len(buf) - body_start >= content_length
        /\ consumed' = body_start + content_length
        /\ buf' = Leftover /\ length_header' = Absent /\ state' = "Done" /\ status' = "complete"
    BY <1>2 DEF ParseBody
  <2>2. Leftover \in Seq(Bytes)
    BY <1>0, <2>1, SubSeqProperties DEF Leftover
  <2>3. TypeOK'
    BY <1>0, <2>1, <2>2 DEF TypeOK, ParseBody, States
  <2> QED
    BY <2>1, <2>3
       DEF Safe, IndicesInBounds, ScanInside, ScanSkipsNothing, CeilingsSoFar, BoundedWhileIncomplete
<1> QED
  BY <1>1, <1>2

LEMMA ResetInv == IndInv /\ Reset => IndInv'
BY DEF IndInv, TypeOK, Safe, IndicesInBounds, ScanInside, ScanSkipsNothing, CeilingsSoFar,
       BoundedWhileIncomplete, Reset, States

LEMMA StutterInv == IndInv /\ UNCHANGED vars => IndInv'
BY DEF IndInv, TypeOK, Safe, IndicesInBounds, ScanInside, ScanSkipsNothing, CeilingsSoFar,
       BoundedWhileIncomplete, CrlfAt, vars, parserVars

LEMMA Inductive == Spec => []IndInv
<1>1. IndInv /\ [Next]_vars => IndInv'
  BY PushInv, ParseRequestLineInv, ParseHeadersInv, ParseBodyInv, ResetInv, StutterInv DEF Next
<1> QED
  BY InitInv, <1>1, PTL DEF Spec

-----------------------------------------------------------------------------
(* The theorems *)

\* The parser's variables keep their types: in particular the declared length
\* that determine_content_length stores is a natural number.
THEOREM TypeCorrect == Spec => []TypeOK
BY Inductive, PTL DEF IndInv

\* No index of the parser passes the end of its buffer, so no usize
\* subtraction in request.rs underflows, whatever the reads and the ceilings.
THEOREM IndicesSound == Spec => []IndicesInBounds
BY Inductive, PTL DEF IndInv, Safe

\* next_crlf misses no end of line, however the bytes are cut into pushes.
THEOREM ScanSound == Spec => []ScanSkipsNothing
BY Inductive, PTL DEF IndInv, Safe

\* While push asks for more bytes the buffer is within the sum of the ceilings
\* of limits.rs, for every value of them.
THEOREM BufferWithinCeilings == Spec => []BoundedWhileIncomplete
BY Inductive, PTL DEF IndInv, Safe

-----------------------------------------------------------------------------
(* No byte is lost or repeated *)

\* Two adjacent pieces of a stream, concatenated.
LEMMA AdjacentPieces ==
    ASSUME NEW s \in Seq(Bytes), NEW a \in Nat, NEW b \in Nat, NEW c \in Nat,
           a <= b, b <= c, c <= Len(s)
    PROVE  SubSeq(s, a + 1, b) \o SubSeq(s, b + 1, c) = SubSeq(s, a + 1, c)
<1> DEFINE p == SubSeq(s, a + 1, b)
           q == SubSeq(s, b + 1, c)
           r == SubSeq(s, a + 1, c)
<1>1. /\ p \in Seq(Bytes) /\ Len(p) = b - a
      /\ \A i \in 1 .. b - a : p[i] = s[a + i]
  BY SubSeqProperties
<1>2. /\ q \in Seq(Bytes) /\ Len(q) = c - b
      /\ \A i \in 1 .. c - b : q[i] = s[b + i]
  BY SubSeqProperties
<1>3. /\ r \in Seq(Bytes) /\ Len(r) = c - a
      /\ \A i \in 1 .. c - a : r[i] = s[a + i]
  BY SubSeqProperties
<1>4. p \in Seq(Bytes) /\ q \in Seq(Bytes) /\ r \in Seq(Bytes)
  BY <1>1, <1>2, <1>3
<1>5. Len(p) = b - a /\ Len(p) + Len(q) = c - a /\ Len(r) = c - a
  BY <1>1, <1>2, <1>3
<1> HIDE DEF p, q, r
<1>6. /\ p \o q \in Seq(Bytes) /\ Len(p \o q) = Len(p) + Len(q)
      /\ \A i \in 1 .. Len(p) + Len(q) : (p \o q)[i] = IF i <= Len(p) THEN p[i] ELSE q[i - Len(p)]
  BY <1>4, ConcatProperties
<1>7. ASSUME NEW i \in 1 .. c - a
      PROVE  (p \o q)[i] = r[i]
  <2>1. (p \o q)[i] = IF i <= b - a THEN p[i] ELSE q[i - (b - a)]
    BY <1>5, <1>6
  <2>2. r[i] = s[a + i]
    BY <1>3
  <2>3. CASE i <= b - a
    <3>1. p[i] = s[a + i]
      BY <1>1, <2>3
    <3> QED
      BY <2>1, <2>2, <2>3, <3>1
  <2>4. CASE ~(i <= b - a)
    <3>1. i - (b - a) \in 1 .. c - b /\ b + (i - (b - a)) = a + i
      BY <2>4
    <3>2. q[i - (b - a)] = s[b + (i - (b - a))]
      BY <1>2, <3>1
    <3> QED
      BY <2>1, <2>2, <2>4, <3>1, <3>2
  <2> QED
    BY <2>3, <2>4
<1>8. \A i \in 1 .. Len(p \o q) : (p \o q)[i] = r[i]
  BY <1>5, <1>6, <1>7
<1>9. Len(p \o q) = Len(r)
  BY <1>5, <1>6
<1>10. p \o q = r
  BY <1>4, <1>6, <1>8, <1>9, SeqEqual
<1> QED
  BY <1>10 DEF p, q, r

\* A piece of a stream without its first d bytes.
LEMMA PieceWithoutFront ==
    ASSUME NEW s \in Seq(Bytes), NEW a \in Nat, NEW c \in Nat, NEW d \in Nat,
           a + d <= c, c <= Len(s)
    PROVE  SubSeq(SubSeq(s, a + 1, c), d + 1, c - a) = SubSeq(s, a + d + 1, c)
<1> DEFINE r == SubSeq(s, a + 1, c)
           p == SubSeq(r, d + 1, c - a)
           q == SubSeq(s, a + d + 1, c)
<1>1. /\ r \in Seq(Bytes) /\ Len(r) = c - a
      /\ \A i \in 1 .. c - a : r[i] = s[a + i]
  BY SubSeqProperties
<1>2. /\ q \in Seq(Bytes) /\ Len(q) = c - (a + d)
      /\ \A i \in 1 .. c - (a + d) : q[i] = s[a + d + i]
  BY SubSeqProperties
<1> HIDE DEF r
<1>3. /\ p \in Seq(Bytes) /\ Len(p) = c - (a + d)
      /\ \A i \in 1 .. c - (a + d) : p[i] = r[d + i]
  <2>1. \A i \in d + 1 .. c - a : r[i] \in Bytes
    BY <1>1
  <2>2. /\ p \in Seq(Bytes)
        /\ Len(p) = IF d + 1 <= c - a THEN (c - a) - (d + 1) + 1 ELSE 0
        /\ \A i \in 1 .. (c - a) - (d + 1) + 1 : p[i] = r[(d + 1) + i - 1]
    BY <2>1, SubSeqProperties
  <2> HIDE DEF p, q
  <2>3. (c - a) - (d + 1) + 1 = c - (a + d) /\ (d + 1 <= c - a <=> c - (a + d) > 0) /\ c - (a + d) >= 0
    OBVIOUS
  <2>4. Len(p) = c - (a + d)
    BY <2>2, <2>3
  <2>5. ASSUME NEW i \in 1 .. c - (a + d) PROVE p[i] = r[d + i]
    <3>1. p[i] = r[(d + 1) + i - 1]
      BY <2>2, <2>3
    <3>2. (d + 1) + i - 1 = d + i
      OBVIOUS
    <3> QED
      BY <3>1, <3>2
  <2> QED
    BY <2>2, <2>4, <2>5
<1> HIDE DEF p, q
<1>4. ASSUME NEW i \in 1 .. c - (a + d) PROVE p[i] = q[i]
  <2>1. p[i] = r[d + i] /\ q[i] = s[a + d + i]
    BY <1>2, <1>3
  <2>2. d + i \in 1 .. c - a /\ a + (d + i) = a + d + i
    OBVIOUS
  <2>3. r[d + i] = s[a + (d + i)]
    BY <1>1, <2>2
  <2> QED
    BY <2>1, <2>2, <2>3
<1>5. p = q
  BY <1>2, <1>3, <1>4, SeqEqual
<1> QED
  BY <1>5 DEF p, q, r

LEMMA UnconsumedStep ==
    ASSUME IndInv, ConsumedWasFed, BufferIsUnconsumed, [Next]_vars
    PROVE  ConsumedWasFed' /\ BufferIsUnconsumed'
<1>0. /\ stream \in Seq(Bytes) /\ Len(stream) \in Nat
      /\ fed \in Nat /\ base \in Nat /\ consumed \in Nat
      /\ fed <= Len(stream) /\ base <= fed
  BY ParserAssumption DEF IndInv, TypeOK, ConsumedWasFed
<1>1. CASE Push
  <2>1. PICK n \in 1 .. Len(stream) - fed :
            buf' = buf \o SubSeq(stream, fed + 1, fed + n) /\ fed' = fed + n
    BY <1>1 DEF Push
  <2>2. /\ status # "complete" /\ status' # "complete"
        /\ stream' = stream /\ base' = base /\ consumed' = consumed
    BY <1>1 DEF Push, inputVars
  <2>3. buf = SubSeq(stream, base + 1, fed)
    BY <2>2 DEF BufferIsUnconsumed
  <2>4. buf' = SubSeq(stream, base + 1, fed + n)
    BY <1>0, <2>1, <2>3, AdjacentPieces
  <2> QED
    BY <1>0, <2>1, <2>2, <2>4 DEF ConsumedWasFed, BufferIsUnconsumed
<1>2. CASE ParseBody /\ status' = "complete"
  <2>1. /\ status = "running" /\ stream' = stream /\ fed' = fed /\ base' = base
        /\ Len(buf) - body_start >= content_length
        /\ consumed' = body_start + content_length
        /\ buf' = SubSeq(buf, consumed' + 1, Len(buf))
        /\ body_start \in Nat /\ content_length \in Nat
    BY <1>2 DEF ParseBody, Leftover, IndInv, TypeOK
  <2>2. buf = SubSeq(stream, base + 1, fed)
    BY <2>1 DEF BufferIsUnconsumed
  <2>3. Len(buf) = fed - base
    BY <1>0, <2>2, SubSeqProperties
  <2>4. base + consumed' <= fed /\ consumed' \in Nat
    BY <1>0, <2>1, <2>3
  <2>5. buf' = SubSeq(stream, base + consumed' + 1, fed)
    BY <1>0, <2>1, <2>2, <2>3, <2>4, PieceWithoutFront
  <2> QED
    BY <1>0, <1>2, <2>1, <2>4, <2>5 DEF ConsumedWasFed, BufferIsUnconsumed
<1>3. CASE Reset
  <2>1. /\ status = "complete" /\ status' = "reset" /\ base' = base + consumed
        /\ stream' = stream /\ fed' = fed /\ buf' = buf
    BY <1>3 DEF Reset
  <2> QED
    BY <1>0, <2>1 DEF ConsumedWasFed, BufferIsUnconsumed
<1>4. CASE /\ status # "complete" /\ status' # "complete"
           /\ UNCHANGED <<stream, fed, base, buf>>
  BY <1>4 DEF ConsumedWasFed, BufferIsUnconsumed
<1>5. CASE ParseRequestLine \/ ParseHeaders
  <2>1. \A e \in Errors : e # "complete"
    BY DEF Errors
  <2>2. RequestLineError(Line(Eol)) # "complete" /\ HeaderError # "complete"
    BY <2>1, VerdictsAreErrors
  <2> QED
    BY <1>4, <1>5, <2>2 DEF ParseRequestLine, ParseHeaders, LineIncomplete, Fail
<1>6. CASE ParseBody /\ status' # "complete"
  BY <1>4, <1>6 DEF ParseBody
<1>7. CASE UNCHANGED vars
  BY <1>7 DEF vars, ConsumedWasFed, BufferIsUnconsumed
<1> QED
  BY <1>1, <1>2, <1>3, <1>5, <1>6, <1>7 DEF Next

LEMMA InitUnconsumed == Init => ConsumedWasFed /\ BufferIsUnconsumed
<1> SUFFICES ASSUME Init PROVE ConsumedWasFed /\ BufferIsUnconsumed
  OBVIOUS
<1>1. stream \in Seq(Bytes)
  BY ParserAssumption DEF Init
<1> QED
  BY <1>1, SubSeqEmpty DEF Init, ConsumedWasFed, BufferIsUnconsumed

\* The buffer holds exactly the bytes pushed and not consumed, over any number
\* of requests of a connection: drain and reset lose and repeat none.
THEOREM BufferExact == Spec => []BufferIsUnconsumed
<1>1. /\ IndInv /\ ConsumedWasFed /\ BufferIsUnconsumed /\ [Next]_vars
      => (ConsumedWasFed /\ BufferIsUnconsumed)'
  BY UnconsumedStep
<1> QED
  BY InitUnconsumed, <1>1, Inductive, PTL DEF Spec

-----------------------------------------------------------------------------
(* What has been read of the request, by the numbers of its lines *)

\* Line k of p ends at e when k ends of line lie at or before e.
EolsTo(p, e) == {i \in EolsOf(p) : i <= e}
Count(p, e)  == Cardinality(EolsTo(p, e))

\* The lines 1 to n of p have ended.
Numbered(p, n) == \A k \in 1 .. n : \E e \in EolsOf(p) : Count(p, e) = k

\* Line k of p is not blank and a field that HeaderError accepts.
FieldSound(p, k) ==
    /\ StartOf(p, k) # EolOf(p, k)
    /\ EolOf(p, k) + 2 - StartOf(p, 2) <= MaxHeaderBytes
    /\ ~HeaderMalformed(Text(p, k))
    /\ k - 1 <= MaxHeaderCount

\* Line k of p is the blank line, and the head it ends is within the ceiling.
HeadEnds(p, k) ==
    /\ StartOf(p, k) = EolOf(p, k)
    /\ EolOf(p, k) + 2 - StartOf(p, 2) <= MaxHeaderBytes

\* The lines 1 to n of p are a request line and n - 1 fields, without an error.
LinesRead(p, n) ==
    /\ Numbered(p, n)
    /\ RequestLineError(Text(p, 1)) = "none"
    /\ \A k \in 2 .. n : FieldSound(p, k)

\* The first Content-Length of the lines 2 to n.
LengthLines(p, n) == {k \in 2 .. n : HeaderName(Text(p, k)) = <<"L">>}
LengthTo(p, n) ==
    IF LengthLines(p, n) = {} THEN Absent ELSE ParseLength(HeaderValue(Text(p, Min(LengthLines(p, n)))))

Declared(h) == IF h = Absent THEN 0 ELSE h

\* The parser's variables are what the numbered lines of the buffer say.
AtRequestLine == header_count = 0 /\ length_header = Absent

AtHeaders ==
    /\ LinesRead(buf, header_count + 1)
    /\ header_block_start = StartOf(buf, 2)
    /\ line_start = StartOf(buf, header_count + 2)
    /\ length_header = LengthTo(buf, header_count + 1)

AtBody ==
    /\ LinesRead(buf, header_count + 1)
    /\ Numbered(buf, header_count + 2)
    /\ HeadEnds(buf, header_count + 2)
    /\ body_start = StartOf(buf, header_count + 2) + 2
    /\ content_length = Declared(LengthTo(buf, header_count + 1))

\* What push returned is the reference's verdict on the bytes pushed so far.
AnswersCurrent ==
    \/ SplitAtLimit
    \/ Returned => /\ status = Reference(Current)
                   /\ status = "complete" => consumed = RequestEnd(Current)

ReadSoFar ==
    /\ state = "RequestLine" => AtRequestLine
    /\ state = "Headers" => AtHeaders
    /\ state = "Body" => AtBody
    /\ state = "Done" => status \in {"complete"} \cup Errors
    /\ status = "complete" => state = "Done" /\ length_header = Absent

-----------------------------------------------------------------------------
(* The lines of a request *)

\* The ends of line lie inside p, are finitely many and do not overlap.
LEMMA EolsInside ==
    ASSUME NEW p \in Seq(Bytes)
    PROVE  /\ EolsOf(p) \in SUBSET Nat
           /\ IsFiniteSet(EolsOf(p))
           /\ \A e \in EolsOf(p) : e + 2 <= Len(p) /\ e + 1 \notin EolsOf(p)
           /\ Lines(p) \in Nat
<1>1. Len(p) \in Nat
  OBVIOUS
<1>2. EolsOf(p) \in SUBSET (0 .. Len(p))
  BY DEF EolsOf
<1>3. IsFiniteSet(0 .. Len(p))
  BY <1>1, FS_Interval
<1>4. IsFiniteSet(EolsOf(p))
  BY <1>2, <1>3, FS_Subset
<1>5. Lines(p) \in Nat
  BY <1>4, FS_CardinalityType DEF Lines
<1>6. ASSUME NEW e \in EolsOf(p) PROVE e + 2 <= Len(p) /\ e + 1 \notin EolsOf(p)
  BY <1>1 DEF EolsOf, CrlfAt
<1> QED
  BY <1>1, <1>2, <1>4, <1>5, <1>6

\* Counts of ends of line are natural numbers, at most their whole number.
LEMMA CountsInside ==
    ASSUME NEW p \in Seq(Bytes), NEW e
    PROVE  /\ IsFiniteSet(EolsTo(p, e)) /\ Count(p, e) \in Nat /\ Count(p, e) <= Lines(p)
           /\ EolsTo(p, e) \in SUBSET EolsOf(p)
<1>1. EolsTo(p, e) \in SUBSET EolsOf(p)
  BY DEF EolsTo
<1>2. IsFiniteSet(EolsTo(p, e)) /\ Cardinality(EolsTo(p, e)) <= Cardinality(EolsOf(p))
  BY <1>1, EolsInside, FS_Subset
<1>3. Cardinality(EolsTo(p, e)) \in Nat
  BY <1>2, FS_CardinalityType
<1> QED
  BY <1>1, <1>2, <1>3 DEF Count, Lines

\* The count at an end of line is one more than at the one before it.
LEMMA CountNext ==
    ASSUME NEW p \in Seq(Bytes), NEW e \in EolsOf(p), NEW d \in Int,
           d < e, \A i \in EolsOf(p) : i <= d \/ e <= i
    PROVE  Count(p, e) = Count(p, d) + 1
<1>1. EolsOf(p) \in SUBSET Nat
  BY EolsInside
<1>2. e \notin EolsTo(p, d) /\ EolsTo(p, e) = EolsTo(p, d) \cup {e}
  BY <1>1 DEF EolsTo
<1>3. Cardinality(EolsTo(p, d) \cup {e}) = Cardinality(EolsTo(p, d)) + 1
  BY <1>2, CountsInside, FS_AddElement
<1> QED
  BY <1>2, <1>3 DEF Count

\* Later ends of line have larger counts.
LEMMA CountGrows ==
    ASSUME NEW p \in Seq(Bytes), NEW a \in EolsOf(p), NEW b \in EolsOf(p), a < b
    PROVE  Count(p, a) < Count(p, b)
<1>1. EolsOf(p) \in SUBSET Nat
  BY EolsInside
<1>2. b \notin EolsTo(p, a) /\ EolsTo(p, a) \cup {b} \in SUBSET EolsTo(p, b)
  BY <1>1 DEF EolsTo
<1>3. Cardinality(EolsTo(p, a) \cup {b}) = Cardinality(EolsTo(p, a)) + 1
  BY <1>2, CountsInside, FS_AddElement
<1>4. Cardinality(EolsTo(p, a) \cup {b}) <= Cardinality(EolsTo(p, b))
  BY <1>2, CountsInside, FS_Subset
<1>5. Count(p, a) \in Nat /\ Count(p, b) \in Nat
  BY CountsInside
<1> QED
  BY <1>3, <1>4, <1>5 DEF Count

\* The end of line with count k is the end of line k.
LEMMA EolIs ==
    ASSUME NEW p \in Seq(Bytes), NEW e \in EolsOf(p), NEW k, Count(p, e) = k
    PROVE  EolOf(p, k) = e
<1>1. e \in Nat /\ EolsOf(p) \in SUBSET Nat /\ Count(p, e) \in Nat
  BY EolsInside, CountsInside
<1>2. ASSUME NEW f \in EolsOf(p), Count(p, f) = k PROVE f = e
  <2>1. ~(e < f) /\ ~(f < e)
    BY <1>1, <1>2, CountGrows
  <2> QED
    BY <1>1, <2>1
<1> DEFINE Nth == CHOOSE f \in EolsOf(p) : Count(p, f) = k
<1>3. Nth = e
  BY <1>2
<1>4. EolOf(p, k) = Nth
  BY DEF EolOf, Count, EolsTo
<1> QED
  BY <1>3, <1>4

\* What Numbered says of each line.
LEMMA NumberedEol ==
    ASSUME NEW p \in Seq(Bytes), NEW n \in Nat, Numbered(p, n), NEW k \in 1 .. n
    PROVE  /\ EolOf(p, k) \in EolsOf(p) /\ Count(p, EolOf(p, k)) = k
           /\ EolOf(p, k) \in Nat /\ EolOf(p, k) + 2 <= Len(p)
           /\ k <= Lines(p)
<1>1. PICK e \in EolsOf(p) : Count(p, e) = k
  BY DEF Numbered
<1>2. EolOf(p, k) = e
  BY <1>1, EolIs
<1>3. e \in Nat /\ e + 2 <= Len(p) /\ Count(p, e) <= Lines(p)
  BY EolsInside, CountsInside
<1> QED
  BY <1>1, <1>2, <1>3

\* A line starts at or before its end, which is after the end of the line before.
LEMMA StartBeforeEnd ==
    ASSUME NEW p \in Seq(Bytes), NEW n \in Nat, Numbered(p, n), NEW k \in 1 .. n
    PROVE  StartOf(p, k) \in Nat /\ StartOf(p, k) <= EolOf(p, k)
<1>1. CASE k = 1
  BY <1>1, NumberedEol DEF StartOf
<1>2. CASE k # 1
  <2>1. k - 1 \in 1 .. n
    BY <1>2
  <2>2. /\ EolOf(p, k) \in EolsOf(p) /\ Count(p, EolOf(p, k)) = k /\ EolOf(p, k) \in Nat
        /\ EolOf(p, k - 1) \in EolsOf(p) /\ Count(p, EolOf(p, k - 1)) = k - 1 /\ EolOf(p, k - 1) \in Nat
    BY <2>1, NumberedEol
  <2>3. ~(EolOf(p, k) < EolOf(p, k - 1)) /\ EolOf(p, k) # EolOf(p, k - 1)
    <3>1. ~(Count(p, EolOf(p, k)) < Count(p, EolOf(p, k - 1)))
      BY <2>2
    <3>2. Count(p, EolOf(p, k)) # Count(p, EolOf(p, k - 1))
      BY <2>2
    <3> QED
      BY <2>2, <3>1, <3>2, CountGrows
  <2>4. EolOf(p, k - 1) + 1 \notin EolsOf(p)
    BY <2>2, EolsInside
  <2>5. EolOf(p, k) # EolOf(p, k - 1) + 1
    BY <2>2, <2>4
  <2>6. EolOf(p, k - 1) + 2 <= EolOf(p, k)
    BY <2>2, <2>3, <2>5
  <2> QED
    BY <1>2, <2>2, <2>6 DEF StartOf
<1> QED
  BY <1>1, <1>2

\* The first end of line at or after the start of line n + 1 is its end.
LEMMA NextLine ==
    ASSUME NEW p \in Seq(Bytes), NEW n \in Nat, Numbered(p, n),
           NEW e \in EolsOf(p), StartOf(p, n + 1) <= e,
           \A i \in EolsOf(p) : i < StartOf(p, n + 1) \/ e <= i
    PROVE  Numbered(p, n + 1) /\ EolOf(p, n + 1) = e
<1>1. EolsOf(p) \in SUBSET Nat
  BY EolsInside
<1>2. Count(p, e) = n + 1
  <2>1. CASE n = 0
    <3>1. \A i \in EolsOf(p) : i <= -1 \/ e <= i
      BY <1>1, <2>1 DEF StartOf
    <3>2. Count(p, e) = Count(p, -1) + 1
      BY <1>1, <3>1, CountNext
    <3>3. EolsTo(p, -1) = {}
      BY <1>1 DEF EolsTo
    <3>4. Count(p, -1) = 0
      BY <3>3, FS_EmptySet, Zenon DEF Count
    <3> QED
      BY <2>1, <3>2, <3>4
  <2>2. CASE n # 0
    <3>1. /\ EolOf(p, n) \in EolsOf(p) /\ Count(p, EolOf(p, n)) = n /\ EolOf(p, n) \in Nat
      BY <2>2, NumberedEol
    <3>2. StartOf(p, n + 1) = EolOf(p, n) + 2
      BY <2>2 DEF StartOf
    <3>3. EolOf(p, n) + 1 \notin EolsOf(p)
      BY <3>1, EolsInside
    <3>4. \A i \in EolsOf(p) : i <= EolOf(p, n) \/ e <= i
      BY <1>1, <3>1, <3>2, <3>3
    <3>5. Count(p, e) = Count(p, EolOf(p, n)) + 1
      BY <1>1, <3>1, <3>2, <3>4, CountNext
    <3> QED
      BY <3>1, <3>5
  <2> QED
    BY <2>1, <2>2
<1>3. Numbered(p, n + 1)
  <2> SUFFICES ASSUME NEW k \in 1 .. n + 1 PROVE \E f \in EolsOf(p) : Count(p, f) = k
    BY DEF Numbered
  <2>1. CASE k = n + 1
    BY <1>2, <2>1
  <2>2. CASE k # n + 1
    BY <2>2 DEF Numbered
  <2> QED
    BY <2>1, <2>2
<1> QED
  BY <1>2, <1>3, EolIs

\* Without an end of line from the start of line n + 1 on, there are n lines.
LEMMA LastLine ==
    ASSUME NEW p \in Seq(Bytes), NEW n \in Nat, Numbered(p, n),
           \A i \in EolsOf(p) : i < StartOf(p, n + 1)
    PROVE  Lines(p) = n
<1>1. EolsOf(p) \in SUBSET Nat
  BY EolsInside
<1>2. CASE n = 0
  <2>1. EolsOf(p) = {}
    BY <1>1, <1>2 DEF StartOf
  <2>2. Lines(p) = 0
    BY <2>1, FS_EmptySet, Zenon DEF Lines
  <2> QED
    BY <1>2, <2>2
<1>3. CASE n # 0
  <2>1. /\ EolOf(p, n) \in EolsOf(p) /\ Count(p, EolOf(p, n)) = n /\ EolOf(p, n) \in Nat
    BY <1>3, NumberedEol
  <2>2. StartOf(p, n + 1) = EolOf(p, n) + 2
    BY <1>3 DEF StartOf
  <2>3. EolOf(p, n) + 1 \notin EolsOf(p)
    BY <2>1, EolsInside
  <2>4. EolsTo(p, EolOf(p, n)) = EolsOf(p)
    BY <1>1, <2>1, <2>2, <2>3 DEF EolsTo
  <2> QED
    BY <2>1, <2>4 DEF Count, Lines
<1> QED
  BY <1>2, <1>3

-----------------------------------------------------------------------------
(* More bytes change nothing of the lines that have ended *)

\* The bytes of s and of s \o t up to the end of s are the same.
LEMMA AppendKeepsBytes ==
    ASSUME NEW s \in Seq(Bytes), NEW t \in Seq(Bytes)
    PROVE  /\ s \o t \in Seq(Bytes) /\ Len(s) <= Len(s \o t)
           /\ \A i \in 1 .. Len(s) : (s \o t)[i] = s[i]
BY ConcatProperties

LEMMA AppendKeepsText ==
    ASSUME NEW s \in Seq(Bytes), NEW t \in Seq(Bytes), NEW a \in Nat, NEW b \in Nat, b <= Len(s)
    PROVE  SubSeq(s \o t, a + 1, b) = SubSeq(s, a + 1, b)
<1>1. PICK q : q = s \o t
  OBVIOUS
<1>2. q \in Seq(Bytes) /\ Len(s) <= Len(q) /\ Len(s) \in Nat /\ Len(q) \in Nat
      /\ \A i \in 1 .. Len(s) : q[i] = s[i]
  BY <1>1, AppendKeepsBytes
<1>3. PICK x, y : x = SubSeq(q, a + 1, b) /\ y = SubSeq(s, a + 1, b)
  OBVIOUS
<1>4. CASE a + 1 <= b
  <2>1. /\ x \in Seq(Bytes) /\ Len(x) = b - a
        /\ \A i \in 1 .. b - a : x[i] = q[a + i]
    BY <1>2, <1>3, <1>4, SubSeqProperties
  <2>2. /\ y \in Seq(Bytes) /\ Len(y) = b - a
        /\ \A i \in 1 .. b - a : y[i] = s[a + i]
    BY <1>2, <1>3, <1>4, SubSeqProperties
  <2>3. ASSUME NEW i \in 1 .. b - a PROVE x[i] = y[i]
    <3>1. a + i \in 1 .. Len(s)
      BY <1>2
    <3> QED
      BY <1>2, <2>1, <2>2, <3>1
  <2>4. x = y
    BY <2>1, <2>2, <2>3, SeqEqual
  <2> QED
    BY <1>1, <1>3, <2>4
<1>5. CASE ~(a + 1 <= b)
  <2>1. x = << >> /\ y = << >>
    BY <1>2, <1>3, <1>5, SubSeqEmpty
  <2> QED
    BY <1>1, <1>3, <2>1
<1> QED
  BY <1>4, <1>5

\* An end of line keeps its count.
LEMMA AppendKeepsCount ==
    ASSUME NEW p \in Seq(Bytes), NEW t \in Seq(Bytes), NEW e \in EolsOf(p)
    PROVE  e \in EolsOf(p \o t) /\ Count(p \o t, e) = Count(p, e)
<1>1. PICK q : q = p \o t
  OBVIOUS
<1>2. q \in Seq(Bytes) /\ Len(p) <= Len(q) /\ Len(p) \in Nat /\ Len(q) \in Nat
      /\ \A i \in 1 .. Len(p) : q[i] = p[i]
  BY <1>1, AppendKeepsBytes
<1>3. e \in Nat /\ e + 2 <= Len(p) /\ EolsOf(p) \in SUBSET Nat /\ EolsOf(q) \in SUBSET Nat
  BY <1>2, EolsInside
<1>4. ASSUME NEW i \in Nat, i <= e PROVE CrlfAt(q, i) <=> CrlfAt(p, i)
  <2>1. i + 1 \in 1 .. Len(p) /\ i + 2 \in 1 .. Len(p) /\ i + 1 < Len(p) /\ i + 1 < Len(q)
    BY <1>2, <1>3, <1>4
  <2>2. q[i + 1] = p[i + 1] /\ q[i + 2] = p[i + 2]
    BY <1>2, <2>1
  <2> QED
    BY <2>1, <2>2 DEF CrlfAt
<1>5. ASSUME NEW i \in Nat, i <= e PROVE i \in EolsOf(q) <=> i \in EolsOf(p)
  BY <1>2, <1>3, <1>4, <1>5 DEF EolsOf
<1>6. EolsTo(q, e) = EolsTo(p, e)
  BY <1>3, <1>5 DEF EolsTo
<1>7. e \in EolsOf(q) /\ Count(q, e) = Count(p, e)
  BY <1>3, <1>5, <1>6 DEF Count
<1> QED
  BY <1>1, <1>7

\* The lines that have ended keep their numbers, their places and their bytes.
LEMMA AppendKeepsLines ==
    ASSUME NEW p \in Seq(Bytes), NEW t \in Seq(Bytes), NEW n \in Nat, Numbered(p, n)
    PROVE  /\ Numbered(p \o t, n)
           /\ \A k \in 1 .. n : EolOf(p \o t, k) = EolOf(p, k)
           /\ \A k \in 1 .. n + 1 : StartOf(p \o t, k) = StartOf(p, k)
           /\ \A k \in 1 .. n : Text(p \o t, k) = Text(p, k)
<1>1. PICK q : q = p \o t
  OBVIOUS
<1>2. q \in Seq(Bytes)
  BY <1>1, AppendKeepsBytes
<1>3. ASSUME NEW k \in 1 .. n
      PROVE  EolOf(p, k) \in EolsOf(q) /\ Count(q, EolOf(p, k)) = k /\ EolOf(q, k) = EolOf(p, k)
  <2>1. EolOf(p, k) \in EolsOf(p) /\ Count(p, EolOf(p, k)) = k
    BY NumberedEol
  <2>2. EolOf(p, k) \in EolsOf(q) /\ Count(q, EolOf(p, k)) = k
    BY <1>1, <2>1, AppendKeepsCount
  <2> QED
    BY <1>2, <2>2, EolIs
<1>4. Numbered(q, n)
  BY <1>3 DEF Numbered
<1>5. ASSUME NEW k \in 1 .. n + 1 PROVE StartOf(q, k) = StartOf(p, k)
  <2>1. CASE k = 1
    BY <2>1 DEF StartOf
  <2>2. CASE k # 1
    <3>1. k - 1 \in 1 .. n
      BY <2>2
    <3>2. EolOf(q, k - 1) = EolOf(p, k - 1)
      BY <1>3, <3>1
    <3> QED
      BY <2>2, <3>2 DEF StartOf
  <2> QED
    BY <2>1, <2>2
<1>6. ASSUME NEW k \in 1 .. n PROVE Text(q, k) = Text(p, k)
  <2>1. StartOf(q, k) = StartOf(p, k) /\ EolOf(q, k) = EolOf(p, k)
    BY <1>3, <1>5
  <2>2. StartOf(p, k) \in Nat /\ EolOf(p, k) \in Nat /\ EolOf(p, k) + 2 <= Len(p)
    BY NumberedEol, StartBeforeEnd
  <2>3. PICK a, b : a = StartOf(p, k) /\ b = EolOf(p, k)
    OBVIOUS
  <2>4. a \in Nat /\ b \in Nat /\ b <= Len(p)
    BY <2>2, <2>3
  <2>5. SubSeq(q, a + 1, b) = SubSeq(p, a + 1, b)
    BY <1>1, <2>4, AppendKeepsText
  <2> QED
    BY <2>1, <2>3, <2>5 DEF Text
<1> QED
  BY <1>1, <1>3, <1>4, <1>5, <1>6

\* A set of lines that are the same says the same length.
LEMMA LengthOfLines ==
    ASSUME NEW p, NEW q, NEW n \in Nat, \A k \in 2 .. n : Text(q, k) = Text(p, k)
    PROVE  LengthTo(q, n) = LengthTo(p, n)
<1>1. PICK L : L = LengthLines(p, n)
  OBVIOUS
<1>2. LengthLines(q, n) = L
  BY <1>1 DEF LengthLines
<1>3. CASE L = {}
  BY <1>1, <1>2, <1>3 DEF LengthTo
<1>4. CASE L # {}
  <2>1. L \in SUBSET Nat
    BY <1>1 DEF LengthLines
  <2>2. Min(L) \in L
    BY <1>4, <2>1, LeastOf
  <2>3. Text(q, Min(L)) = Text(p, Min(L))
    BY <1>1, <2>2 DEF LengthLines
  <2> QED
    BY <1>1, <1>2, <1>4, <2>3 DEF LengthTo
<1> QED
  BY <1>3, <1>4

LEMMA AppendKeepsRead ==
    ASSUME NEW p \in Seq(Bytes), NEW t \in Seq(Bytes), NEW n \in Nat, n >= 1, LinesRead(p, n)
    PROVE  /\ LinesRead(p \o t, n)
           /\ StartOf(p \o t, 2) = StartOf(p, 2)
           /\ StartOf(p \o t, n + 1) = StartOf(p, n + 1)
           /\ LengthTo(p \o t, n) = LengthTo(p, n)
<1>1. PICK q : q = p \o t
  OBVIOUS
<1>2. /\ Numbered(q, n)
      /\ \A k \in 1 .. n : EolOf(q, k) = EolOf(p, k)
      /\ \A k \in 1 .. n + 1 : StartOf(q, k) = StartOf(p, k)
      /\ \A k \in 1 .. n : Text(q, k) = Text(p, k)
  BY <1>1, AppendKeepsLines DEF LinesRead
<1>3. StartOf(q, 2) = StartOf(p, 2) /\ StartOf(q, n + 1) = StartOf(p, n + 1) /\ Text(q, 1) = Text(p, 1)
  BY <1>2
<1>4. ASSUME NEW k \in 2 .. n PROVE FieldSound(q, k)
  <2>1. k \in 1 .. n /\ k \in 1 .. n + 1
    OBVIOUS
  <2>2. EolOf(q, k) = EolOf(p, k) /\ StartOf(q, k) = StartOf(p, k) /\ Text(q, k) = Text(p, k)
    BY <1>2, <2>1
  <2>3. FieldSound(p, k)
    BY DEF LinesRead
  <2> QED
    BY <1>3, <2>2, <2>3 DEF FieldSound
<1>5. LinesRead(q, n)
  BY <1>2, <1>3, <1>4 DEF LinesRead
<1>6. \A k \in 2 .. n : Text(q, k) = Text(p, k)
  BY <1>2
<1>7. LengthTo(q, n) = LengthTo(p, n)
  BY <1>6, LengthOfLines
<1> QED
  BY <1>1, <1>3, <1>5, <1>7

-----------------------------------------------------------------------------
(* The reference verdict, from the lines that have been read *)

HeadLines(p) == {k \in 2 .. Lines(p) : \A b \in Blanks(p) : k <= b}
BadLines(p)  == {k \in HeadLines(p) : LineFault(p, k) # "none"}

LEMMA ReferenceIs ==
    ASSUME NEW p
    PROVE  Reference(p) =
             IF Lines(p) = 0
             THEN IF LineSoFar(p) > MaxRequestLine THEN "RequestLineTooLong" ELSE "incomplete"
             ELSE IF RequestLineError(Text(p, 1)) # "none" THEN RequestLineError(Text(p, 1))
             ELSE IF BadLines(p) # {} THEN LineFault(p, Min(BadLines(p)))
             ELSE IF Blanks(p) = {}
                  THEN IF Len(p) - StartOf(p, 2) > MaxHeaderBytes THEN "HeadersTooLarge"
                       ELSE "incomplete"
             ELSE IF Len(p) < RequestEnd(p) THEN "incomplete" ELSE "complete"
BY DEF Reference, BadLines, HeadLines

\* The lines read are not blank and have no fault.
LEMMA ReadHasNoFault ==
    ASSUME NEW p \in Seq(Bytes), NEW n \in Nat, n >= 1, LinesRead(p, n)
    PROVE  /\ \A b \in Blanks(p) : b \in Nat /\ n + 1 <= b
           /\ \A k \in 2 .. n : LineFault(p, k) = "none"
           /\ Lines(p) \in Nat /\ n <= Lines(p) /\ StartOf(p, 2) \in Nat
<1>1. Lines(p) \in Nat /\ n <= Lines(p)
  BY EolsInside, NumberedEol DEF LinesRead
<1>2. ASSUME NEW k \in 2 .. n PROVE k \notin Blanks(p)
  BY <1>2 DEF LinesRead, FieldSound, Blanks
<1>3. ASSUME NEW b \in Blanks(p) PROVE b \in Nat /\ n + 1 <= b
  <2>1. b \in 2 .. Lines(p)
    BY DEF Blanks
  <2>2. ~(b \in 2 .. n)
    BY <1>2
  <2> QED
    BY <1>1, <2>1, <2>2
<1>4. EolOf(p, 1) \in Nat
  BY NumberedEol DEF LinesRead
<1>5. StartOf(p, 2) \in Nat
  BY <1>4 DEF StartOf
<1>6. ASSUME NEW k \in 2 .. n PROVE LineFault(p, k) = "none"
  <2>1. FieldSound(p, k) /\ k \notin Blanks(p)
    BY <1>2 DEF LinesRead
  <2>2. EolOf(p, k) \in Nat /\ MaxHeaderBytes \in Nat /\ MaxHeaderCount \in Nat
    BY NumberedEol, ParserAssumption DEF LinesRead
  <2>3. /\ ~(EolOf(p, k) + 2 - StartOf(p, 2) > MaxHeaderBytes)
        /\ ~(k - 1 > MaxHeaderCount)
        /\ ~HeaderMalformed(Text(p, k))
    BY <1>5, <2>1, <2>2 DEF FieldSound
  <2> QED
    BY <2>1, <2>3 DEF LineFault
<1> QED
  BY <1>1, <1>3, <1>5, <1>6

\* No line has ended.
LEMMA ReferenceNoLine ==
    ASSUME NEW p, Lines(p) = 0
    PROVE  Reference(p) = IF LineSoFar(p) > MaxRequestLine THEN "RequestLineTooLong" ELSE "incomplete"
BY ReferenceIs

\* The request line is bad.
LEMMA ReferenceBadRequestLine ==
    ASSUME NEW p \in Seq(Bytes), Numbered(p, 1), RequestLineError(Text(p, 1)) # "none"
    PROVE  Reference(p) = RequestLineError(Text(p, 1))
<1>1. Lines(p) \in Nat /\ 1 <= Lines(p)
  BY EolsInside, NumberedEol
<1> QED
  BY <1>1, ReferenceIs

\* The line after those read is bad.
LEMMA ReferenceBadLine ==
    ASSUME NEW p \in Seq(Bytes), NEW n \in Nat, n >= 1, LinesRead(p, n), Numbered(p, n + 1),
           LineFault(p, n + 1) # "none"
    PROVE  Reference(p) = LineFault(p, n + 1)
<1>1. /\ \A b \in Blanks(p) : b \in Nat /\ n + 1 <= b
      /\ \A k \in 2 .. n : LineFault(p, k) = "none"
      /\ Lines(p) \in Nat /\ n + 1 <= Lines(p)
  BY ReadHasNoFault, NumberedEol
<1>2. n + 1 \in BadLines(p)
  BY <1>1 DEF BadLines, HeadLines
<1>3. ASSUME NEW k \in BadLines(p) PROVE k \in Nat /\ n + 1 <= k
  <2>1. k \in 2 .. Lines(p) /\ LineFault(p, k) # "none"
    BY DEF BadLines, HeadLines
  <2>2. ~(k \in 2 .. n)
    BY <1>1, <2>1
  <2> QED
    BY <1>1, <2>1, <2>2
<1>4. Min(BadLines(p)) = n + 1
  <2>1. BadLines(p) \in SUBSET Nat
    BY <1>3
  <2> QED
    BY <1>2, <1>3, <2>1, LeastIs
<1>5. Lines(p) # 0 /\ BadLines(p) # {} /\ RequestLineError(Text(p, 1)) = "none"
  BY <1>1, <1>2 DEF LinesRead
<1> QED
  BY <1>4, <1>5, ReferenceIs

\* Only the lines read have ended.
LEMMA ReferenceMoreHead ==
    ASSUME NEW p \in Seq(Bytes), NEW n \in Nat, n >= 1, LinesRead(p, n), Lines(p) = n
    PROVE  Reference(p) = IF Len(p) - StartOf(p, 2) > MaxHeaderBytes THEN "HeadersTooLarge" ELSE "incomplete"
<1>1. /\ \A b \in Blanks(p) : b \in Nat /\ n + 1 <= b
      /\ \A k \in 2 .. n : LineFault(p, k) = "none"
  BY ReadHasNoFault
<1>2. Blanks(p) \in SUBSET (2 .. n)
  BY DEF Blanks
<1>3. Blanks(p) = {}
  BY <1>1, <1>2
<1>4. BadLines(p) = {}
  BY <1>1 DEF BadLines, HeadLines
<1> QED
  BY <1>3, <1>4, ReferenceIs DEF LinesRead

\* At the blank line the fields are the lines read, and the length declared is
\* that of the first Content-Length among them.
LEMMA DeclaredAtBlank ==
    ASSUME NEW p \in Seq(Bytes), NEW n \in Nat, n >= 1, LinesRead(p, n), Numbered(p, n + 1),
           StartOf(p, n + 1) = EolOf(p, n + 1)
    PROVE  /\ n + 1 \in Blanks(p) /\ Blank(p) = n + 1
           /\ DeclaredLength(p) = Declared(LengthTo(p, n))
<1>1. /\ \A b \in Blanks(p) : b \in Nat /\ n + 1 <= b
      /\ Lines(p) \in Nat /\ n + 1 <= Lines(p)
  BY ReadHasNoFault, NumberedEol
<1>2. n + 1 \in Blanks(p)
  BY <1>1 DEF Blanks
<1>3. Blank(p) = n + 1
  <2>1. Blanks(p) \in SUBSET Nat
    BY <1>1
  <2> QED
    BY <1>1, <1>2, <2>1, LeastIs DEF Blank
<1>4. Fields(p) = 2 .. n
  <2>1. ASSUME NEW k \in Fields(p) PROVE k \in 2 .. n
    BY <1>1, <1>2 DEF Fields
  <2>2. ASSUME NEW k \in 2 .. n PROVE k \in Fields(p)
    BY <1>1 DEF Fields
  <2> QED
    BY <2>1, <2>2
<1>5. \A k \in 2 .. n : ~HeaderMalformed(Text(p, k))
  BY DEF LinesRead, FieldSound
<1> DEFINE named == {k \in Fields(p) : /\ ~HeaderMalformed(Text(p, k))
                                       /\ HeaderName(Text(p, k)) = <<"L">>}
<1>6. named = LengthLines(p, n)
  BY <1>4, <1>5 DEF LengthLines
<1>7. DeclaredLength(p) = IF named = {} THEN 0 ELSE ParseLength(HeaderValue(Text(p, Min(named))))
  BY DEF DeclaredLength
<1> HIDE DEF named
<1>8. \A v : ParseLength(v) # Absent
  BY DEF ParseLength, Absent, Unparsable
<1>9. DeclaredLength(p) = Declared(LengthTo(p, n))
  <2>1. CASE named = {}
    BY <1>6, <1>7, <2>1 DEF Declared, LengthTo
  <2>2. CASE named # {}
    <3>1. LengthTo(p, n) = DeclaredLength(p) /\ DeclaredLength(p) # Absent
      BY <1>6, <1>7, <1>8, <2>2 DEF LengthTo
    <3> QED
      BY <3>1 DEF Declared
  <2> QED
    BY <2>1, <2>2
<1> QED
  BY <1>2, <1>3, <1>9

\* The head has ended without an error.
LEMMA ReferenceBody ==
    ASSUME NEW p \in Seq(Bytes), NEW n \in Nat, n >= 1, LinesRead(p, n), Numbered(p, n + 1),
           HeadEnds(p, n + 1), NEW d \in Nat, d = Declared(LengthTo(p, n)), d <= MaxBody
    PROVE  /\ RequestEnd(p) = StartOf(p, n + 1) + 2 + d
           /\ Reference(p) = IF Len(p) < RequestEnd(p) THEN "incomplete" ELSE "complete"
<1>1. /\ \A b \in Blanks(p) : b \in Nat /\ n + 1 <= b
      /\ \A k \in 2 .. n : LineFault(p, k) = "none"
      /\ Lines(p) \in Nat /\ n + 1 <= Lines(p) /\ StartOf(p, 2) \in Nat
      /\ EolOf(p, n + 1) \in Nat
  BY ReadHasNoFault, NumberedEol
<1>2. n + 1 \in Blanks(p) /\ Blank(p) = n + 1 /\ DeclaredLength(p) = d
  BY DeclaredAtBlank DEF HeadEnds
<1>3. LineFault(p, n + 1) = "none"
  <2>1. MaxBody \in Nat /\ MaxHeaderBytes \in Nat
    BY ParserAssumption
  <2>2. /\ ~(EolOf(p, n + 1) + 2 - StartOf(p, 2) > MaxHeaderBytes)
        /\ ~(d > MaxBody) /\ d # Unparsable
    BY <1>1, <2>1 DEF HeadEnds, Unparsable
  <2> QED
    BY <1>2, <2>2 DEF LineFault
<1>4. BadLines(p) = {}
  <2>1. ASSUME NEW k \in BadLines(p) PROVE FALSE
    <3>1. k \in 2 .. Lines(p) /\ k <= n + 1 /\ LineFault(p, k) # "none"
      BY <1>2 DEF BadLines, HeadLines
    <3>2. k \in 2 .. n \/ k = n + 1
      BY <1>1, <3>1
    <3> QED
      BY <1>1, <1>3, <3>1, <3>2
  <2> QED
    BY <2>1
<1>5. RequestEnd(p) = StartOf(p, n + 1) + 2 + d
  BY <1>2 DEF RequestEnd
<1>6. Lines(p) # 0 /\ Blanks(p) # {} /\ RequestLineError(Text(p, 1)) = "none"
  BY <1>1, <1>2 DEF LinesRead
<1> QED
  BY <1>4, <1>5, <1>6, ReferenceIs

-----------------------------------------------------------------------------
(* The parser reads the lines in order, and answers as the reference does *)

\* What the resumed search finds: the end of the line after those numbered, or
\* that there is no other line.
LEMMA SearchFindsNextLine ==
    ASSUME TypeOK, \A i \in line_start .. scanned - 1 : ~CrlfAt(buf, i),
           NEW n \in Nat, Numbered(buf, n), line_start = StartOf(buf, n + 1)
    PROVE  /\ Eols # {} => /\ Numbered(buf, n + 1) /\ EolOf(buf, n + 1) = Eol
                           /\ Text(buf, n + 1) = Line(Eol)
           /\ Eols = {} => Lines(buf) = n
<1>1. /\ buf \in Seq(Bytes) /\ Len(buf) \in Nat /\ line_start \in Nat /\ scanned \in Nat
      /\ ScanFrom \in Nat /\ line_start <= ScanFrom
  BY DEF TypeOK, ScanFrom
<1>2. EolsOf(buf) \in SUBSET Nat
  BY <1>1, EolsInside
<1>3. ASSUME NEW i \in EolsOf(buf) PROVE i < line_start \/ i \in Eols
  <2>1. i \in 0 .. Len(buf) /\ CrlfAt(buf, i)
    BY DEF EolsOf
  <2>2. ~(i \in line_start .. scanned - 1)
    BY <2>1
  <2>3. i < line_start \/ i \in ScanFrom .. Len(buf)
    BY <1>1, <2>1, <2>2 DEF ScanFrom
  <2> QED
    BY <2>1, <2>3 DEF Eols
<1>4. Eols \in SUBSET EolsOf(buf)
  BY <1>1 DEF Eols, EolsOf
<1>5. ASSUME Eols # {}
      PROVE  Numbered(buf, n + 1) /\ EolOf(buf, n + 1) = Eol /\ Text(buf, n + 1) = Line(Eol)
  <2>1. Eol \in Eols /\ \A i \in Eols : Eol <= i
    BY <1>2, <1>4, <1>5, LeastOf DEF Eol
  <2>2. Eol \in EolsOf(buf) /\ line_start <= Eol
    BY <1>4, <1>5, <2>1, EolFound
  <2>3. \A i \in EolsOf(buf) : i < line_start \/ Eol <= i
    BY <1>3, <2>1
  <2>4. Numbered(buf, n + 1) /\ EolOf(buf, n + 1) = Eol
    BY <1>1, <2>2, <2>3, NextLine
  <2> QED
    BY <2>4 DEF Text, Line
<1>6. ASSUME Eols = {} PROVE Lines(buf) = n
  <2>1. \A i \in EolsOf(buf) : i < line_start
    BY <1>3, <1>6
  <2> QED
    BY <1>1, <2>1, LastLine
<1> QED
  BY <1>5, <1>6

\* In state RequestLine, and in state Headers, the line to read is the one
\* after those numbered.
LEMMA SearchAtRequestLine ==
    ASSUME IndInv, state = "RequestLine"
    PROVE  /\ Eols # {} => Numbered(buf, 1) /\ EolOf(buf, 1) = Eol /\ Text(buf, 1) = Line(Eol)
           /\ Eols = {} => Lines(buf) = 0
<1>1. line_start = StartOf(buf, 0 + 1) /\ Numbered(buf, 0)
  BY DEF IndInv, Safe, IndicesInBounds, StartOf, Numbered
<1>2. \A i \in line_start .. scanned - 1 : ~CrlfAt(buf, i)
  BY DEF IndInv, Safe, ScanSkipsNothing
<1>3. /\ Eols # {} => /\ Numbered(buf, 0 + 1) /\ EolOf(buf, 0 + 1) = Eol
                      /\ Text(buf, 0 + 1) = Line(Eol)
      /\ Eols = {} => Lines(buf) = 0
  BY <1>1, <1>2, SearchFindsNextLine DEF IndInv
<1>4. 0 + 1 = 1
  OBVIOUS
<1> QED
  BY <1>3, <1>4

LEMMA SearchAtHeaders ==
    ASSUME IndInv, state = "Headers", AtHeaders
    PROVE  /\ Eols # {} => /\ Numbered(buf, header_count + 2) /\ EolOf(buf, header_count + 2) = Eol
                           /\ Text(buf, header_count + 2) = Line(Eol)
           /\ Eols = {} => Lines(buf) = header_count + 1
<1>1. header_count \in Nat /\ header_count + 1 \in Nat /\ (header_count + 1) + 1 = header_count + 2
  BY DEF IndInv, TypeOK
<1>2. line_start = StartOf(buf, (header_count + 1) + 1) /\ Numbered(buf, header_count + 1)
  BY <1>1 DEF AtHeaders, LinesRead
<1>3. \A i \in line_start .. scanned - 1 : ~CrlfAt(buf, i)
  BY DEF IndInv, Safe, ScanSkipsNothing
<1>4. /\ Eols # {} => /\ Numbered(buf, (header_count + 1) + 1) /\ EolOf(buf, (header_count + 1) + 1) = Eol
                      /\ Text(buf, (header_count + 1) + 1) = Line(Eol)
      /\ Eols = {} => Lines(buf) = header_count + 1
  BY <1>1, <1>2, <1>3, SearchFindsNextLine DEF IndInv
<1> QED
  BY <1>1, <1>4

\* A verdict other than "complete" that agrees with the reference.
LEMMA VerdictStep ==
    ASSUME BufferIsUnconsumed, status = "running", UNCHANGED <<stream, fed, base>>,
           status' = Reference(buf), status' # "complete"
    PROVE  AnswersCurrent'
<1>1. Current' = buf
  BY DEF Current, BufferIsUnconsumed
<1> QED
  BY <1>1 DEF AnswersCurrent

\* No end of the request line is buffered: the answer is the reference's, or
\* the request line is split at the limit.
LEMMA RequestLineIncomplete ==
    ASSUME IndInv, ReadSoFar, BufferIsUnconsumed, status = "running", state = "RequestLine",
           LineIncomplete(line_start, MaxRequestLine, "RequestLineTooLong")
    PROVE  ReadSoFar' /\ AnswersCurrent'
<1>1. /\ buf \in Seq(Bytes) /\ Len(buf) \in Nat /\ line_start = 0 /\ MaxRequestLine \in Nat
      /\ AtRequestLine
  BY ParserAssumption DEF IndInv, TypeOK, Safe, IndicesInBounds, ReadSoFar
<1>2. /\ Eols = {} /\ UNCHANGED <<stream, fed, base, buf, header_count, length_header>>
      /\ \/ Len(buf) > MaxRequestLine /\ state' = "Done" /\ status' = "RequestLineTooLong"
         \/ ~(Len(buf) > MaxRequestLine) /\ state' = state /\ status' = "incomplete"
  BY <1>1 DEF LineIncomplete
<1>3. ReadSoFar'
  BY <1>1, <1>2 DEF ReadSoFar, AtRequestLine, Errors
<1>4. Lines(buf) = 0
  BY <1>2, SearchAtRequestLine
<1>5. Reference(buf) = IF LineSoFar(buf) > MaxRequestLine THEN "RequestLineTooLong" ELSE "incomplete"
  BY <1>4, ReferenceNoLine
<1>6. Current' = buf
  BY <1>2 DEF Current, BufferIsUnconsumed
<1>7. LineSoFar(buf) = Len(buf) \/ LineSoFar(buf) = Len(buf) - 1
  BY <1>1 DEF LineSoFar
<1>8. CASE Len(buf) = MaxRequestLine + 1 /\ LineSoFar(buf) = MaxRequestLine
  <2>1. SplitAtLimit'
    BY <1>4, <1>6, <1>8 DEF SplitAtLimit
  <2> QED
    BY <1>3, <2>1 DEF AnswersCurrent
<1>9. CASE ~(Len(buf) = MaxRequestLine + 1 /\ LineSoFar(buf) = MaxRequestLine)
  <2>1. LineSoFar(buf) > MaxRequestLine <=> Len(buf) > MaxRequestLine
    BY <1>1, <1>7, <1>9
  <2>2. status' = Reference(buf) /\ status' # "complete"
    BY <1>2, <1>5, <2>1
  <2> QED
    BY <1>2, <1>3, <2>2, VerdictStep
<1> QED
  BY <1>8, <1>9

\* An error final in the parser leaves nothing to say of the lines.
LEMMA ErrorIsFinal ==
    ASSUME NEW e \in Errors, state' = "Done", status' = e
    PROVE  ReadSoFar' /\ status' # "complete"
BY DEF ReadSoFar, Errors

LEMMA RequestLineRead ==
    ASSUME IndInv, ReadSoFar, BufferIsUnconsumed, AnswersCurrent, ParseRequestLine
    PROVE  ReadSoFar' /\ AnswersCurrent'
<1>0. status = "running" /\ state = "RequestLine" /\ buf \in Seq(Bytes) /\ AtRequestLine
  BY DEF ParseRequestLine, IndInv, TypeOK, ReadSoFar
<1>1. CASE LineIncomplete(line_start, MaxRequestLine, "RequestLineTooLong")
  BY <1>0, <1>1, RequestLineIncomplete
<1>2. CASE /\ Eols # {}
           /\ RequestLineError(Line(Eol)) # "none"
           /\ Fail(RequestLineError(Line(Eol)))
  <2>1. Numbered(buf, 1) /\ Text(buf, 1) = Line(Eol)
    BY <1>0, <1>2, SearchAtRequestLine
  <2>2. Reference(buf) = RequestLineError(Line(Eol))
    BY <1>0, <1>2, <2>1, ReferenceBadRequestLine
  <2>3. RequestLineError(Line(Eol)) \in Errors
    BY <1>2, VerdictsAreErrors
  <2>4. state' = "Done" /\ status' = RequestLineError(Line(Eol)) /\ UNCHANGED <<stream, fed, base>>
    BY <1>2 DEF Fail
  <2>5. ReadSoFar' /\ status' # "complete"
    BY <2>3, <2>4, ErrorIsFinal
  <2> QED
    BY <1>0, <2>2, <2>4, <2>5, VerdictStep
<1>3. CASE /\ Eols # {}
           /\ RequestLineError(Line(Eol)) = "none"
           /\ line_start' = Eol + 2
           /\ scanned' = Eol + 2
           /\ header_block_start' = Eol + 2
           /\ state' = "Headers"
           /\ UNCHANGED <<stream, fed, base, buf, body_start, header_count, content_length,
                          length_header, status, consumed>>
  <2>1. Numbered(buf, 1) /\ EolOf(buf, 1) = Eol /\ Text(buf, 1) = Line(Eol)
    BY <1>0, <1>3, SearchAtRequestLine
  <2>2. LinesRead(buf, 1)
    BY <1>3, <2>1 DEF LinesRead
  <2>3. StartOf(buf, 2) = Eol + 2
    BY <2>1 DEF StartOf
  <2>4. LengthTo(buf, 1) = Absent
    BY DEF LengthTo, LengthLines
  <2>5. header_count' = 0 /\ header_count' + 1 = 1 /\ header_count' + 2 = 2 /\ length_header' = Absent
    BY <1>0, <1>3 DEF AtRequestLine
  <2>6. AtHeaders'
    BY <1>3, <2>2, <2>3, <2>4, <2>5 DEF AtHeaders
  <2>7. ReadSoFar'
    BY <1>0, <1>3, <2>6 DEF ReadSoFar
  <2> QED
    BY <1>0, <1>3, <2>7 DEF AnswersCurrent, Returned
<1> QED
  BY <1>1, <1>2, <1>3 DEF ParseRequestLine

\* The verdict on the header line found is the fault of that line.
LEMMA HeaderErrorIsFault ==
    ASSUME IndInv, state = "Headers", AtHeaders, Eols # {}
    PROVE  HeaderError = LineFault(buf, header_count + 2)
<1>0. /\ header_count \in Nat /\ header_count + 1 \in Nat /\ (header_count + 1) + 1 = header_count + 2
      /\ buf \in Seq(Bytes)
  BY DEF IndInv, TypeOK
<1>1. PICK n : n = header_count + 2
  OBVIOUS
<1>2. Numbered(buf, n) /\ EolOf(buf, n) = Eol /\ Text(buf, n) = Line(Eol)
  BY <1>1, SearchAtHeaders
<1>3. /\ header_block_start = StartOf(buf, 2) /\ line_start = StartOf(buf, n)
      /\ LinesRead(buf, header_count + 1) /\ length_header = LengthTo(buf, header_count + 1)
  BY <1>1 DEF AtHeaders
<1>4. n \in 2 .. Lines(buf) /\ n - 1 = header_count + 1
  <2>1. n \in Nat /\ n \in 1 .. n /\ n >= 2
    BY <1>0, <1>1
  <2>2. n <= Lines(buf) /\ Lines(buf) \in Nat
    BY <1>0, <1>2, <2>1, NumberedEol, EolsInside
  <2> QED
    BY <1>0, <1>1, <2>1, <2>2
<1>5. n \in Blanks(buf) <=> Eol = line_start
  BY <1>2, <1>3, <1>4 DEF Blanks
<1>6. CASE Eol = line_start
  <2>1. DeclaredLength(buf) = Declared(length_header)
    <3>1. StartOf(buf, (header_count + 1) + 1) = EolOf(buf, (header_count + 1) + 1)
          /\ Numbered(buf, (header_count + 1) + 1)
      BY <1>0, <1>1, <1>2, <1>3, <1>6
    <3>2. DeclaredLength(buf) = Declared(LengthTo(buf, header_count + 1))
      BY <1>0, <1>3, <3>1, DeclaredAtBlank
    <3> QED
      BY <1>3, <3>2
  <2>2. LengthError = IF DeclaredLength(buf) = Unparsable THEN "MalformedHeader"
                      ELSE IF DeclaredLength(buf) > MaxBody THEN "BodyTooLarge" ELSE "none"
    <3>1. MaxBody \in Nat
      BY ParserAssumption
    <3>2. CASE length_header = Absent
      BY <2>1, <3>1, <3>2 DEF LengthError, Declared, Absent, Unparsable
    <3>3. CASE length_header # Absent
      BY <2>1, <3>3 DEF LengthError, Declared
    <3> QED
      BY <3>2, <3>3
  <2>3. LineFault(buf, n) = IF EolOf(buf, n) + 2 - StartOf(buf, 2) > MaxHeaderBytes THEN "HeadersTooLarge"
                            ELSE LengthError
    BY <1>5, <1>6, <2>2 DEF LineFault
  <2> QED
    BY <1>1, <1>2, <1>3, <1>6, <2>3 DEF HeaderError
<1>7. CASE Eol # line_start
  <2>1. LineFault(buf, n) = IF EolOf(buf, n) + 2 - StartOf(buf, 2) > MaxHeaderBytes THEN "HeadersTooLarge"
                            ELSE IF HeaderMalformed(Text(buf, n)) THEN "MalformedHeader"
                            ELSE IF n - 1 > MaxHeaderCount THEN "TooManyHeaders" ELSE "none"
    BY <1>5, <1>7 DEF LineFault
  <2> QED
    BY <1>1, <1>2, <1>3, <1>4, <1>7, <2>1 DEF HeaderError
<1> QED
  BY <1>6, <1>7

\* One more sound field is one more line read, and its length counts if no
\* field before it has one.
LEMMA OneMoreField ==
    ASSUME NEW p \in Seq(Bytes), NEW n \in Nat, n >= 1, LinesRead(p, n), Numbered(p, n + 1),
           FieldSound(p, n + 1)
    PROVE  /\ LinesRead(p, n + 1)
           /\ LengthTo(p, n + 1) =
                IF LengthTo(p, n) = Absent /\ HeaderName(Text(p, n + 1)) = <<"L">>
                THEN ParseLength(HeaderValue(Text(p, n + 1))) ELSE LengthTo(p, n)
<1>1. LinesRead(p, n + 1)
  <2>1. ASSUME NEW k \in 2 .. n + 1 PROVE FieldSound(p, k)
    <3>1. k \in 2 .. n \/ k = n + 1
      OBVIOUS
    <3> QED
      BY <3>1 DEF LinesRead
  <2> QED
    BY <2>1 DEF LinesRead
<1>2. \A v : ParseLength(v) # Absent
  BY DEF ParseLength, Absent, Unparsable
<1>3. LengthTo(p, n) = Absent <=> LengthLines(p, n) = {}
  BY <1>2 DEF LengthTo
<1>4. \A k : k \in LengthLines(p, n + 1)
              <=> k \in LengthLines(p, n) \/ (k = n + 1 /\ HeaderName(Text(p, n + 1)) = <<"L">>)
  <2>1. \A k : k \in 2 .. n + 1 <=> k \in 2 .. n \/ k = n + 1
    OBVIOUS
  <2> QED
    BY <2>1 DEF LengthLines
<1>5. LengthLines(p, n) \in SUBSET (2 .. n) /\ LengthLines(p, n + 1) \in SUBSET Nat
  BY DEF LengthLines
<1> HIDE DEF LengthLines
<1>6. CASE LengthLines(p, n) = {}
  <2>1. CASE HeaderName(Text(p, n + 1)) = <<"L">>
    <3>1. LengthLines(p, n + 1) = {n + 1}
      BY <1>4, <1>6, <2>1
    <3>2. Min(LengthLines(p, n + 1)) = n + 1
      BY <1>5, <3>1, LeastIs
    <3>3. LengthTo(p, n + 1) = ParseLength(HeaderValue(Text(p, n + 1)))
      BY <3>1, <3>2 DEF LengthTo
    <3> QED
      BY <1>1, <1>3, <1>6, <2>1, <3>3
  <2>2. CASE HeaderName(Text(p, n + 1)) # <<"L">>
    <3>1. LengthLines(p, n + 1) = {}
      BY <1>4, <1>6, <2>2
    <3>2. LengthTo(p, n + 1) = LengthTo(p, n)
      BY <1>6, <3>1 DEF LengthTo
    <3> QED
      BY <1>1, <2>2, <3>2
  <2> QED
    BY <2>1, <2>2
<1>7. CASE LengthLines(p, n) # {}
  <2>1. PICK m : m = Min(LengthLines(p, n))
    OBVIOUS
  <2>2. m \in LengthLines(p, n) /\ \A y \in LengthLines(p, n) : m <= y
    BY <1>5, <1>7, <2>1, LeastOf
  <2>3. m \in LengthLines(p, n + 1) /\ \A y \in LengthLines(p, n + 1) : m <= y
    BY <1>4, <1>5, <2>2
  <2>4. Min(LengthLines(p, n + 1)) = m
    BY <1>5, <2>3, LeastIs
  <2>5. LengthTo(p, n + 1) = LengthTo(p, n)
    <3>1. LengthLines(p, n + 1) # {}
      BY <2>3
    <3> QED
      BY <1>7, <2>1, <2>4, <3>1 DEF LengthTo
  <2> QED
    BY <1>1, <1>3, <1>7, <2>5
<1> QED
  BY <1>6, <1>7

LEMMA HeadersRead ==
    ASSUME IndInv, ReadSoFar, BufferIsUnconsumed, AnswersCurrent, ParseHeaders
    PROVE  ReadSoFar' /\ AnswersCurrent'
<1>0. /\ status = "running" /\ state = "Headers" /\ buf \in Seq(Bytes) /\ AtHeaders
      /\ header_count \in Nat /\ header_count + 1 \in Nat /\ (header_count + 1) + 1 = header_count + 2
      /\ header_count + 1 >= 1
      /\ header_block_start = StartOf(buf, 2) /\ line_start = StartOf(buf, header_count + 2)
      /\ LinesRead(buf, header_count + 1) /\ length_header = LengthTo(buf, header_count + 1)
      /\ MaxHeaderBytes \in Nat /\ MaxHeaderCount \in Nat /\ header_block_start \in Nat
  BY ParserAssumption DEF ParseHeaders, IndInv, TypeOK, ReadSoFar, AtHeaders
<1>1. CASE LineIncomplete(header_block_start, MaxHeaderBytes, "HeadersTooLarge")
  <2>1. /\ Eols = {}
        /\ UNCHANGED <<stream, fed, base, buf, line_start, header_block_start, header_count, length_header>>
        /\ \/ Len(buf) - header_block_start > MaxHeaderBytes /\ state' = "Done" /\ status' = "HeadersTooLarge"
           \/ /\ ~(Len(buf) - header_block_start > MaxHeaderBytes)
              /\ state' = state /\ status' = "incomplete"
    BY <1>1 DEF LineIncomplete
  <2>2. Lines(buf) = header_count + 1
    BY <1>0, <2>1, SearchAtHeaders
  <2>3. Reference(buf) = IF Len(buf) - StartOf(buf, 2) > MaxHeaderBytes THEN "HeadersTooLarge" ELSE "incomplete"
    BY <1>0, <2>2, ReferenceMoreHead
  <2>4. status' = Reference(buf) /\ status' # "complete"
    BY <1>0, <2>1, <2>3
  <2>5. AtHeaders'
    BY <1>0, <2>1 DEF AtHeaders
  <2>6. ReadSoFar'
    BY <1>0, <2>1, <2>5 DEF ReadSoFar, Errors
  <2> QED
    BY <1>0, <2>1, <2>4, <2>6, VerdictStep
<1>2. CASE Eols # {} /\ HeaderError # "none" /\ Fail(HeaderError)
  <2>1. Numbered(buf, (header_count + 1) + 1) /\ LineFault(buf, (header_count + 1) + 1) = HeaderError
    BY <1>0, <1>2, SearchAtHeaders, HeaderErrorIsFault
  <2>2. Reference(buf) = HeaderError
    BY <1>0, <1>2, <2>1, ReferenceBadLine
  <2>3. HeaderError \in Errors
    BY <1>2, VerdictsAreErrors
  <2>4. state' = "Done" /\ status' = HeaderError /\ UNCHANGED <<stream, fed, base>>
    BY <1>2 DEF Fail
  <2>5. ReadSoFar' /\ status' # "complete"
    BY <2>3, <2>4, ErrorIsFinal
  <2> QED
    BY <1>0, <2>2, <2>4, <2>5, VerdictStep
<1>3. CASE /\ Eols # {}
           /\ HeaderError = "none" /\ Eol = line_start
           /\ body_start' = Eol + 2
           /\ content_length' = IF length_header = Absent THEN 0 ELSE length_header
           /\ state' = "Body"
           /\ UNCHANGED <<stream, fed, base, buf, line_start, scanned, header_block_start,
                          header_count, length_header, status, consumed>>
  <2>1. Numbered(buf, header_count + 2) /\ EolOf(buf, header_count + 2) = Eol
    BY <1>0, <1>3, SearchAtHeaders
  <2>2. Eol \in Nat
    BY <1>3, EolFound DEF IndInv
  <2>3. ~(Eol + 2 - header_block_start > MaxHeaderBytes)
    BY <1>3 DEF HeaderError
  <2>4. HeadEnds(buf, header_count + 2)
    BY <1>0, <1>3, <2>1, <2>2, <2>3 DEF HeadEnds
  <2>5. content_length' = Declared(LengthTo(buf, header_count + 1))
    BY <1>0, <1>3 DEF Declared
  <2>6. AtBody'
    BY <1>0, <1>3, <2>1, <2>4, <2>5 DEF AtBody
  <2>7. ReadSoFar'
    BY <1>0, <1>3, <2>6 DEF ReadSoFar
  <2> QED
    BY <1>0, <1>3, <2>7 DEF AnswersCurrent, Returned
<1>4. CASE /\ Eols # {}
           /\ HeaderError = "none" /\ Eol # line_start
           /\ header_count' = header_count + 1
           /\ length_header' = InsertHeader(Line(Eol))
           /\ line_start' = Eol + 2
           /\ scanned' = Eol + 2
           /\ UNCHANGED <<stream, fed, base, buf, state, header_block_start, body_start,
                          content_length, status, consumed>>
  <2>1. PICK n : n = header_count + 1
    OBVIOUS
  <2>2. Numbered(buf, n + 1) /\ EolOf(buf, n + 1) = Eol /\ Text(buf, n + 1) = Line(Eol)
    BY <1>0, <1>4, <2>1, SearchAtHeaders
  <2>3. Eol \in Nat
    BY <1>4, EolFound DEF IndInv
  <2>4. /\ ~(Eol + 2 - header_block_start > MaxHeaderBytes)
        /\ ~HeaderMalformed(Line(Eol)) /\ ~(header_count + 1 > MaxHeaderCount)
    BY <1>4 DEF HeaderError
  <2>5. FieldSound(buf, n + 1)
    <3>1. StartOf(buf, n + 1) # EolOf(buf, n + 1)
      BY <1>0, <1>4, <2>1, <2>2
    <3>2. (n + 1) - 1 <= MaxHeaderCount
      BY <1>0, <2>1, <2>4
    <3>3. EolOf(buf, n + 1) + 2 - StartOf(buf, 2) <= MaxHeaderBytes
      BY <1>0, <2>2, <2>3, <2>4
    <3> QED
      BY <2>2, <2>4, <3>1, <3>2, <3>3 DEF FieldSound
  <2>6. /\ LinesRead(buf, n + 1)
        /\ LengthTo(buf, n + 1) =
             IF LengthTo(buf, n) = Absent /\ HeaderName(Text(buf, n + 1)) = <<"L">>
             THEN ParseLength(HeaderValue(Text(buf, n + 1))) ELSE LengthTo(buf, n)
    BY <1>0, <2>1, <2>2, <2>5, OneMoreField
  <2>7. length_header' = LengthTo(buf, n + 1)
    BY <1>0, <1>4, <2>1, <2>2, <2>6 DEF InsertHeader
  <2>8. header_count' + 1 = n + 1 /\ header_count' + 2 = (n + 1) + 1 /\ (n + 1) + 1 # 1 /\ ((n + 1) + 1) - 1 = n + 1
    BY <1>0, <1>4, <2>1
  <2>9. StartOf(buf, (n + 1) + 1) = Eol + 2
    BY <2>2, <2>8 DEF StartOf
  <2>10. AtHeaders'
    BY <1>0, <1>4, <2>6, <2>7, <2>8, <2>9 DEF AtHeaders
  <2>11. ReadSoFar'
    BY <1>0, <1>4, <2>10 DEF ReadSoFar
  <2> QED
    BY <1>0, <1>4, <2>11 DEF AnswersCurrent, Returned
<1> QED
  BY <1>1, <1>2, <1>3, <1>4 DEF ParseHeaders

LEMMA BodyRead ==
    ASSUME IndInv, ReadSoFar, BufferIsUnconsumed, AnswersCurrent, ParseBody
    PROVE  ReadSoFar' /\ AnswersCurrent'
<1>0. /\ status = "running" /\ state = "Body" /\ buf \in Seq(Bytes) /\ Len(buf) \in Nat /\ AtBody
      /\ header_count + 1 \in Nat /\ (header_count + 1) + 1 = header_count + 2 /\ header_count + 1 >= 1
      /\ body_start \in Nat /\ content_length \in Nat /\ content_length <= MaxBody
  BY DEF ParseBody, IndInv, TypeOK, Safe, CeilingsSoFar, ReadSoFar
<1>1. /\ LinesRead(buf, header_count + 1) /\ Numbered(buf, (header_count + 1) + 1)
      /\ HeadEnds(buf, (header_count + 1) + 1) /\ body_start = StartOf(buf, (header_count + 1) + 1) + 2
      /\ content_length = Declared(LengthTo(buf, header_count + 1))
  BY <1>0 DEF AtBody
<1>2. /\ RequestEnd(buf) = StartOf(buf, (header_count + 1) + 1) + 2 + content_length
      /\ Reference(buf) = IF Len(buf) < RequestEnd(buf) THEN "incomplete" ELSE "complete"
  BY <1>0, <1>1, ReferenceBody
<1>3. RequestEnd(buf) = body_start + content_length
  BY <1>1, <1>2
<1>4. UNCHANGED <<stream, fed, base, header_count, body_start, content_length>>
  BY DEF ParseBody
<1>5. CASE /\ Len(buf) - body_start < content_length
           /\ status' = "incomplete"
           /\ UNCHANGED <<buf, state, length_header, consumed>>
  <2>1. status' = Reference(buf) /\ status' # "complete"
    BY <1>0, <1>2, <1>3, <1>5
  <2>2. AtBody'
    BY <1>0, <1>4, <1>5 DEF AtBody
  <2>3. ReadSoFar'
    BY <1>0, <1>5, <2>2 DEF ReadSoFar
  <2> QED
    BY <1>0, <1>4, <2>1, <2>3, VerdictStep
<1>6. CASE /\ Len(buf) - body_start >= content_length
           /\ consumed' = body_start + content_length
           /\ buf' = Leftover
           /\ length_header' = Absent
           /\ state' = "Done"
           /\ status' = "complete"
  <2>1. Current' = buf
    BY <1>0, <1>4 DEF Current, BufferIsUnconsumed
  <2>2. status' = Reference(buf) /\ consumed' = RequestEnd(buf)
    BY <1>0, <1>2, <1>3, <1>6
  <2>3. AnswersCurrent'
    BY <2>1, <2>2 DEF AnswersCurrent
  <2>4. ReadSoFar'
    BY <1>6 DEF ReadSoFar
  <2> QED
    BY <2>3, <2>4
<1> QED
  BY <1>5, <1>6 DEF ParseBody

\* More bytes leave what has been read as it is.
LEMMA PushRead ==
    ASSUME IndInv, ReadSoFar, Push
    PROVE  ReadSoFar' /\ AnswersCurrent'
<1>1. PICK n \in 1 .. Len(stream) - fed :
          buf' = buf \o SubSeq(stream, fed + 1, fed + n) /\ fed' = fed + n
  BY DEF Push
<1>2. PICK t : t = SubSeq(stream, fed + 1, fed + n)
  OBVIOUS
<1>3. stream \in Seq(Bytes) /\ Len(stream) \in Nat /\ fed \in Nat /\ n \in Nat
  BY ParserAssumption DEF IndInv, TypeOK
<1>4. t \in Seq(Bytes) /\ buf \in Seq(Bytes) /\ buf' = buf \o t
  BY <1>1, <1>2, <1>3, SubSeqProperties DEF IndInv, TypeOK
<1>5. /\ status \in {"incomplete", "reset"} /\ status' = "running"
      /\ UNCHANGED <<state, line_start, header_block_start, body_start, header_count, content_length,
                     length_header>>
  BY DEF Push, parserVars
<1>6. AnswersCurrent'
  BY <1>5 DEF AnswersCurrent, Returned
<1>7. /\ header_count \in Nat /\ header_count + 1 \in Nat /\ header_count + 1 >= 1
      /\ (header_count + 1) + 1 = header_count + 2 /\ header_count + 2 \in Nat
  BY DEF IndInv, TypeOK
<1>8. ASSUME LinesRead(buf, header_count + 1)
      PROVE  /\ LinesRead(buf', header_count + 1) /\ StartOf(buf', 2) = StartOf(buf, 2)
             /\ StartOf(buf', header_count + 2) = StartOf(buf, header_count + 2)
             /\ LengthTo(buf', header_count + 1) = LengthTo(buf, header_count + 1)
  <2>1. /\ LinesRead(buf \o t, header_count + 1) /\ StartOf(buf \o t, 2) = StartOf(buf, 2)
        /\ StartOf(buf \o t, (header_count + 1) + 1) = StartOf(buf, (header_count + 1) + 1)
        /\ LengthTo(buf \o t, header_count + 1) = LengthTo(buf, header_count + 1)
    BY <1>4, <1>7, <1>8, AppendKeepsRead
  <2> QED
    BY <1>4, <1>7, <2>1
<1>9. state = "Headers" => AtHeaders'
  BY <1>5, <1>8 DEF ReadSoFar, AtHeaders
<1>10. ASSUME state = "Body" PROVE AtBody'
  <2>1. AtBody
    BY <1>10 DEF ReadSoFar
  <2>2. /\ LinesRead(buf', header_count + 1) /\ StartOf(buf', 2) = StartOf(buf, 2)
        /\ StartOf(buf', header_count + 2) = StartOf(buf, header_count + 2)
        /\ LengthTo(buf', header_count + 1) = LengthTo(buf, header_count + 1)
    BY <1>8, <2>1 DEF AtBody
  <2>3. Numbered(buf \o t, header_count + 2)
        /\ \A k \in 1 .. header_count + 2 : EolOf(buf \o t, k) = EolOf(buf, k)
    BY <1>4, <1>7, <2>1, AppendKeepsLines DEF AtBody
  <2>4. Numbered(buf', header_count + 2) /\ EolOf(buf', header_count + 2) = EolOf(buf, header_count + 2)
    <3>1. header_count + 2 \in 1 .. header_count + 2
      BY <1>7
    <3> QED
      BY <1>4, <2>3, <3>1
  <2>5. HeadEnds(buf', header_count + 2)
    BY <2>1, <2>2, <2>4 DEF AtBody, HeadEnds
  <2> QED
    BY <1>5, <2>1, <2>2, <2>4, <2>5 DEF AtBody
<1>11. ReadSoFar'
  BY <1>5, <1>9, <1>10 DEF ReadSoFar, AtRequestLine, Errors
<1> QED
  BY <1>6, <1>11

LEMMA VerdictStepInv ==
    ASSUME IndInv, ReadSoFar, BufferIsUnconsumed, AnswersCurrent, [Next]_vars
    PROVE  ReadSoFar' /\ AnswersCurrent'
<1>1. CASE Reset
  <2>1. /\ state' = "RequestLine" /\ status' = "reset" /\ header_count' = 0 /\ length_header' = Absent
    BY <1>1 DEF Reset, ReadSoFar
  <2> QED
    BY <2>1 DEF ReadSoFar, AtRequestLine, AnswersCurrent, Returned
<1>2. CASE UNCHANGED vars
  <2>1. UNCHANGED <<stream, fed, base, buf, state, line_start, header_block_start, body_start,
                    header_count, content_length, length_header, status, consumed>>
    BY <1>2 DEF vars, parserVars
  <2>2. ReadSoFar'
    BY <2>1 DEF ReadSoFar, AtRequestLine, AtHeaders, AtBody
  <2>3. Current' = Current
    BY <2>1 DEF Current
  <2>4. AnswersCurrent'
    BY <2>1, <2>3 DEF AnswersCurrent, Returned, SplitAtLimit
  <2> QED
    BY <2>2, <2>4
<1> QED
  BY <1>1, <1>2, PushRead, RequestLineRead, HeadersRead, BodyRead DEF Next

-----------------------------------------------------------------------------
(* More bytes do not change a final verdict *)

\* Every line up to the number of ends of line has its end: the counts are
\* that many different numbers from 1 on.
LEMMA AllNumbered ==
    ASSUME NEW p \in Seq(Bytes)
    PROVE  Numbered(p, Lines(p))
<1>1. /\ IsFiniteSet(EolsOf(p)) /\ Lines(p) \in Nat /\ EolsOf(p) \in SUBSET Nat
      /\ Lines(p) = Cardinality(EolsOf(p))
  BY EolsInside DEF Lines
<1>2. ASSUME NEW k \in 1 .. Lines(p), \A e \in EolsOf(p) : Count(p, e) # k
      PROVE  FALSE
  <2>1. PICK T : T = (1 .. Lines(p)) \ {k}
    OBVIOUS
  <2>2. IsFiniteSet(T) /\ Cardinality(T) < Cardinality(EolsOf(p))
    <3>1. IsFiniteSet(1 .. Lines(p)) /\ Cardinality(1 .. Lines(p)) = Lines(p)
      BY <1>1, FS_Interval
    <3>2. IsFiniteSet(T) /\ Cardinality(T) = Cardinality(1 .. Lines(p)) - 1
      BY <2>1, <3>1, FS_RemoveElement
    <3> QED
      BY <1>1, <3>1, <3>2
  <2>3. ASSUME NEW e \in EolsOf(p) PROVE Count(p, e) \in T
    <3>1. Count(p, e) \in Nat /\ Count(p, e) <= Lines(p)
      BY CountsInside
    <3>2. Count(p, e) # 0
      <4>1. e \in EolsTo(p, e) /\ IsFiniteSet(EolsTo(p, e))
        BY <1>1, CountsInside DEF EolsTo
      <4>2. IsFiniteSet({e}) /\ Cardinality({e}) = 1
        BY FS_Singleton
      <4>3. Cardinality({e}) <= Cardinality(EolsTo(p, e))
        BY <4>1, FS_Subset
      <4> QED
        BY <3>1, <4>2, <4>3 DEF Count
    <3> QED
      BY <1>1, <1>2, <2>1, <3>1, <3>2
  <2>4. PICK f : f = [e \in EolsOf(p) |-> Count(p, e)]
    OBVIOUS
  <2>5. f \in [EolsOf(p) -> T]
    BY <2>3, <2>4
  <2>6. PICK x, y \in EolsOf(p) : x # y /\ f[x] = f[y]
    BY <1>1, <2>2, <2>5, FS_PigeonHole
  <2>7. Count(p, x) = Count(p, y)
    BY <2>4, <2>6
  <2>8. EolOf(p, Count(p, y)) = x /\ EolOf(p, Count(p, y)) = y
    BY <2>7, EolIs
  <2> QED
    BY <2>6, <2>8
<1> QED
  BY <1>2 DEF Numbered

\* Fewer lines than those numbered are numbered too.
LEMMA FewerNumbered ==
    ASSUME NEW p, NEW n \in Nat, Numbered(p, n), NEW m \in Nat, m <= n
    PROVE  Numbered(p, m)
BY DEF Numbered

\* An end of line that only the longer sequence has takes in all of the
\* shorter, but for a CR at its end.
LEMMA NewEolIsLate ==
    ASSUME NEW p \in Seq(Bytes), NEW t \in Seq(Bytes), NEW e \in EolsOf(p \o t), e \notin EolsOf(p)
    PROVE  e \in Nat /\ e >= LineSoFar(p) /\ e + 2 > Len(p)
<1>1. PICK q : q = p \o t
  OBVIOUS
<1>2. /\ q \in Seq(Bytes) /\ Len(p) <= Len(q) /\ Len(p) \in Nat /\ Len(q) \in Nat
      /\ \A i \in 1 .. Len(p) : q[i] = p[i]
  BY <1>1, AppendKeepsBytes
<1>3. e \in Nat /\ e + 1 < Len(q) /\ q[e + 1] = "CR" /\ q[e + 2] = "LF"
  BY <1>1, <1>2 DEF EolsOf, CrlfAt
<1>4. e + 2 > Len(p)
  <2>1. SUFFICES ASSUME e + 2 <= Len(p) PROVE FALSE
    BY <1>2, <1>3
  <2>2. e + 1 \in 1 .. Len(p) /\ e + 2 \in 1 .. Len(p) /\ e \in 0 .. Len(p) /\ e + 1 < Len(p)
    BY <1>2, <1>3, <2>1
  <2>3. p[e + 1] = "CR" /\ p[e + 2] = "LF"
    BY <1>2, <1>3, <2>2
  <2>4. e \in EolsOf(p)
    BY <2>2, <2>3 DEF EolsOf, CrlfAt
  <2> QED
    BY <2>4
<1>5. CASE e >= Len(p)
  <2>1. LineSoFar(p) = Len(p) \/ LineSoFar(p) = Len(p) - 1
    BY DEF LineSoFar
  <2> QED
    BY <1>2, <1>3, <1>4, <1>5, <2>1
<1>6. CASE ~(e >= Len(p))
  <2>1. e + 1 = Len(p) /\ Len(p) \in 1 .. Len(p)
    BY <1>2, <1>3, <1>4, <1>6
  <2>2. p[Len(p)] = "CR"
    BY <1>2, <1>3, <2>1
  <2>3. p # << >>
    BY <2>1, EmptySeq
  <2>4. LineSoFar(p) = Len(p) - 1
    BY <2>2, <2>3 DEF LineSoFar
  <2> QED
    BY <1>2, <1>3, <1>4, <2>1, <2>4
<1> QED
  BY <1>5, <1>6

\* A request line too long before it ends stays so.
LEMMA LongLineStays ==
    ASSUME NEW p \in Seq(Bytes), NEW t \in Seq(Bytes), Lines(p) = 0, LineSoFar(p) > MaxRequestLine
    PROVE  Reference(p \o t) = "RequestLineTooLong"
<1>0. MaxRequestLine \in Nat
  BY ParserAssumption
<1>1. PICK q : q = p \o t
  OBVIOUS
<1>2. q \in Seq(Bytes) /\ Len(q) = Len(p) + Len(t) /\ Len(p) \in Nat /\ Len(t) \in Nat
      /\ Lines(q) \in Nat
  <2>1. q \in Seq(Bytes) /\ Len(q) = Len(p) + Len(t)
    BY <1>1, ConcatProperties
  <2> QED
    BY <2>1, EolsInside
<1>3. /\ LineSoFar(p) = Len(p) \/ LineSoFar(p) = Len(p) - 1
      /\ LineSoFar(q) = Len(q) \/ LineSoFar(q) = Len(q) - 1
  BY DEF LineSoFar
<1>4. CASE Lines(q) = 0
  <2>1. LineSoFar(q) > MaxRequestLine
    <3>1. CASE Len(t) = 0
      <4>1. q = p
        BY <1>1, <3>1, EmptySeq, ConcatEmptySeq
      <4> QED
        BY <4>1
    <3>2. CASE Len(t) # 0
      BY <1>0, <1>2, <1>3, <3>2
    <3> QED
      BY <3>1, <3>2
  <2> QED
    BY <1>1, <1>4, <2>1, ReferenceNoLine
<1>5. CASE Lines(q) # 0
  <2>1. Numbered(q, 1)
    BY <1>2, <1>5, AllNumbered, FewerNumbered
  <2>2. EolOf(q, 1) \in EolsOf(q) /\ EolOf(q, 1) \in Nat /\ EolOf(q, 1) + 2 <= Len(q)
    BY <1>2, <2>1, NumberedEol
  <2>3. EolOf(q, 1) \notin EolsOf(p)
    <3>1. EolsOf(p) = {}
      BY EolsInside, FS_EmptySet DEF Lines
    <3> QED
      BY <3>1
  <2>4. EolOf(q, 1) > MaxRequestLine
    <3>1. EolOf(q, 1) >= LineSoFar(p)
      BY <1>1, <2>2, <2>3, NewEolIsLate
    <3> QED
      BY <1>0, <1>2, <1>3, <2>2, <3>1
  <2>5. Len(Text(q, 1)) = EolOf(q, 1)
    <3>1. Text(q, 1) = SubSeq(q, 0 + 1, EolOf(q, 1))
      BY DEF Text, StartOf
    <3> QED
      BY <1>2, <2>2, <3>1, SubSeqProperties
  <2>6. RequestLineError(Text(q, 1)) = "RequestLineTooLong"
    BY <2>4, <2>5 DEF RequestLineError
  <2> QED
    BY <1>1, <1>2, <2>1, <2>6, ReferenceBadRequestLine
<1> QED
  BY <1>4, <1>5

\* Lines without a fault before the blank line are lines read.
LEMMA FaultlessIsRead ==
    ASSUME NEW p \in Seq(Bytes), NEW m \in Nat, m >= 1, Numbered(p, m),
           RequestLineError(Text(p, 1)) = "none",
           \A k \in 2 .. m : LineFault(p, k) = "none" /\ k \notin Blanks(p)
    PROVE  LinesRead(p, m)
<1>1. EolOf(p, 1) \in Nat
  BY NumberedEol
<1>2. StartOf(p, 2) \in Nat /\ MaxHeaderBytes \in Nat /\ MaxHeaderCount \in Nat
  BY <1>1, ParserAssumption DEF StartOf
<1>3. ASSUME NEW k \in 2 .. m PROVE FieldSound(p, k)
  <2>1. LineFault(p, k) = "none" /\ k \notin Blanks(p)
    OBVIOUS
  <2>2. EolOf(p, k) \in Nat /\ k <= Lines(p) /\ Lines(p) \in Nat
    BY NumberedEol, EolsInside
  <2>3. StartOf(p, k) # EolOf(p, k)
    BY <2>1, <2>2 DEF Blanks
  <2>4. /\ ~(EolOf(p, k) + 2 - StartOf(p, 2) > MaxHeaderBytes)
        /\ ~HeaderMalformed(Text(p, k)) /\ ~(k - 1 > MaxHeaderCount)
    BY <2>1 DEF LineFault
  <2> QED
    BY <1>2, <2>2, <2>3, <2>4 DEF FieldSound
<1> QED
  BY <1>3 DEF LinesRead

\* The fault of the line after those read stays.
LEMMA FaultStays ==
    ASSUME NEW p \in Seq(Bytes), NEW t \in Seq(Bytes), NEW n \in Nat, n >= 1, LinesRead(p, n),
           Numbered(p, n + 1)
    PROVE  LineFault(p \o t, n + 1) = LineFault(p, n + 1)
<1>1. PICK q : q = p \o t
  OBVIOUS
<1>2. /\ q \in Seq(Bytes) /\ n + 1 \in Nat /\ n + 1 \in 1 .. n + 1 /\ n + 1 \in 1 .. (n + 1) + 1
  BY <1>1, AppendKeepsBytes
<1>3. /\ Numbered(q, n + 1)
      /\ EolOf(q, n + 1) = EolOf(p, n + 1) /\ StartOf(q, n + 1) = StartOf(p, n + 1)
      /\ Text(q, n + 1) = Text(p, n + 1)
  BY <1>1, <1>2, AppendKeepsLines
<1>4. LinesRead(q, n) /\ StartOf(q, 2) = StartOf(p, 2) /\ LengthTo(q, n) = LengthTo(p, n)
  BY <1>1, AppendKeepsRead
<1>5. n + 1 \in 2 .. Lines(p) /\ n + 1 \in 2 .. Lines(q)
  <2>1. n + 1 <= Lines(p) /\ n + 1 <= Lines(q) /\ Lines(p) \in Nat /\ Lines(q) \in Nat
    BY <1>2, <1>3, NumberedEol, EolsInside
  <2> QED
    BY <2>1
<1>6. CASE StartOf(p, n + 1) = EolOf(p, n + 1)
  <2>1. n + 1 \in Blanks(p) /\ DeclaredLength(p) = Declared(LengthTo(p, n))
    BY <1>6, DeclaredAtBlank
  <2>2. n + 1 \in Blanks(q) /\ DeclaredLength(q) = Declared(LengthTo(q, n))
    BY <1>2, <1>3, <1>4, <1>6, DeclaredAtBlank
  <2>3. LineFault(q, n + 1) = LineFault(p, n + 1)
    BY <1>3, <1>4, <2>1, <2>2 DEF LineFault
  <2> QED
    BY <1>1, <2>3
<1>7. CASE StartOf(p, n + 1) # EolOf(p, n + 1)
  <2>1. n + 1 \notin Blanks(p) /\ n + 1 \notin Blanks(q)
    BY <1>3, <1>7 DEF Blanks
  <2>2. LineFault(q, n + 1) = LineFault(p, n + 1)
    BY <1>3, <1>4, <2>1 DEF LineFault
  <2> QED
    BY <1>1, <2>2
<1> QED
  BY <1>6, <1>7

\* A head too large before it ends stays so.
LEMMA LargeHeadStays ==
    ASSUME NEW p \in Seq(Bytes), NEW t \in Seq(Bytes), NEW n \in Nat, n >= 1, LinesRead(p, n),
           Lines(p) = n, Len(p) - StartOf(p, 2) > MaxHeaderBytes
    PROVE  Reference(p \o t) = "HeadersTooLarge"
<1>0. MaxHeaderBytes \in Nat /\ StartOf(p, 2) \in Nat /\ Len(p) \in Nat
  BY ParserAssumption, ReadHasNoFault
<1>1. PICK q : q = p \o t
  OBVIOUS
<1>2. q \in Seq(Bytes) /\ Len(p) <= Len(q) /\ Len(q) \in Nat
  BY <1>1, AppendKeepsBytes
<1>3. LinesRead(q, n) /\ StartOf(q, 2) = StartOf(p, 2)
  BY <1>1, AppendKeepsRead
<1>4. Lines(q) \in Nat /\ n <= Lines(q)
  BY <1>2, <1>3, ReadHasNoFault
<1>5. CASE Lines(q) = n
  <2>1. Len(q) - StartOf(q, 2) > MaxHeaderBytes
    BY <1>0, <1>2, <1>3
  <2> QED
    BY <1>1, <1>2, <1>3, <1>5, <2>1, ReferenceMoreHead
<1>6. CASE Lines(q) # n
  <2>1. Numbered(q, n + 1)
    BY <1>2, <1>4, <1>6, AllNumbered, FewerNumbered
  <2>2. PICK e : e = EolOf(q, n + 1)
    OBVIOUS
  <2>3. e \in EolsOf(q) /\ Count(q, e) = n + 1
    BY <1>2, <2>1, <2>2, NumberedEol
  <2>4. e \notin EolsOf(p)
    <3>1. SUFFICES ASSUME e \in EolsOf(p) PROVE FALSE
      OBVIOUS
    <3>2. Count(p, e) = n + 1
      BY <1>1, <2>3, <3>1, AppendKeepsCount
    <3>3. Count(p, e) <= n
      BY CountsInside
    <3> QED
      BY <3>2, <3>3
  <2>5. e \in Nat /\ e + 2 > Len(p)
    BY <1>1, <2>3, <2>4, NewEolIsLate
  <2>6. EolOf(q, n + 1) + 2 - StartOf(q, 2) > MaxHeaderBytes
    BY <1>0, <1>3, <2>2, <2>5
  <2>7. LineFault(q, n + 1) = "HeadersTooLarge"
    BY <2>6 DEF LineFault
  <2> QED
    BY <1>1, <1>2, <1>3, <2>1, <2>7, ReferenceBadLine
<1> QED
  BY <1>5, <1>6

\* A complete head keeps its end and its length.
LEMMA BodyStays ==
    ASSUME NEW p \in Seq(Bytes), NEW t \in Seq(Bytes), NEW n \in Nat, n >= 1, LinesRead(p, n),
           Numbered(p, n + 1), StartOf(p, n + 1) = EolOf(p, n + 1), LineFault(p, n + 1) = "none"
    PROVE  /\ RequestEnd(p \o t) = RequestEnd(p)
           /\ Reference(p \o t) = IF Len(p \o t) < RequestEnd(p) THEN "incomplete" ELSE "complete"
<1>0. MaxBody \in Nat /\ MaxHeaderBytes \in Nat /\ n + 1 \in 1 .. n + 1 /\ n + 1 \in 1 .. (n + 1) + 1
      /\ n + 1 \in Nat
  BY ParserAssumption
<1>1. PICK q : q = p \o t
  OBVIOUS
<1>2. q \in Seq(Bytes)
  BY <1>1, AppendKeepsBytes
<1>3. /\ Numbered(q, n + 1)
      /\ EolOf(q, n + 1) = EolOf(p, n + 1) /\ StartOf(q, n + 1) = StartOf(p, n + 1)
  BY <1>0, <1>1, AppendKeepsLines
<1>4. LinesRead(q, n) /\ StartOf(q, 2) = StartOf(p, 2) /\ LengthTo(q, n) = LengthTo(p, n)
  BY <1>1, AppendKeepsRead
<1>5. PICK d : d = Declared(LengthTo(p, n))
  OBVIOUS
<1>6. n + 1 \in Blanks(p) /\ DeclaredLength(p) = d
  BY <1>5, DeclaredAtBlank
<1>7. /\ ~(EolOf(p, n + 1) + 2 - StartOf(p, 2) > MaxHeaderBytes)
      /\ d # Unparsable /\ ~(d > MaxBody)
  BY <1>6 DEF LineFault
<1>8. d \in Nat /\ d <= MaxBody
  <2>1. \A v : ParseLength(v) \in {Unparsable, 1, 11}
    BY DEF ParseLength
  <2>2. d \in {Unparsable, 0, 1, 11}
    BY <1>5, <2>1 DEF Declared, LengthTo
  <2>3. d \in Nat
    BY <1>7, <2>2
  <2> QED
    BY <1>0, <1>7, <2>3
<1>9. EolOf(p, n + 1) \in Nat /\ StartOf(p, 2) \in Nat
  BY <1>0, NumberedEol, ReadHasNoFault
<1>10. HeadEnds(p, n + 1) /\ HeadEnds(q, n + 1)
  BY <1>0, <1>3, <1>4, <1>7, <1>9 DEF HeadEnds
<1>11. RequestEnd(p) = StartOf(p, n + 1) + 2 + d
  BY <1>5, <1>8, <1>10, ReferenceBody
<1>12. /\ RequestEnd(q) = StartOf(q, n + 1) + 2 + d
       /\ Reference(q) = IF Len(q) < RequestEnd(q) THEN "incomplete" ELSE "complete"
  BY <1>2, <1>3, <1>4, <1>5, <1>8, <1>10, ReferenceBody
<1> QED
  BY <1>1, <1>3, <1>11, <1>12

\* A final verdict of the reference stays, and so does the end of a complete
\* request: the bytes that follow have no say.
THEOREM FinalVerdictStays ==
    ASSUME NEW p \in Seq(Bytes), NEW t \in Seq(Bytes), Reference(p) # "incomplete"
    PROVE  /\ Reference(p \o t) = Reference(p)
           /\ Reference(p) = "complete" => RequestEnd(p \o t) = RequestEnd(p)
<1>1. PICK q : q = p \o t
  OBVIOUS
<1>2. /\ q \in Seq(Bytes) /\ Len(p) <= Len(q) /\ Len(p) \in Nat /\ Len(q) \in Nat
      /\ Lines(p) \in Nat /\ Numbered(p, Lines(p))
  BY <1>1, AppendKeepsBytes, EolsInside, AllNumbered
<1>3. CASE Lines(p) = 0
  <2>1. LineSoFar(p) > MaxRequestLine /\ Reference(p) = "RequestLineTooLong"
    BY <1>3, ReferenceNoLine
  <2> QED
    BY <1>3, <2>1, LongLineStays
<1>4. CASE Lines(p) # 0 /\ RequestLineError(Text(p, 1)) # "none"
  <2>1. Numbered(p, 1)
    BY <1>2, <1>4, FewerNumbered
  <2>2. Numbered(q, 1) /\ Text(q, 1) = Text(p, 1)
    BY <1>1, <2>1, AppendKeepsLines
  <2>3. Reference(p) = RequestLineError(Text(p, 1)) /\ Reference(q) = RequestLineError(Text(p, 1))
    BY <1>2, <1>4, <2>1, <2>2, ReferenceBadRequestLine
  <2>4. Reference(p) # "complete"
    BY <1>4, <2>3, VerdictsAreErrors DEF Errors
  <2> QED
    BY <1>1, <2>3, <2>4
<1>5. CASE Lines(p) # 0 /\ RequestLineError(Text(p, 1)) = "none" /\ BadLines(p) # {}
  <2>1. PICK m : m = Min(BadLines(p))
    OBVIOUS
  <2>2. BadLines(p) \in SUBSET (2 .. Lines(p))
    BY DEF BadLines, HeadLines
  <2>3. m \in BadLines(p) /\ \A k \in BadLines(p) : m <= k
    BY <1>2, <1>5, <2>1, <2>2, LeastOf
  <2>4. /\ m \in 2 .. Lines(p) /\ LineFault(p, m) # "none" /\ \A b \in Blanks(p) : m <= b
    BY <2>3 DEF BadLines, HeadLines
  <2>5. PICK n : n = m - 1
    OBVIOUS
  <2>6. n \in Nat /\ n >= 1 /\ n + 1 = m /\ n + 1 <= Lines(p) /\ n <= Lines(p) /\ n + 1 \in Nat
    BY <1>2, <2>4, <2>5
  <2>7. ASSUME NEW k \in 2 .. n PROVE LineFault(p, k) = "none" /\ k \notin Blanks(p)
    <3>1. k \in 2 .. Lines(p) /\ k < m
      BY <1>2, <2>6
    <3>2. k \notin Blanks(p)
      BY <2>4, <3>1
    <3>3. Blanks(p) \in SUBSET (2 .. Lines(p))
      BY DEF Blanks
    <3>4. \A b \in Blanks(p) : k <= b
      BY <1>2, <2>4, <2>6, <3>1, <3>3
    <3>5. k \notin BadLines(p)
      BY <1>2, <2>3, <2>4, <3>1
    <3>6. LineFault(p, k) = "none"
      BY <3>1, <3>4, <3>5 DEF BadLines, HeadLines
    <3> QED
      BY <3>2, <3>6
  <2>8. Numbered(p, n) /\ Numbered(p, n + 1)
    BY <1>2, <2>6, FewerNumbered
  <2>9. LinesRead(p, n)
    BY <1>5, <2>6, <2>7, <2>8, FaultlessIsRead
  <2>10. LinesRead(q, n) /\ Numbered(q, n + 1) /\ LineFault(q, n + 1) = LineFault(p, n + 1)
    BY <1>1, <2>6, <2>8, <2>9, AppendKeepsRead, AppendKeepsLines, FaultStays
  <2>11. LineFault(p, n + 1) # "none"
    BY <2>4, <2>6
  <2>12. Reference(p) = LineFault(p, n + 1) /\ Reference(q) = LineFault(p, n + 1)
    BY <1>2, <2>6, <2>8, <2>9, <2>10, <2>11, ReferenceBadLine
  <2>13. LineFault(p, n + 1) # "complete"
    BY DEF LineFault
  <2> QED
    BY <1>1, <2>12, <2>13
<1>6. ASSUME Lines(p) # 0, RequestLineError(Text(p, 1)) = "none", BadLines(p) = {}, Blanks(p) = {}
      PROVE  Reference(q) = Reference(p) /\ Reference(p) # "complete"
  <2>1. ASSUME NEW k \in 2 .. Lines(p) PROVE LineFault(p, k) = "none" /\ k \notin Blanks(p)
    BY <1>6 DEF BadLines, HeadLines
  <2>2. Lines(p) >= 1
    BY <1>2, <1>6
  <2>3. LinesRead(p, Lines(p))
    BY <1>2, <1>6, <2>1, <2>2, FaultlessIsRead
  <2>4. Len(p) - StartOf(p, 2) > MaxHeaderBytes /\ Reference(p) = "HeadersTooLarge"
    BY <1>2, <2>2, <2>3, ReferenceMoreHead
  <2> QED
    BY <1>1, <1>2, <2>2, <2>3, <2>4, LargeHeadStays
<1>7. ASSUME Lines(p) # 0, RequestLineError(Text(p, 1)) = "none", BadLines(p) = {}, Blanks(p) # {}
      PROVE  /\ Reference(q) = Reference(p) /\ RequestEnd(q) = RequestEnd(p)
  <2>1. Blanks(p) \in SUBSET (2 .. Lines(p))
    BY DEF Blanks
  <2>2. PICK m : m = Min(Blanks(p))
    OBVIOUS
  <2>3. m \in Blanks(p) /\ \A b \in Blanks(p) : m <= b
    BY <1>2, <1>7, <2>1, <2>2, LeastOf
  <2>4. PICK n : n = m - 1
    OBVIOUS
  <2>5. n \in Nat /\ n >= 1 /\ n + 1 = m /\ n + 1 <= Lines(p) /\ n <= Lines(p) /\ n + 1 \in Nat
    BY <1>2, <2>1, <2>3, <2>4
  <2>6. ASSUME NEW k \in 2 .. Lines(p), k <= m PROVE LineFault(p, k) = "none"
    <3>1. \A b \in Blanks(p) : k <= b
      BY <1>2, <2>1, <2>3, <2>5, <2>6
    <3> QED
      BY <1>7, <3>1 DEF BadLines, HeadLines
  <2>7. ASSUME NEW k \in 2 .. n PROVE LineFault(p, k) = "none" /\ k \notin Blanks(p)
    <3>1. k \in 2 .. Lines(p) /\ k <= m /\ ~(m <= k)
      BY <1>2, <2>5
    <3> QED
      BY <2>3, <2>6, <3>1
  <2>8. Numbered(p, n) /\ Numbered(p, n + 1)
    BY <1>2, <2>5, FewerNumbered
  <2>9. LinesRead(p, n)
    BY <1>7, <2>5, <2>7, <2>8, FaultlessIsRead
  <2>10. LineFault(p, n + 1) = "none" /\ StartOf(p, n + 1) = EolOf(p, n + 1)
    <3>1. n + 1 \in 2 .. Lines(p) /\ n + 1 <= m
      BY <1>2, <2>5
    <3>2. LineFault(p, n + 1) = "none"
      BY <2>6, <3>1
    <3> QED
      BY <2>3, <2>5, <3>2 DEF Blanks
  <2>11. /\ RequestEnd(q) = RequestEnd(p)
         /\ Reference(q) = IF Len(q) < RequestEnd(p) THEN "incomplete" ELSE "complete"
    BY <1>1, <2>5, <2>8, <2>9, <2>10, BodyStays
  <2>12. Reference(p) = "complete" /\ ~(Len(p) < RequestEnd(p))
    BY <1>7, ReferenceIs
  <2>13. ~(Len(q) < RequestEnd(p))
    <3>1. RequestEnd(p) \in Int
      <4>1. Blank(p) = n + 1 /\ DeclaredLength(p) = Declared(LengthTo(p, n))
        BY <2>5, <2>8, <2>9, <2>10, DeclaredAtBlank
      <4>2. \A v : ParseLength(v) \in Int
        BY DEF ParseLength, Unparsable
      <4>3. DeclaredLength(p) \in Int
        BY <4>1, <4>2 DEF Declared, LengthTo, Absent
      <4>4. StartOf(p, n + 1) \in Nat
        <5>1. n + 1 \in 1 .. n + 1
          BY <2>5
        <5> QED
          BY <2>5, <2>8, <5>1, StartBeforeEnd
      <4> QED
        BY <4>1, <4>3, <4>4 DEF RequestEnd
    <3> QED
      BY <1>2, <2>12, <3>1
  <2> QED
    BY <2>11, <2>12, <2>13
<1> QED
  BY <1>1, <1>3, <1>4, <1>5, <1>6, <1>7

-----------------------------------------------------------------------------
(* The verdict is that on the whole stream *)

\* A verdict on the bytes pushed that is final is the verdict on the stream.
LEMMA FinalOnStream ==
    ASSUME TypeOK, ConsumedWasFed, AnswersCurrent
    PROVE  VerdictIgnoresReads
<1>1. CASE SplitAtLimit
  BY <1>1 DEF VerdictIgnoresReads
<1>2. CASE ~Returned
  BY <1>2 DEF VerdictIgnoresReads, VerdictIsReference
<1>3. CASE ~SplitAtLimit /\ Returned
  <2>1. status = Reference(Current) /\ (status = "complete" => consumed = RequestEnd(Current))
    BY <1>3 DEF AnswersCurrent
  <2>2. /\ stream \in Seq(Bytes) /\ Len(stream) \in Nat /\ fed \in Nat /\ base \in Nat
        /\ fed <= Len(stream) /\ base <= fed
    BY ParserAssumption DEF TypeOK, ConsumedWasFed
  <2>3. PICK t : t = SubSeq(stream, fed + 1, Len(stream))
    OBVIOUS
  <2>4. t \in Seq(Bytes) /\ Current \in Seq(Bytes)
    BY <2>2, <2>3, SubSeqProperties DEF Current
  <2>5. Rest = Current \o t
    <3>1. SubSeq(stream, base + 1, fed) \o SubSeq(stream, fed + 1, Len(stream))
             = SubSeq(stream, base + 1, Len(stream))
      <4>1. PICK c : c = Len(stream)
        OBVIOUS
      <4>2. c \in Nat /\ fed <= c /\ c <= Len(stream)
        BY <2>2, <4>1
      <4>3. SubSeq(stream, base + 1, fed) \o SubSeq(stream, fed + 1, c) = SubSeq(stream, base + 1, c)
        BY <2>2, <4>2, AdjacentPieces
      <4> QED
        BY <4>1, <4>3
    <3> QED
      BY <2>3, <3>1, Zenon DEF Current, Rest
  <2>6. ASSUME status # "incomplete"
        PROVE  Reference(Rest) = status /\ (status = "complete" => RequestEnd(Rest) = RequestEnd(Current))
    BY <2>1, <2>4, <2>5, <2>6, FinalVerdictStays
  <2> QED
    BY <2>1, <2>6 DEF VerdictIgnoresReads, VerdictIsReference
<1> QED
  BY <1>1, <1>2, <1>3

\* Cut into whatever reads, the bytes of a connection get the verdicts that the
\* reference gives on the stream as a whole, and each request takes the same
\* bytes; the one exception is a request line at the limit whose CRLF is split.
THEOREM VerdictNeverDependsOnReads == Spec => []VerdictIgnoresReads
<1> DEFINE Inv == ConsumedWasFed /\ BufferIsUnconsumed /\ ReadSoFar /\ AnswersCurrent
<1>1. Init => Inv
  <2> SUFFICES ASSUME Init PROVE Inv
    OBVIOUS
  <2>1. ConsumedWasFed /\ BufferIsUnconsumed
    BY InitUnconsumed
  <2>2. ReadSoFar
    BY DEF Init, ReadSoFar, AtRequestLine
  <2>3. buf = << >> /\ status = "incomplete" /\ Current = buf /\ MaxRequestLine \in Nat
    BY <2>1, ParserAssumption DEF Init, BufferIsUnconsumed, Current
  <2>4. Lines(buf) = 0 /\ LineSoFar(buf) = 0
    <3>1. Len(buf) = 0
      BY <2>3
    <3>2. EolsOf(buf) = {}
      BY <3>1 DEF EolsOf, CrlfAt
    <3>3. Lines(buf) = 0
      BY <3>2, FS_EmptySet, Zenon DEF Lines
    <3>4. LineSoFar(buf) = 0
      BY <2>3, <3>1 DEF LineSoFar
    <3> QED
      BY <3>3, <3>4
  <2>5. Reference(buf) = "incomplete"
    BY <2>3, <2>4, ReferenceNoLine
  <2>6. AnswersCurrent
    BY <2>3, <2>5 DEF AnswersCurrent
  <2> QED
    BY <2>1, <2>2, <2>6
<1>2. IndInv /\ Inv /\ [Next]_vars => Inv'
  BY UnconsumedStep, VerdictStepInv
<1>3. IndInv /\ Inv => VerdictIgnoresReads
  BY FinalOnStream DEF IndInv
<1> QED
  BY <1>1, <1>2, <1>3, Inductive, PTL DEF Spec
=============================================================================
