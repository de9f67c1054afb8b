---------------------------- MODULE RequestParser ----------------------------
(***************************************************************************)
(* The incremental HTTP request parser of core/src/http/request.rs.        *)
(*                                                                         *)
(* A byte is one of the classes the parser tells apart: "CR", "LF", "SP",  *)
(* "CO" (a colon), "1" (a digit; alone, a version it supports), "L" (the   *)
(* name Content-Length), "NU" (not UTF-8) and "x" (any other).  One push   *)
(* appends any number of bytes and then runs the loop of advance(), one    *)
(* line or body per step, until it has a verdict.  Indices into buf are    *)
(* the code's, from 0.                                                     *)
(***************************************************************************)
EXTENDS Integers, Sequences, FiniteSets, FiniteSetsExt

CONSTANTS
    Streams,                                            \* what a client may send
    MaxRequestLine, MaxHeaderBytes, MaxHeaderCount, MaxBody   \* limits.rs

Bytes == {"CR", "LF", "SP", "CO", "1", "L", "NU", "x"}

ASSUME ParserAssumption ==
    /\ Streams \subseteq Seq(Bytes)
    /\ {MaxRequestLine, MaxHeaderBytes, MaxHeaderCount, MaxBody} \subseteq Nat

Errors == {"MalformedRequestLine", "UnsupportedVersion", "MalformedHeader", "RequestLineTooLong",
           "HeadersTooLarge", "TooManyHeaders", "BodyTooLarge"}
States == {"RequestLine", "Headers", "Body", "Done"}

\* Values of headers.get("content-length"): absent, not a number, a number.
Absent     == -1
Unparsable == -2

VARIABLES
    stream,   \* everything the client sends
    fed,      \* bytes of it pushed so far
    base,     \* where in it the current request begins
    \* RequestParser
    buf, state, line_start, scanned, header_block_start, body_start,
    header_count, content_length,
    length_header,  \* the first Content-Length among headers
    \* the caller's view: "running" inside push, what push returned, or "reset"
    status,
    consumed

inputVars  == <<stream, base>>
parserVars == <<state, line_start, scanned, header_block_start, body_start,
                header_count, content_length, length_header>>
vars       == <<stream, fed, base, buf, parserVars, status, consumed>>

-----------------------------------------------------------------------------
(* Scanning and classifying lines *)

\* A CRLF lies at index i of s.
CrlfAt(s, i) == i + 1 < Len(s) /\ s[i + 1] = "CR" /\ s[i + 2] = "LF"

ScanFrom == IF scanned > line_start THEN scanned ELSE line_start

\* next_crlf: the ends of line at or after ScanFrom.
Eols == {i \in ScanFrom .. Len(buf) : CrlfAt(buf, i)}
Eol  == Min(Eols)

\* Mutant: resumes past a trailing CR.
ScanEndPastCr == Len(buf)

\* Where a search that found none resumes.
ScanEnd == IF ScanFrom + 1 < Len(buf) THEN Len(buf) - 1 ELSE ScanFrom

Line(eol) == SubSeq(buf, line_start + 1, eol)

Positions(s, class) == {i \in 1 .. Len(s) : s[i] \in class}

\* The line is three non-empty words with one space between.
ThreeWords(line) ==
    LET sp == Positions(line, {"SP"})
    IN  /\ Cardinality(sp) = 2
        /\ \A i \in sp : i # 1 /\ i # Len(line) /\ i + 1 \notin sp

RequestLineError(line) ==
    LET sp == Positions(line, {"SP"})
        path == SubSeq(line, Min(sp) + 1, Max(sp) - 1)
    IN  IF Len(line) > MaxRequestLine THEN "RequestLineTooLong"
        ELSE IF ~ThreeWords(line) THEN "MalformedRequestLine"
        ELSE IF Positions(path, {"NU"}) # {} THEN "MalformedRequestLine"
        ELSE IF SubSeq(line, Max(sp) + 1, Len(line)) # <<"1">> THEN "UnsupportedVersion"
        ELSE "none"

Trim(s) ==
    LET text == Positions(s, Bytes \ {"SP", "CR", "LF"})
    IN  IF text = {} THEN << >> ELSE SubSeq(s, Min(text), Max(text))

Colon(line)       == Min(Positions(line, {"CO"}))
HeaderName(line)  == Trim(SubSeq(line, 1, Colon(line) - 1))
HeaderValue(line) == Trim(SubSeq(line, Colon(line) + 1, Len(line)))

HeaderMalformed(line) ==
    \/ Positions(line, {"CO"}) = {}
    \/ Positions(line, {"NU"}) # {}
    \/ HeaderName(line) = << >>

\* usize::parse; 11 stands for every number of several digits that a usize
\* holds.  A longer one (MalformedHeader, like no number at all) and the sign
\* that parse accepts before the digits are left out.
ParseLength(v) ==
    IF v = << >> \/ Positions(v, Bytes \ {"1"}) # {} THEN Unparsable
    ELSE IF Len(v) = 1 THEN 1 ELSE 11

\* The first Content-Length counts: Headers::get after Headers::insert.
InsertHeader(line) ==
    IF length_header = Absent /\ HeaderName(line) = <<"L">>
    THEN ParseLength(HeaderValue(line)) ELSE length_header

-----------------------------------------------------------------------------
Init ==
    /\ stream \in Streams
    /\ fed = 0 /\ base = 0
    /\ buf = << >>
    /\ state = "RequestLine"
    /\ line_start = 0 /\ scanned = 0 /\ header_block_start = 0 /\ body_start = 0
    /\ header_count = 0 /\ content_length = 0
    /\ length_header = Absent
    /\ status = "incomplete"
    /\ consumed = 0

Push ==
    /\ status \in {"incomplete", "reset"}
    /\ \E n \in 1 .. Len(stream) - fed :
          /\ buf' = buf \o SubSeq(stream, fed + 1, fed + n)
          /\ fed' = fed + n
    /\ status' = "running"
    /\ UNCHANGED <<inputVars, parserVars, consumed>>

\* fail: the verdict is final and the parser is Done.  What the step assigned
\* before it failed is never read again.
Fail(e) ==
    /\ state' = "Done"
    /\ status' = e
    /\ UNCHANGED <<stream, fed, base, buf, line_start, scanned, header_block_start, body_start,
                   header_count, content_length, length_header, consumed>>

\* Mutant: no ceiling on a line that has not ended.
LineIncompleteUnbounded(from, limit, error) ==
    /\ Eols = {}
    /\ scanned' = ScanEnd
    /\ status' = "incomplete"
    /\ UNCHANGED <<stream, fed, base, buf, state, line_start, header_block_start, body_start,
                   header_count, content_length, length_header, consumed>>

\* No end of line is buffered: too much of one is an error, otherwise wait.
LineIncomplete(from, limit, error) ==
    /\ Eols = {}
    /\ scanned' = ScanEnd
    /\ IF Len(buf) - from > limit
       THEN state' = "Done" /\ status' = error
       ELSE status' = "incomplete" /\ UNCHANGED state
    /\ UNCHANGED <<stream, fed, base, buf, line_start, header_block_start, body_start,
                   header_count, content_length, length_header, consumed>>

ParseRequestLine ==
    /\ status = "running" /\ state = "RequestLine"
    /\ \/ LineIncomplete(line_start, MaxRequestLine, "RequestLineTooLong")
       \/ /\ Eols # {}
          /\ RequestLineError(Line(Eol)) # "none"
          /\ Fail(RequestLineError(Line(Eol)))
       \/ /\ Eols # {}
          /\ RequestLineError(Line(Eol)) = "none"
          /\ line_start' = Eol + 2
          /\ scanned' = Eol + 2
          /\ header_block_start' = Eol + 2
          /\ state' = "Headers"
          /\ UNCHANGED <<stream, fed, base, buf, body_start, header_count, content_length,
                         length_header, status, consumed>>

\* determine_content_length, at the blank line.
LengthError ==
    IF length_header = Unparsable THEN "MalformedHeader"
    ELSE IF length_header > MaxBody THEN "BodyTooLarge"
    ELSE "none"

\* Mutant: the ceiling on the header block is applied to each line.
HeaderErrorPerLine ==
    IF Eol + 2 - line_start > MaxHeaderBytes THEN "HeadersTooLarge"
    ELSE IF Eol = line_start THEN LengthError
    ELSE IF HeaderMalformed(Line(Eol)) THEN "MalformedHeader"
    ELSE IF header_count + 1 > MaxHeaderCount THEN "TooManyHeaders"
    ELSE "none"

HeaderError ==
    IF Eol + 2 - header_block_start > MaxHeaderBytes THEN "HeadersTooLarge"
    ELSE IF Eol = line_start THEN LengthError
    ELSE IF HeaderMalformed(Line(Eol)) THEN "MalformedHeader"
    ELSE IF header_count + 1 > MaxHeaderCount THEN "TooManyHeaders"
    ELSE "none"

ParseHeaders ==
    /\ status = "running" /\ state = "Headers"
    /\ \/ LineIncomplete(header_block_start, MaxHeaderBytes, "HeadersTooLarge")
       \/ /\ Eols # {}
          /\ HeaderError # "none"
          /\ Fail(HeaderError)
       \/ /\ Eols # {}
          /\ HeaderError = "none" /\ Eol = line_start
          /\ body_start' = Eol + 2
          /\ content_length' = IF length_header = Absent THEN 0 ELSE length_header
          /\ state' = "Body"
          /\ UNCHANGED <<stream, fed, base, buf, line_start, scanned, header_block_start,
                         header_count, length_header, status, consumed>>
       \/ /\ Eols # {}
          /\ HeaderError = "none" /\ Eol # line_start
          /\ header_count' = header_count + 1
          /\ length_header' = InsertHeader(Line(Eol))
          /\ line_start' = Eol + 2
          /\ scanned' = Eol + 2
          /\ UNCHANGED <<stream, fed, base, buf, state, header_block_start, body_start,
                         content_length, status, consumed>>

\* Mutant: what follows the request is dropped with it.
LeftoverDropped == << >>

Leftover == SubSeq(buf, body_start + content_length + 1, Len(buf))

\* A complete request takes the headers and drains its bytes from buf.
ParseBody ==
    /\ status = "running" /\ state = "Body"
    /\ \/ /\ Len(buf) - body_start < content_length
          /\ status' = "incomplete"
          /\ UNCHANGED <<buf, state, length_header, consumed>>
       \/ /\ Len(buf) - body_start >= content_length
          /\ consumed' = body_start + content_length
          /\ buf' = Leftover
          /\ length_header' = Absent
          /\ state' = "Done"
          /\ status' = "complete"
    /\ UNCHANGED <<stream, fed, base, line_start, scanned, header_block_start, body_start,
                   header_count, content_length>>

\* Mutant: the line start is not reset.
ResetKeepsLineStart ==
    /\ status = "complete"
    /\ state' = "RequestLine"
    /\ scanned' = 0 /\ header_block_start' = 0 /\ body_start' = 0
    /\ header_count' = 0 /\ content_length' = 0
    /\ base' = base + consumed
    /\ status' = "reset"
    /\ UNCHANGED <<stream, fed, buf, line_start, length_header, consumed>>

\* The connection answers a complete request, keeps alive and resets.
Reset ==
    /\ status = "complete"
    /\ state' = "RequestLine"
    /\ line_start' = 0 /\ scanned' = 0 /\ header_block_start' = 0 /\ body_start' = 0
    /\ header_count' = 0 /\ content_length' = 0
    /\ base' = base + consumed
    /\ status' = "reset"
    /\ UNCHANGED <<stream, fed, buf, length_header, consumed>>

Next == Push \/ ParseRequestLine \/ ParseHeaders \/ ParseBody \/ Reset

Spec == Init /\ [][Next]_vars

-----------------------------------------------------------------------------
(* The verdict on a request, defined on all its bytes at once *)

EolsOf(p)   == {i \in 0 .. Len(p) : CrlfAt(p, i)}
Lines(p)    == Cardinality(EolsOf(p))
EolOf(p, k) == CHOOSE e \in EolsOf(p) : Cardinality({i \in EolsOf(p) : i <= e}) = k
StartOf(p, k) == IF k = 1 THEN 0 ELSE EolOf(p, k - 1) + 2
Text(p, k)  == SubSeq(p, StartOf(p, k) + 1, EolOf(p, k))

Blanks(p) == {k \in 2 .. Lines(p) : StartOf(p, k) = EolOf(p, k)}
Blank(p)  == Min(Blanks(p))
Fields(p) == {k \in 2 .. Lines(p) : \A b \in Blanks(p) : k < b}

DeclaredLength(p) ==
    LET named == {k \in Fields(p) : /\ ~HeaderMalformed(Text(p, k))
                                   /\ HeaderName(Text(p, k)) = <<"L">>}
    IN  IF named = {} THEN 0 ELSE ParseLength(HeaderValue(Text(p, Min(named))))

LineFault(p, k) ==
    IF EolOf(p, k) + 2 - StartOf(p, 2) > MaxHeaderBytes THEN "HeadersTooLarge"
    ELSE IF k \in Blanks(p)
         THEN IF DeclaredLength(p) = Unparsable THEN "MalformedHeader"
              ELSE IF DeclaredLength(p) > MaxBody THEN "BodyTooLarge" ELSE "none"
    ELSE IF HeaderMalformed(Text(p, k)) THEN "MalformedHeader"
    ELSE IF k - 1 > MaxHeaderCount THEN "TooManyHeaders" ELSE "none"

RequestEnd(p) == StartOf(p, Blank(p)) + 2 + DeclaredLength(p)

\* A lone trailing CR may be half of the line's end, so it is not counted.
LineSoFar(p) == IF p # << >> /\ p[Len(p)] = "CR" THEN Len(p) - 1 ELSE Len(p)

Reference(p) ==
    LET head  == {k \in 2 .. Lines(p) : \A b \in Blanks(p) : k <= b}
        bad   == {k \in head : LineFault(p, k) # "none"}
    IN  IF Lines(p) = 0
        THEN IF LineSoFar(p) > MaxRequestLine THEN "RequestLineTooLong" ELSE "incomplete"
        ELSE IF RequestLineError(Text(p, 1)) # "none" THEN RequestLineError(Text(p, 1))
        ELSE IF bad # {} THEN LineFault(p, Min(bad))
        ELSE IF Blanks(p) = {}
             THEN IF Len(p) - StartOf(p, 2) > MaxHeaderBytes THEN "HeadersTooLarge"
                  ELSE "incomplete"
        ELSE IF Len(p) < RequestEnd(p) THEN "incomplete" ELSE "complete"

-----------------------------------------------------------------------------
(* Properties *)

\* The bytes of the current request pushed so far, and any that follow it.
Current == SubSeq(stream, base + 1, fed)

\* All the client sends from the current request on.
Rest == SubSeq(stream, base + 1, Len(stream))

Returned == status \notin {"running", "reset"}

\* Every variable stays in its domain.
TypeOK ==
    /\ stream \in Streams
    /\ fed \in Nat /\ base \in Nat /\ consumed \in Nat
    /\ buf \in Seq(Bytes)
    /\ state \in States
    /\ line_start \in Nat /\ scanned \in Nat
    /\ header_block_start \in Nat /\ body_start \in Nat
    /\ header_count \in Nat /\ content_length \in Nat
    /\ length_header \in {Absent, Unparsable} \cup Nat
    /\ status \in {"running", "reset", "incomplete", "complete"} \cup Errors

\* No index passes the end of buf, so no subtraction of an index from
\* buf.len() underflows and no slice is out of bounds.
IndicesInBounds ==
    /\ state = "RequestLine" => line_start = 0
    /\ state = "Headers" => header_block_start <= line_start /\ line_start <= Len(buf)
    /\ state = "Body" => body_start <= Len(buf)

\* The resumed search of next_crlf skips no end of line: none lies between the
\* start of the line and the index the search resumes from, although a CR may
\* come at the end of one push and its LF at the start of the next.
ScanSkipsNothing ==
    state \in {"RequestLine", "Headers"} =>
        \A i \in line_start .. scanned - 1 : ~CrlfAt(buf, i)

\* A push that asks for more leaves at most one request's worth of bytes
\* buffered, by the ceilings of limits.rs.
BoundedWhileIncomplete ==
    status = "incomplete" => Len(buf) <= MaxRequestLine + 2 + MaxHeaderBytes + MaxBody

\* The buffer holds exactly the bytes pushed and not consumed: none is lost or
\* repeated, across requests of one connection.
BufferIsUnconsumed ==
    buf = SubSeq(stream, (IF status = "complete" THEN base + consumed ELSE base) + 1, fed)

\* What push returns is the verdict on the bytes pushed, and once it is final it
\* is the verdict on all the client sends: cut into other reads, the same bytes
\* get the same answer, and the same bytes are taken for the request.
VerdictIsReference ==
    Returned =>
        /\ status = Reference(Current)
        /\ status # "incomplete" => status = Reference(Rest)
        /\ status = "complete" => consumed = RequestEnd(Current) /\ consumed = RequestEnd(Rest)

\* A request line of exactly MaxRequestLine bytes of whose CRLF only the CR has
\* been pushed.
SplitAtLimit ==
    Lines(Current) = 0 /\ Len(Current) = MaxRequestLine + 1 /\ LineSoFar(Current) = MaxRequestLine

\* The verdict is the reference's, on the bytes pushed and on the whole stream,
\* whatever the reads that delivered them, save for the split that SplitAtLimit
\* describes.
VerdictIgnoresReads == SplitAtLimit \/ VerdictIsReference
=============================================================================
