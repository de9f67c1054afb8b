----------------------------- MODULE Connection -----------------------------
(***************************************************************************)
(* The sans-IO connection of core/src/conn.rs, as operators on a record.   *)
(* No operator touches a socket: the drivers (Blocking, Reactor) read and  *)
(* write, and feed the results to OnBytes and OnWritten.                   *)
(*                                                                         *)
(* Input is a sequence of units.  A "part" is a piece of a request that    *)
(* does not complete it; the other units complete one: "keep" and "close"  *)
(* a well-formed request that wants its connection kept or closed, "bad" a *)
(* request the parser rejects.  The byte-level parser is in RequestParser. *)
(***************************************************************************)
EXTENDS Naturals, Sequences

CONSTANTS
    MaxHead,  \* most parts of one request the parser accepts (limits.rs)
    RespLen   \* units in an encoded response

ASSUME ConnectionAssumption ==
    /\ MaxHead \in Nat
    /\ RespLen \in Nat \ {0}

Units    == {"part", "keep", "close", "bad"}
Verdicts == {"incomplete", "keep", "close", "failed"}
States   == {"Reading", "Writing", "Closed"}

Connections ==
    [state   : States,
     buf     : Seq(Units),   \* parser.buf: the current request and what follows
     done    : BOOLEAN,      \* parser.state = Done, awaiting reset
     resp    : Verdicts,     \* what write_buf answers; "incomplete" when empty
     pending : Nat,          \* write_buf.len() - write_pos
     expired : BOOLEAN]      \* the clock has passed the deadline

-----------------------------------------------------------------------------
(* RequestParser::push, reset *)

Ends(buf) == {i \in 1 .. Len(buf) : buf[i] # "part"}

FirstEnd(buf) == CHOOSE i \in Ends(buf) : \A j \in Ends(buf) : i <= j

\* What advance() makes of buf when the parser is not Done.
Verdict(buf) ==
    IF Ends(buf) = {}
    THEN IF Len(buf) > MaxHead THEN "failed" ELSE "incomplete"
    ELSE IF FirstEnd(buf) - 1 > MaxHead \/ buf[FirstEnd(buf)] = "bad"
         THEN "failed"
         ELSE buf[FirstEnd(buf)]

PushVerdict(k, bytes) ==
    IF k.done THEN "incomplete" ELSE Verdict(k.buf \o bytes)

\* Mutant: the consumed request stays in the buffer.
PushWithoutDrain(k, bytes) ==
    [k EXCEPT !.buf  = k.buf \o bytes,
              !.done = k.done \/ PushVerdict(k, bytes) # "incomplete"]

\* A complete request is drained from the front; what follows it is kept.
Push(k, bytes) ==
    LET all == k.buf \o bytes
        v   == PushVerdict(k, bytes)
    IN  [k EXCEPT
            !.buf  = IF v \in {"keep", "close"}
                     THEN SubSeq(all, FirstEnd(all) + 1, Len(all))
                     ELSE all,
            !.done = k.done \/ v # "incomplete"]

\* Mutants: reset drops the bytes of the next request, or is not called.
ResetDropsBytes(k) == [k EXCEPT !.done = FALSE, !.buf = << >>]
ResetForgotten(k)  == k

ParserReset(k) == [k EXCEPT !.done = FALSE]

-----------------------------------------------------------------------------
(* Connection::new, on_bytes, pending_write, on_written, is_expired *)

New == [state   |-> "Reading",
        buf     |-> << >>,
        done    |-> FALSE,
        resp    |-> "incomplete",
        pending |-> 0,
        expired |-> FALSE]

StartWriting(k, v) ==
    [k EXCEPT !.state = "Writing", !.resp = v, !.pending = RespLen]

HandleStatus(k, v) == IF v = "incomplete" THEN k ELSE StartWriting(k, v)

\* Bytes offered while a response is being written are ignored.
OnBytes(k, bytes) ==
    IF k.state # "Reading"
    THEN k
    ELSE HandleStatus(Push(k, bytes), PushVerdict(k, bytes))

PendingWrite(k) == IF k.state = "Writing" THEN k.pending ELSE 0

CloseAfterWrite(k) == k.resp # "keep"

KeepAliveTurn(k) ==
    [ParserReset(k) EXCEPT !.state   = "Reading",
                           !.resp    = "incomplete",
                           !.pending = 0,
                           !.expired = FALSE]

OnWritten(k, n) ==
    IF k.state # "Writing" THEN k
    ELSE IF n < k.pending THEN [k EXCEPT !.pending = @ - n]
    ELSE IF CloseAfterWrite(k)
         THEN [k EXCEPT !.state = "Closed", !.pending = 0]
         ELSE KeepAliveTurn(k)

IsExpired(k) == k.expired

\* The passage of time: the clock reaches the deadline.
PassDeadline(k) == [k EXCEPT !.expired = TRUE]

\* The ConnAction every operation returns is the one of the state it leaves.
ActionForState(k) ==
    CASE k.state = "Reading" -> "WantRead"
      [] k.state = "Writing" -> "WantWrite"
      [] k.state = "Closed"  -> "Close"
=============================================================================
