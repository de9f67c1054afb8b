--------------------------- MODULE MCRequestParser ---------------------------
(* Instances of RequestParser for TLC, with MaxRequestLine = 6
   and MaxHeaderBytes = 10. *)
EXTENDS RequestParser, SequencesExt

Crlf  == <<"CR", "LF">>
Valid == <<"x", "SP", "x", "SP", "1">>

RequestLines ==
    {Valid, <<"x", "SP", "x", "x", "SP", "1">>, <<"x", "SP", "x", "x", "x", "SP", "1">>,
     <<"x", "SP", "NU", "SP", "1">>,
     <<"x", "SP", "x", "SP", "x">>, <<"x", "SP", "SP", "1">>, <<"x", "SP", "1">>, << >>}

HeaderFields ==
    {<<"x", "CO">>, <<"L", "CO", "1">>, <<"L", "CO", "1", "1">>, <<"L", "CO", "x">>,
     <<"SP", "CO", "x">>, <<"x">>, <<"x", "CO", "NU">>, <<"x", "CO", "CR", "x", "x", "x">>,
     <<"x", "CO", "x", "x", "x", "x", "x">>, <<"x", "CO", "x", "x", "x", "x", "x", "x", "x">>}

Heads == {<< >>} \cup {f \o Crlf : f \in HeaderFields}
         \cup {f \o Crlf \o g \o Crlf : f, g \in {<<"x", "CO">>, <<"L", "CO", "1">>, <<"x">>}}

\* One request: any request line, no field, with what may follow the head.
Framed ==
    {r \o Crlf \o h \o Crlf \o t :
        r \in RequestLines, h \in Heads, t \in {<< >>, <<"x">>, Valid \o Crlf \o Crlf}}

\* Every short arrangement of CR, LF and text, as a request line and as a head.
LineEnds == BoundedSeq({"CR", "LF", "x"}, 5)
Ragged == LineEnds \cup {Valid \o Crlf \o s : s \in LineEnds}

\* Lines that never end, longer than the ceilings together.
Endless == LET line == [i \in 1 .. 22 |-> "x"] IN {line, Valid \o Crlf \o line}

AllStreams == Framed \cup Ragged \cup Endless

\* A request line at the limit.
AtLimit == {<<"x", "SP", "x", "x", "SP", "1">> \o Crlf \o Crlf}
=============================================================================
