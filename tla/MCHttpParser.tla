---------------------------- MODULE MCHttpParser ----------------------------
(***************************************************************************)
(* TLC instances of HttpParser: the conversations of each run.  Contents   *)
(* hold CR, LF and dashes besides ordinary bytes.                          *)
(***************************************************************************)
EXTENDS HttpParser

a == <<Byte(1)>>
b == <<Byte(2)>>
Part(name, data) == [name |-> name, data |-> data]

Data(c) ==
    [wire |-> PrepareData(c), content |-> c, parts |-> <<>>, valid |-> TRUE]
Form(ps) ==
    [wire |-> PrepareForm(ps), content |-> <<>>, parts |-> ps, valid |-> TRUE]
Chunks(cs) ==
    [wire |-> PrepareChunked(cs), content |-> FlattenSeq(cs), parts |-> <<>>, valid |-> TRUE]
Bad(symbols) ==
    [wire |-> symbols, content |-> <<>>, parts |-> <<>>, valid |-> FALSE]

Plain == Data(<<>>)
Blank == Data(a \o CRLF \o CRLF \o b)            \* looks like the end of a header
Upload == Form(<<Part("x", a \o CRLF \o Dashes \o b), Part("y", CRLF)>>)

\* A form comes at most once in a conversation (see SecondForm).
Cut == {<<Blank, Plain>>, <<Plain, Blank>>, <<Blank, Upload>>, <<Upload, Blank>>,
        <<Plain, Upload, Blank>>, <<Data(Dashes), Data(a)>>}

Malformed ==
    {Bad(Line(Other) \o CRLF),                                   \* no start line
     Bad(Line(StartLine) \o Line(Byte(1)) \o CRLF),              \* a bad header
     Bad(Prepare(<<ContentLength(SizeMax)>>, <<>>)),             \* an absurd length
     Bad(Prepare(<<Chunked>>, Line(Byte(1)))),                   \* a bad size
     Bad(Prepare(<<Multipart>>, a)),                             \* no length
     Bad(Prepare(<<Multipart, ContentLength(3)>>, Line(Byte(1)))),
     Bad(Prepare(<<Multipart, ContentLength(9)>>,
                 Dashes \o Line(Boundary) \o Line(Byte(1)) \o CRLF)),
     Bad(Prepare(<<Multipart, ContentLength(9)>>,
                 Dashes \o Line(Boundary) \o CRLF \o Dashes \o Line(Boundary)))}

SecondForm == {<<Upload, Form(<<Part("x", a)>>)>>}
TwoChunks == Chunks(<<a \o b \o a, b>>)
Every == Cut \cup {<<m>> : m \in Malformed} \cup {<<TwoChunks>>} \cup SecondForm
=============================================================================
