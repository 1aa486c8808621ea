---------------------------- MODULE HttpMessage -----------------------------
(***************************************************************************)
(* Messages on the wire (webcc/message.cc, request.cc, common.cc).  A      *)
(* message is a sequence of symbols <<kind, value>>.  CR, LF, dashes and   *)
(* content bytes are symbols of their own; the text of a start line, of a  *)
(* header, of a chunk size or of the boundary is one symbol, since the     *)
(* parser looks at such a text only once its line has ended.               *)
(***************************************************************************)
EXTENDS Naturals, Sequences, SequencesExt

CR == <<"CR", 0>>
LF == <<"LF", 0>>
CRLF == <<CR, LF>>
Dashes == <<<<"-", 0>>, <<"-", 0>>>>
Byte(n) == <<"byte", n>>
StartLine == <<"start", 0>>
ContentLength(n) == <<"Content-Length", n>>
Multipart == <<"multipart/form-data", 0>>
Chunked == <<"chunked", 0>>
Other == <<"other", 0>>                     \* a header the parser only stores
Disposition(name) == <<"Content-Disposition", name>>
Boundary == <<"boundary", 0>>
Size(n) == <<"size", n>>

Line(text) == <<text>> \o CRLF

\* Message::Prepare.
Prepare(headers, content) ==
    Line(StartLine) \o FlattenSeq([i \in 1..Len(headers) |-> Line(headers[i])])
        \o CRLF \o content

\* A request with data has a Content-Length, one without has neither.
PrepareData(content) ==
    Prepare(IF content = <<>> THEN <<Other>>
            ELSE <<ContentLength(Len(content)), Other>>, content)

\* FormPart::Prepare, after its boundary line.
PreparePart(part) ==
    Dashes \o Line(Boundary) \o Line(Disposition(part.name)) \o CRLF
        \o part.data \o CRLF

\* Request::Prepare for a form.
PrepareForm(parts) ==
    LET data == FlattenSeq([i \in 1..Len(parts) |-> PreparePart(parts[i])])
                    \o Dashes \o <<Boundary>> \o Dashes \o CRLF
    IN  Prepare(<<Other, Multipart, ContentLength(Len(data))>>, data)

\* A chunked message, as other HTTP senders write it.
PrepareChunked(chunks) ==
    Prepare(<<Chunked>>,
            FlattenSeq([i \in 1..Len(chunks) |->
                            Line(Size(Len(chunks[i]))) \o chunks[i] \o CRLF])
                \o Line(Size(0)) \o CRLF)
=============================================================================
