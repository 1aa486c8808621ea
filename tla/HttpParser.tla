----------------------------- MODULE HttpParser -----------------------------
(***************************************************************************)
(* webcc/parser.cc and request_parser.cc: the incremental parser of one    *)
(* connection.  The network cuts what the client sends into reads in any   *)
(* way; each read is one Parse call, whose loops take a step per           *)
(* iteration.  Nothing else happens to the parser before Parse returns.    *)
(* When a request was answered, Connection::Start prepares the same parser *)
(* for the next one.                                                       *)
(***************************************************************************)
EXTENDS HttpMessage, FiniteSetsExt

CONSTANTS Conversations,  \* the requests a client may send, in order; each a
                          \* record of its symbols and of what they mean
          SizeMax         \* the largest std::size_t

ASSUME SizeMaxNat == SizeMax \in Nat \ {0}

\* Requests are sequences of symbols, and a length or size in one is the number
\* that its conversion gave: one that no size_t holds makes a malformed line.
ASSUME ConversationsAssumption ==
    \A c \in Conversations :
        /\ c \in Seq(ToSet(c)) /\ c # <<>>
        /\ \A i \in 1..Len(c) :
               /\ c[i].wire \in Seq(ToSet(c[i].wire))
               /\ \A s \in ToSet(c[i].wire) :
                      s[1] \in {"Content-Length", "size"} => s[2] \in 0..SizeMax

kInvalidLength == SizeMax

VARIABLES
    conversation,  \* what this client sends
    turn,          \* which of its requests is being parsed
    input,         \* sent and not read yet
    pc,            \* "read" between two Parse calls, "headers" or "content"
    outcome,       \* of the request: "reading", "finished", "refused" (Parse
                   \* returned false), "thrown"
    pending,       \* pending_data_
    content,       \* content_
    content_length, start_line_parsed, content_length_parsed, header_ended,
    chunked, chunk_size,
    multipart,     \* request_->content_type().multipart()
    parts,         \* request_->form_parts()
    step,          \* step_
    part           \* part_: <<>> if null, else <<its name>>

wire == <<conversation, turn, input>>
headerVars == <<content_length, start_line_parsed, content_length_parsed,
                header_ended, chunked, multipart>>
formVars == <<parts, step, part>>
vars == <<wire, pc, outcome, pending, content, headerVars, chunk_size, formVars>>

\* The parser keeps its types; lengths stay within a size_t.
TypeOK ==
    /\ conversation \in Conversations
    /\ turn \in 1..Len(conversation)
    /\ pc \in {"read", "headers", "content"}
    /\ outcome \in {"reading", "finished", "refused", "thrown"}
    /\ \A b \in {start_line_parsed, content_length_parsed, header_ended, chunked,
                 multipart} : b \in BOOLEAN
    /\ content_length \in 0..SizeMax
    /\ chunk_size \in 0..SizeMax
    /\ step \in {"kStart", "kBoundaryParsed", "kHeadersParsed", "kEnded"}
    /\ Len(part) <= 1
    /\ step = "kHeadersParsed" => Len(part) = 1

Init ==
    /\ conversation \in Conversations
    /\ turn = 1
    /\ input = conversation[1].wire
    /\ pc = "read" /\ outcome = "reading"
    /\ pending = <<>> /\ content = <<>> /\ content_length = kInvalidLength
    /\ start_line_parsed = FALSE /\ content_length_parsed = FALSE
    /\ header_ended = FALSE /\ chunked = FALSE /\ chunk_size = kInvalidLength
    /\ multipart = FALSE /\ parts = <<>>
    /\ step = "kStart" /\ part = <<>>

\* Connection::Start with RequestParser::Init (Parser::Reset), once the request
\* was answered; step_ and part_ are left as they are.
\* The client then sends the next one; bytes it sent before come first.
Start_KeepsLength ==
    /\ outcome \in {"finished", "refused"}
    /\ turn < Len(conversation)
    /\ turn' = turn + 1
    /\ input' = input \o conversation[turn + 1].wire
    /\ outcome' = "reading"
    /\ pending' = <<>> /\ content' = <<>> /\ parts' = <<>>
    /\ start_line_parsed' = FALSE /\ header_ended' = FALSE
    /\ chunked' = FALSE /\ chunk_size' = kInvalidLength /\ multipart' = FALSE
    /\ UNCHANGED <<conversation, pc, step, part, content_length, content_length_parsed>>

Start ==
    /\ outcome \in {"finished", "refused"}
    /\ turn < Len(conversation)
    /\ turn' = turn + 1
    /\ input' = input \o conversation[turn + 1].wire
    /\ outcome' = "reading"
    /\ pending' = <<>> /\ content' = <<>> /\ content_length' = kInvalidLength
    /\ start_line_parsed' = FALSE /\ content_length_parsed' = FALSE
    /\ header_ended' = FALSE /\ chunked' = FALSE /\ chunk_size' = kInvalidLength
    /\ multipart' = FALSE /\ parts' = <<>>
    /\ UNCHANGED <<conversation, pc, step, part>>

\* Parse: a read brings n symbols.
Parse(n) ==
    /\ pc = "read" /\ outcome = "reading"
    /\ pending' = pending \o SubSeq(input, 1, n)
    /\ input' = SubSeq(input, n + 1, Len(input))
    /\ pc' = IF header_ended THEN "content" ELSE "headers"
    /\ UNCHANGED <<conversation, turn, outcome, content, headerVars, chunk_size, formVars>>

\* How Parse returns.
NeedMore == pc' = "read" /\ UNCHANGED outcome
Finish   == pc' = "read" /\ outcome' = "finished"
Refuse   == pc' = "read" /\ outcome' = "refused"
Throw    == pc' = "read" /\ outcome' = "thrown"

-----------------------------------------------------------------------------
\* Lines: the places of a CRLF, the line that starts at i, what follows it.
Ends(s) == {i \in 1..Len(s) - 1 : s[i] = CR /\ s[i + 1] = LF}
LineEnd(s, i) == Min({e \in Ends(s) : e >= i})
LineAt(s, i) == SubSeq(s, i, LineEnd(s, i) - 1)
After(s, i) == SubSeq(s, LineEnd(s, i) + 2, Len(s))
HasLine == Ends(pending) # {}

\* ParseHeaders.
HeaderMore ==
    /\ pc = "headers" /\ ~HasLine
    /\ NeedMore
    /\ UNCHANGED <<wire, pending, content, headerVars, chunk_size, formVars>>

HeadersEnd ==
    /\ pc = "headers" /\ HasLine
    /\ LineAt(pending, 1) = <<>>
    /\ header_ended' = TRUE
    /\ pending' = After(pending, 1)
    /\ pc' = "content"
    /\ UNCHANGED <<wire, outcome, content, content_length, start_line_parsed,
                   content_length_parsed, chunked, multipart, chunk_size, formVars>>

\* What ParseStartLine and ParseHeaderLine accept.  Memory for the largest
\* length cannot be reserved.
GoodLine(line) ==
    /\ Len(line) = 1
    /\ line[1][1] \in (IF start_line_parsed
                       THEN {"Content-Length", "multipart/form-data", "chunked", "other"}
                       ELSE {"start"})
    /\ line[1] # ContentLength(kInvalidLength)

HeaderLine ==
    /\ pc = "headers" /\ HasLine
    /\ LET line == LineAt(pending, 1) IN
           /\ GoodLine(line)
           /\ content_length' = IF line[1][1] = "Content-Length" THEN line[1][2]
                                ELSE content_length
           /\ content_length_parsed' = (content_length_parsed \/ line[1][1] = "Content-Length")
           /\ multipart' = (multipart \/ line[1] = Multipart)
           /\ chunked' = (chunked \/ line[1] = Chunked)
    /\ start_line_parsed' = TRUE
    /\ pending' = After(pending, 1)
    /\ UNCHANGED <<wire, pc, outcome, content, header_ended, chunk_size, formVars>>

HeaderBad ==
    /\ pc = "headers" /\ HasLine
    /\ LineAt(pending, 1) # <<>> /\ ~GoodLine(LineAt(pending, 1))
    /\ Refuse
    /\ UNCHANGED <<wire, pending, content, headerVars, chunk_size, formVars>>

-----------------------------------------------------------------------------
\* ParseFixedContent.
NoContent ==
    /\ pc = "content" /\ ~chunked /\ ~multipart /\ ~content_length_parsed
    /\ Finish
    /\ UNCHANGED <<wire, pending, content, headerVars, chunk_size, formVars>>

FixedContent ==
    /\ pc = "content" /\ ~chunked /\ ~multipart /\ content_length_parsed
    /\ content' = content \o pending
    /\ pending' = <<>>
    /\ IF content_length <= Len(content') THEN Finish ELSE NeedMore
    /\ UNCHANGED <<wire, headerVars, chunk_size, formVars>>

\* ParseChunkedContent, with ParseChunkSize.  When no size line is there yet the
\* size stays kInvalidLength and the tests below are made all the same.
ChunkSize ==
    /\ pc = "content" /\ chunked
    /\ chunk_size = kInvalidLength /\ HasLine
    /\ LET line == LineAt(pending, 1) IN
           \/ /\ Len(line) = 1 /\ line[1][1] = "size"
              /\ chunk_size' = line[1][2]
              /\ UNCHANGED <<pc, outcome>>
           \/ /\ ~(Len(line) = 1 /\ line[1][1] = "size")
              /\ Refuse
              /\ UNCHANGED chunk_size
    /\ pending' = After(pending, 1)
    /\ UNCHANGED <<wire, content, headerVars, formVars>>

\* The tests follow the size.
Sized == pc = "content" /\ chunked /\ ~(chunk_size = kInvalidLength /\ HasLine)

\* The last chunk: its final CRLF is not waited for.
ChunkLast ==
    /\ Sized /\ chunk_size = 0
    /\ Finish
    /\ UNCHANGED <<wire, pending, content, headerVars, chunk_size, formVars>>

WithCRLF(size) == (size + 2) % (SizeMax + 1)

ChunkWhole ==
    /\ Sized /\ chunk_size # 0 /\ WithCRLF(chunk_size) <= Len(pending)
    /\ \/ /\ chunk_size <= Len(pending)
          /\ content' = content \o SubSeq(pending, 1, chunk_size)
          /\ pending' = SubSeq(pending, chunk_size + 3, Len(pending))
          /\ chunk_size' = kInvalidLength
          /\ UNCHANGED <<pc, outcome>>
       \/ /\ chunk_size > Len(pending)   \* append(data, npos): length_error
          /\ Throw
          /\ UNCHANGED <<content, pending, chunk_size>>
    /\ UNCHANGED <<wire, headerVars, formVars>>

ChunkPart_Loses ==
    /\ Sized /\ WithCRLF(chunk_size) > Len(pending)
    /\ chunk_size > Len(pending)
    /\ chunk_size' = chunk_size - Len(pending)
    /\ pending' = <<>>
    /\ NeedMore
    /\ UNCHANGED <<wire, content, headerVars, formVars>>

ChunkPart ==
    /\ Sized /\ WithCRLF(chunk_size) > Len(pending)
    /\ chunk_size > Len(pending)
    /\ content' = content \o pending
    /\ chunk_size' = chunk_size - Len(pending)
    /\ pending' = <<>>
    /\ NeedMore
    /\ UNCHANGED <<wire, headerVars, formVars>>

ChunkWait ==
    /\ Sized /\ chunk_size # 0 /\ WithCRLF(chunk_size) > Len(pending)
    /\ chunk_size <= Len(pending)
    /\ NeedMore
    /\ UNCHANGED <<wire, pending, content, headerVars, chunk_size, formVars>>

-----------------------------------------------------------------------------
\* ParseMultipartContent.
MultipartBad ==
    /\ pc = "content" /\ ~chunked /\ multipart /\ ~content_length_parsed
    /\ Refuse
    /\ UNCHANGED <<wire, pending, content, headerVars, chunk_size, formVars>>

\* One iteration of its loop, in step s.
InLoop == pc = "content" /\ ~chunked /\ multipart /\ content_length_parsed
InForm(s) == InLoop /\ pending # <<>> /\ step = s

MultipartEmpty ==
    /\ InLoop /\ pending = <<>>
    /\ IF step = "kEnded" THEN Finish ELSE NeedMore
    /\ UNCHANGED <<wire, pending, content, headerVars, chunk_size, formVars>>

\* No branch of the loop is for kEnded: it goes round for good.
MultipartSpin == InForm("kEnded") /\ UNCHANGED vars

\* IsBoundary; its *end is set as soon as the dashes are there.
Dashed(line) ==
    /\ Len(line) \in {3, 5}
    /\ SubSeq(line, 1, 2) = Dashes
    /\ Len(line) = 5 => SubSeq(line, 4, 5) = Dashes
IsBoundary(line) == Dashed(line) /\ line[3] = Boundary

FirstBoundary ==
    /\ InForm("kStart")
    /\ \/ /\ ~HasLine
          /\ NeedMore
          /\ UNCHANGED <<pending, step>>
       \/ /\ HasLine /\ IsBoundary(LineAt(pending, 1))
          /\ pending' = After(pending, 1)
          /\ step' = "kBoundaryParsed"
          /\ UNCHANGED <<pc, outcome>>
       \/ /\ HasLine /\ ~IsBoundary(LineAt(pending, 1))
          /\ pending' = After(pending, 1)
          /\ Refuse
          /\ UNCHANGED step
    /\ UNCHANGED <<wire, content, headerVars, chunk_size, parts, part>>

\* The complete line of s that ends at e, and where it starts.
LineStart(s, e) == Max({1} \cup {f + 2 : f \in {f \in Ends(s) : f < e}})
LineTo(s, e) == SubSeq(s, LineStart(s, e), e - 1)

\* ParsePartHeaders: set_name for every disposition among the lines read.  They
\* are read from the first one again until the empty line is there.
GoodPartLine(line) == Len(line) = 1 /\ line[1][1] \in {"Content-Disposition", "other"}
PartName_Null(ends) == part
PartName(ends) ==
    LET named == {e \in ends : LineTo(pending, e)[1][1] = "Content-Disposition"}
    IN  IF named # {} THEN <<LineTo(pending, Max(named))[1][2]>>
        ELSE IF part = <<>> THEN <<"">> ELSE part

\* The smallest element of a set, if it has one.
FirstOf(set) == {e \in set : \A f \in set : e <= f}

PartHeaders ==
    /\ InForm("kBoundaryParsed")
    /\ LET stops == FirstOf({e \in Ends(pending) : ~GoodPartLine(LineTo(pending, e))})
       IN  \/ /\ stops = {}
              /\ part' = PartName(Ends(pending))
              /\ NeedMore
              /\ UNCHANGED <<pending, step>>
           \/ \E last \in stops :
              /\ part' = PartName({e \in Ends(pending) : e < last})
              /\ \/ /\ LineTo(pending, last) = <<>>
                    /\ pending' = SubSeq(pending, last + 2, Len(pending))
                    /\ step' = "kHeadersParsed"
                    /\ UNCHANGED <<pc, outcome>>
                 \/ /\ LineTo(pending, last) # <<>>
                    /\ Refuse
                    /\ UNCHANGED <<pending, step>>
    /\ UNCHANGED <<wire, content, headerVars, chunk_size, parts>>

\* What is left of pending_data_ after the boundary line that ends at e.
PastBoundary_KeepsCRLF(e) == SubSeq(pending, e, Len(pending))
PastBoundary(e) == SubSeq(pending, e + 2, Len(pending))

\* A line up to the one that ends at next has the dashes of the last boundary.
Ended(next) ==
    \E e \in Ends(pending) :
        e <= next /\ Len(LineTo(pending, e)) = 5 /\ Dashed(LineTo(pending, e))

\* The part's data ends before the CRLF of the next boundary (GetNextBoundaryLine).
PartData ==
    /\ InForm("kHeadersParsed")
    /\ LET found == FirstOf({e \in Ends(pending) : IsBoundary(LineTo(pending, e))})
       IN  \/ /\ found = {}
              /\ NeedMore
              /\ UNCHANGED <<pending, formVars>>
           \/ \E next \in found : \E off \in {LineStart(pending, next) - 1} :
              \/ /\ off <= 2
                 /\ Refuse
                 /\ UNCHANGED <<pending, formVars>>
              \/ /\ off > 2
                 /\ parts' = Append(parts, [name |-> part[1], data |-> SubSeq(pending, 1, off - 2)])
                 /\ pending' = PastBoundary(next)
                 /\ part' = <<>>
                 /\ IF Ended(next)
                    THEN step' = "kEnded" /\ Finish
                    ELSE step' = "kBoundaryParsed" /\ UNCHANGED <<pc, outcome>>
    /\ UNCHANGED <<wire, content, headerVars, chunk_size>>

-----------------------------------------------------------------------------
ParserStep ==
    \/ HeaderMore \/ HeadersEnd \/ HeaderLine \/ HeaderBad
    \/ NoContent \/ FixedContent
    \/ ChunkSize \/ ChunkLast \/ ChunkWhole \/ ChunkPart \/ ChunkWait
    \/ MultipartBad \/ MultipartEmpty \/ FirstBoundary \/ PartHeaders \/ PartData

Read == \E n \in 1..Len(input) : Parse(n)

Next == Start \/ Read \/ ParserStep \/ MultipartSpin

\* What was sent arrives, the io thread runs on, and an answered request is
\* followed by the next one.
Spec == Init /\ [][Next]_vars /\ WF_vars(ParserStep) /\ WF_vars(Read) /\ WF_vars(Start)

-----------------------------------------------------------------------------
sent == conversation[turn]

SentIsParsed == content = sent.content /\ parts = sent.parts

\* A conversation of well-formed requests, none chunked and at most one a form.
Usual ==
    /\ \A i \in 1..Len(conversation) :
           conversation[i].valid /\ ~Contains(conversation[i].wire, Chunked)
    /\ Cardinality({i \in 1..Len(conversation) : conversation[i].parts # <<>>}) <= 1

\* However a request of such a conversation is cut into reads and whatever came
\* before it on the connection, what Finish hands over is the content and the form
\* parts the client put in, read to the last symbol, with nothing left for the next
\* request to begin with (Parser::Parse).
ParsedAsSent ==
    Usual /\ outcome = "finished" => SentIsParsed /\ pending = <<>> /\ input = <<>>

\* The first request of a connection, of any kind, is parsed as it was sent
\* when it is parsed at all, and a malformed one never is.
FirstParsedAsSent ==
    turn = 1 /\ outcome = "finished" => sent.valid /\ SentIsParsed

\* Every request of a usual conversation that was sent completely is finished; none
\* is refused.
RequestEnds ==
    \A t \in 1..3 :
        Usual /\ turn = t /\ outcome = "reading" ~> turn = t /\ outcome = "finished"

\* Every call of Parse returns to the io thread.
ParseReturns == pc # "read" ~> pc = "read"
=============================================================================
