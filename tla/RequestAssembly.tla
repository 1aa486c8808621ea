-------------------------- MODULE RequestAssembly --------------------------
(***************************************************************************)
(* How a request of the client gets its headers and its body:              *)
(* RequestBuilder, the defaults of ClientSession, Request::Prepare and     *)
(* the Headers they set.  Data is its size, the text of a header a name.   *)
(* Sending is one step here; HttpClient and ClientSession model it.        *)
(***************************************************************************)
EXTENDS Naturals, Sequences

S == INSTANCE FiniteSetsExt
Std == INSTANCE TLC

CONSTANTS Names,        \* header names the caller may set, of builder or session
          Values,       \* and the values it gives them
          Sizes,        \* sizes of the data and of a form part
          MaxHeaders,   \* bound on the headers given to a builder
          MaxParts,     \* and on its form parts
          MaxCalls      \* bound on the calls that change the session or build

VARIABLES headers,        \* headers_ of the session
          content_type,   \* content_type_ of the session, "" when not set
          builder,        \* the fields of a RequestBuilder
          request,        \* the request it built
          wire,           \* the message last sent
          changed,        \* the session or the request has changed since then
          calls           \* the calls so far, also the next random boundary
vars == <<headers, content_type, builder, request, wire, changed, calls>>

Spellings == {"Title-Case", "lower-case"}
Header(n, s, v) == [name |-> n, spelling |-> s, value |-> v]
Standard(n, v) == Header(n, "Title-Case", v)

\* Headers::Find compares names without regard to case; 0 for end().
FindHeader_SameCase(hs, h) ==
    LET at == {i \in 1..Len(hs) : hs[i].name = h.name /\ hs[i].spelling = h.spelling}
    IN  IF at = {} THEN 0 ELSE S!Min(at)

FindHeader(hs, h) ==
    LET at == {i \in 1..Len(hs) : hs[i].name = h.name}
    IN  IF at = {} THEN 0 ELSE S!Min(at)

Set(hs, h) == LET i == FindHeader(hs, h) IN
              IF i = 0 THEN Append(hs, h) ELSE [hs EXCEPT ![i].value = h.value]

SetIfMissing(hs, h) == IF FindHeader(hs, h) = 0 THEN Append(hs, h) ELSE hs

\* The loop of ClientSession::Request over the headers of the session.
SetMissing(hs, defaults) ==
    LET after[n \in 0..Len(defaults)] ==
            IF n = 0 THEN hs ELSE SetIfMissing(after[n - 1], defaults[n])
    IN  after[Len(defaults)]

NoBuilder == [headers |-> <<>>, keep_alive |-> TRUE, json |-> FALSE, data |-> 0, parts |-> <<>>]
NoRequest == [made |-> FALSE, headers |-> <<>>, content |-> 0, parts |-> <<>>,
              boundary |-> 0, given |-> NoBuilder]
Unsent == [headers |-> <<>>, body |-> <<>>]

\* ClientSession::InitHeaders; the headers callers do not touch are left out.
Init ==
    /\ headers = <<Standard("Accept", "*/*"), Standard("Connection", "Keep-Alive")>>
    /\ content_type = ""
    /\ builder = NoBuilder
    /\ request = NoRequest
    /\ wire = Unsent
    /\ changed = TRUE
    /\ calls = 0

\* Calls on the session: SetHeader, Auth, set_content_type.
SessionSet ==
    /\ calls < MaxCalls /\ calls' = calls + 1 /\ changed' = TRUE
    /\ \/ \E n \in Names, s \in Spellings, v \in Values :
              headers' = Set(headers, Header(n, s, v)) /\ UNCHANGED content_type
       \/ \E v \in Values : content_type' = v /\ UNCHANGED headers
    /\ UNCHANGED <<builder, request, wire>>

\* FormPart: its data, given or read from a file.
Parts == [size : Sizes]

\* Calls on the builder, all before it builds; it may build again what is left.
BuilderSet ==
    /\ ~request.made
    /\ \/ /\ Len(builder.headers) < MaxHeaders
          /\ \E n \in Names, s \in Spellings, v \in Values :
                 builder' = [builder EXCEPT !.headers = Append(@, Header(n, s, v))]
       \/ builder' = [builder EXCEPT !.keep_alive = ~@]
       \/ builder' = [builder EXCEPT !.json = TRUE]
       \/ \E d \in Sizes : builder' = [builder EXCEPT !.data = d]
       \/ /\ Len(builder.parts) < MaxParts
          /\ \E p \in Parts : builder' = [builder EXCEPT !.parts = Append(@, p)]
    /\ UNCHANGED <<headers, content_type, request, wire, changed, calls>>

\* Message::SetContent with set_length.
SetContent(hs, size) == Set(hs, Standard("Content-Length", Std!ToString(size)))

\* The loop of RequestBuilder::operator() over its headers.
SetEach(hs, given) ==
    LET after[n \in 0..Len(given)] == IF n = 0 THEN hs ELSE Set(after[n - 1], given[n])
    IN  after[Len(given)]

\* The headers given to the builder, then Connection if it is not to be kept alive.
OwnHeaders(b) ==
    LET own == SetEach(<<>>, b.headers) IN
    IF b.keep_alive THEN own ELSE Set(own, Standard("Connection", "Close"))

FormParts_Also(b) == b.parts

\* A request has the data or, without any, the form parts.
FormParts(b) == IF b.data > 0 THEN <<>> ELSE b.parts

\* RequestBuilder::operator(): data and form parts are moved out of the builder.
Build ==
    LET own == OwnHeaders(builder)
        sized == IF builder.data > 0 THEN SetContent(own, builder.data) ELSE own
        typed == IF builder.data > 0 /\ builder.json
                 THEN Set(sized, Standard("Content-Type", "json")) ELSE sized
    IN  /\ calls < MaxCalls /\ calls' = calls + 1
        /\ request' = [made |-> TRUE, headers |-> typed, content |-> builder.data,
                       parts |-> FormParts(builder), boundary |-> 0, given |-> builder]
        /\ builder' = IF builder.data > 0 THEN [builder EXCEPT !.data = 0]
                                          ELSE [builder EXCEPT !.parts = <<>>]
        /\ changed' = TRUE
        /\ UNCHANGED <<headers, content_type, wire>>

\* The buffers of a payload: the data; a form part after its boundary line, with
\* its headers and line breaks; the line that ends a form.
Content(size) == [kind |-> "content", boundary |-> 0, size |-> size]
Section(p, b) == [kind |-> "part", boundary |-> b, size |-> 90 + p.size]
EndLine(b) == [kind |-> "end", boundary |-> b, size |-> 42]

\* data_payload in Request::Prepare, and the loop that adds up its buffers.
DataPayload(parts, b) == Append([i \in 1..Len(parts) |-> Section(parts[i], b)], EndLine(b))

Size(payload) ==
    LET sum[n \in 0..Len(payload)] == IF n = 0 THEN 0 ELSE sum[n - 1] + payload[n].size
    IN  sum[Len(payload)]

\* What Message::Prepare and Request::Prepare append to the headers.
Body(r) == (IF r.content > 0 THEN <<Content(r.content)>> ELSE <<>>)
           \o IF r.parts = <<>> THEN <<>> ELSE DataPayload(r.parts, r.boundary)

Boundary_Fresh(r) == calls + 10 * r.boundary + 1

\* boundary_ in Request::Prepare: drawn once, for the first Prepare.
Boundary(r) == IF r.boundary = 0 THEN calls ELSE r.boundary

\* ClientSession::Request: the defaults, Request::Prepare, Message::Prepare.
SendRequest ==
    LET defaults == SetMissing(request.headers, headers)
        typed == IF content_type = "" THEN defaults
                 ELSE SetIfMissing(defaults, Standard("Content-Type", content_type))
        hosted == Set(typed, Standard("Host", "host"))
        b == Boundary(request)
        form == SetContent(Set(hosted, Standard("Content-Type", Std!ToString(b))),
                           Size(DataPayload(request.parts, b)))
        ready == IF request.parts = <<>> THEN [request EXCEPT !.headers = hosted]
                 ELSE [request EXCEPT !.headers = form, !.boundary = b]
    IN  /\ request.made
        /\ request' = ready
        /\ wire' = [headers |-> ready.headers, body |-> Body(ready)]
        /\ changed' = FALSE
        /\ UNCHANGED <<headers, content_type, builder, calls>>

Next == SessionSet \/ BuilderSet \/ Build \/ SendRequest

Spec == Init /\ [][Next]_vars

-----------------------------------------------------------------------------
Value(hs, n) == LET i == FindHeader(hs, Standard(n, "")) IN IF i = 0 THEN "none" ELSE hs[i].value

\* The headers that the message itself decides: Host, the type of a form or of JSON
\* data, and Connection when the caller asked to close.
Decided(b) == {"Host"} \cup
              (IF b.data = 0 /\ b.parts = <<>> THEN {}
               ELSE IF b.data = 0 \/ b.json THEN {"Content-Type"} ELSE {})
              \cup IF b.keep_alive THEN {} ELSE {"Connection"}

\* No message carries a header twice, whatever the case the caller, the session
\* and the library write its name in; what the caller set on the builder reaches
\* the server, the last value of a name, and no default of the session replaces it.
CallerWins ==
    /\ \A i, j \in 1..Len(wire.headers) : i # j => wire.headers[i].name # wire.headers[j].name
    /\ (wire # Unsent /\ ~changed) =>
           \A i \in 1..Len(request.given.headers) :
               LET h == request.given.headers[i] IN
               (/\ h.name \notin Decided(request.given)
                /\ \A j \in (i + 1)..Len(request.given.headers) : request.given.headers[j].name # h.name)
                   => Value(wire.headers, h.name) = h.value

\* The headers describe the body that is sent, also of a request sent before:
\* Content-Length is the size of all that follows them and is missing without a
\* body, and every line of a form has the boundary they announce.  The body is what
\* the builder was given, the data and nothing else, or else the form parts in their
\* order; JSON is called so, and a request that is not to be kept alive says so.
BodyAnnounced ==
    wire # Unsent =>
        /\ Value(wire.headers, "Content-Length")
               = IF wire.body = <<>> THEN "none" ELSE Std!ToString(Size(wire.body))
        /\ \A i \in 1..Len(wire.body) :
               wire.body[i].kind # "content"
                   => Value(wire.headers, "Content-Type") = Std!ToString(wire.body[i].boundary)
        /\ ~changed => LET given == request.given IN
               /\ given.data > 0 => wire.body = <<Content(given.data)>>
               /\ given.data = 0 =>
                      /\ Len(wire.body) = IF given.parts = <<>> THEN 0 ELSE Len(given.parts) + 1
                      /\ \A i \in 1..Len(given.parts) :
                             wire.body[i] = Section(given.parts[i], wire.body[i].boundary)
               /\ given.data > 0 /\ given.json => Value(wire.headers, "Content-Type") = "json"
               /\ ~given.keep_alive => Value(wire.headers, "Connection") = "Close"

\* Sending a request again over an unchanged session sends the same message.
ResendIsSame == [][~changed => wire' = wire]_vars
=============================================================================
