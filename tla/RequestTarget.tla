---------------------------- MODULE RequestTarget ----------------------------
(***************************************************************************)
(* The URL of a request from the caller of the client to the service: the  *)
(* constructor of Request, AddQuery, CreateStartLine on one side,          *)
(* ParseStartLine, set_url and the UrlQuery of the handler on the other.   *)
(***************************************************************************)
EXTENDS Urls

CONSTANTS Addresses,      \* URLs the caller gives
          Keys, Values,   \* texts of the parameters it adds
          MaxAdded        \* bound on the parameters added

VARIABLES address,      \* the Url of what the caller gave
          url,          \* url_ of the request
          added,        \* the parameters given to AddQuery
          start_line,   \* the target of start_line_, empty until it is created
          built,        \* the parameters added when it was created
          seen          \* what the server made of the last message
vars == <<address, url, added, start_line, built, seen>>

Nothing == [status |-> "none", path |-> <<>>, parameters |-> <<>>]

Init ==
    /\ \E a \in Addresses : address = UrlInit(a)
    /\ url = address
    /\ added = <<>> /\ start_line = <<>> /\ built = <<>>
    /\ seen = Nothing

CallAddQuery(k, v) ==
    /\ Len(added) < MaxAdded
    /\ url' = AddQuery(url, k, v)
    /\ added' = Append(added, <<k, v>>)
    /\ UNCHANGED <<address, start_line, built, seen>>

\* Request::CreateStartLine, the target in it.
CreateStartLine(u) ==
    <<Slash>> \o u.path \o (IF u.query = <<>> THEN <<>> ELSE <<Question>> \o u.query)

\* RequestParser::ParseStartLine, set_url, and the query made for the handler.
\* Adjacent blanks separate once: the ones at the end of the target are lost.
Read(target) ==
    LET token == SubSeq(target, 1, S!Max({i \in 1..Len(target) : target[i] # Space})) IN
    IF \E i \in 1..Len(token) : token[i] = Space
    THEN [Nothing EXCEPT !.status = "refused"]
    ELSE [status |-> "read", path |-> UrlInit(token).path,
          parameters |-> UrlQuery(UrlInit(token).query)]

\* Request::Prepare throws without a host; otherwise the request is sent and read.
Send ==
    /\ url.host # <<>>
    /\ start_line' = IF start_line = <<>> THEN CreateStartLine(url) ELSE start_line
    /\ built' = IF start_line = <<>> THEN added ELSE built
    /\ seen' = Read(start_line')
    /\ UNCHANGED <<address, url, added>>

Next == Send \/ \E k \in Keys, v \in Values : CallAddQuery(k, v)

Spec == Init /\ [][Next]_vars

-----------------------------------------------------------------------------
Without(t, chars) == \A i \in 1..Len(t) : t[i] \notin chars

\* Nothing in the target that the receiver would read as more than a character.
Plain(target) == /\ Without(target, {Space, Percent})
                 /\ Find(target, <<Colon, Slash, Slash>>) = 0

\* What a UrlQuery is after parameters were added to it, in their order.
AddEach(q, kvs) ==
    LET after[n \in 0..Len(kvs)] == IF n = 0 THEN q ELSE Add(after[n - 1], kvs[n][1], kvs[n][2])
    IN  after[Len(kvs)]

\* Keys and values that the query syntax does not take apart.
Separable(kv) == /\ kv[1] # <<>>
                 /\ Without(kv[1], {Ampersand, Equals})
                 /\ Without(kv[2], {Ampersand})

\* A plain target reaches the service as the client had it: the path, with slashes,
\* colons and question marks of the query left alone, the parameters of the address
\* and then the ones the caller added before the first send, the first of each key,
\* in order.
TargetArrives ==
    seen.status # "none" /\ Plain(start_line) =>
        /\ seen.path = address.path
        /\ (\A i \in 1..Len(built) : Separable(built[i]))
               => seen.parameters = AddEach(UrlQuery(address.query), built)
=============================================================================
