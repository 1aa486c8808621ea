--------------------------- MODULE ClientSession ----------------------------
(***************************************************************************)
(* webcc/client_session.cc and client_pool.cc: ClientSession::Send, which  *)
(* keeps the Client of a server in a pool when its connection may be used  *)
(* again, and sends a request once more when the kept connection turns out *)
(* to be unusable.  One server is followed, so the pool holds its client   *)
(* or does not; the client is HttpClient's.                                *)
(***************************************************************************)
EXTENDS HttpClient

VARIABLES
    sending,      \* where Send is: "no", "first" or "second" Request
    reuse,        \* Send took its client from the pool
    pooled,       \* the client is in pool_
    delivered     \* how often this Send wrote its request out completely

sessionVars == <<sending, reuse, pooled, delivered>>
vars == <<clientVars, sessionVars>>

\* The type invariant; a Send writes its request at most twice.
SessionTypeOK ==
    /\ TypeOK
    /\ sending \in {"no", "first", "second"}
    /\ reuse \in BOOLEAN
    /\ pooled \in BOOLEAN
    /\ delivered \in 0..2

SessionInit ==
    /\ Init
    /\ sending = "no"
    /\ reuse = FALSE
    /\ pooled = FALSE
    /\ delivered = 0

\* Get from the pool: an existing connection, or a new client with a timer of
\* its own.
SendReusing ==
    /\ sending = "no"
    /\ pooled
    /\ Request(FALSE)
    /\ sending' = "first" /\ reuse' = TRUE /\ delivered' = 0
    /\ UNCHANGED pooled

SendNew ==
    /\ sending = "no"
    /\ ~pooled
    /\ pc' = "connect" /\ ok' = FALSE
    /\ closed' = FALSE /\ timer_canceled' = FALSE /\ timed_out' = FALSE
    /\ error' = "kNoError" /\ response' = "empty"
    /\ socket' = "none" /\ read' = "none"
    /\ deadline' = "unset" /\ waits' = [s \in WaitStates |-> 0]
    /\ framing' = "length" /\ sized' = TRUE /\ leftover' = FALSE
    /\ sending' = "first" /\ reuse' = FALSE /\ delivered' = 0
    /\ UNCHANGED pooled

\* The client's own steps, within its Request.
Requesting ==
    /\ sending # "no"
    /\ pc \notin {"returned", "thrown"}
    /\ ClientStep
    /\ delivered' = IF pc = "write" /\ pc' = "read" THEN delivered + 1 ELSE delivered
    /\ UNCHANGED <<sending, reuse, pooled>>

\* Writing to the kept connection failed: connect and try again.
SendAgain_AnyError ==
    /\ sending = "first" /\ pc = "returned"
    /\ ~ok /\ reuse
    /\ Request(TRUE)
    /\ sending' = "second"
    /\ UNCHANGED <<reuse, pooled, delivered>>

SendAgain_Forever ==
    /\ sending = "first" /\ pc = "returned"
    /\ ~ok /\ reuse
    /\ Request(TRUE)
    /\ UNCHANGED sessionVars

SendAgain ==
    /\ sending = "first" /\ pc = "returned"
    /\ ~ok /\ reuse /\ error = "kSocketWriteError"
    /\ Request(TRUE)
    /\ sending' = "second"
    /\ UNCHANGED <<reuse, pooled, delivered>>

\* Send throws, and forgets a client it had from the pool.
SendFails ==
    /\ sending # "no" /\ pc = "returned"
    /\ ~ok
    /\ ~(sending = "first" /\ reuse /\ error = "kSocketWriteError")
    /\ pooled' = IF reuse THEN FALSE ELSE pooled
    /\ sending' = "no"
    /\ UNCHANGED <<clientVars, reuse, delivered>>

\* The parser's exception passes through Send, and past the pool.
SendThrows ==
    /\ sending # "no" /\ pc = "thrown"
    /\ sending' = "no"
    /\ UNCHANGED <<clientVars, reuse, pooled, delivered>>

\* "Update connection pool."
SendSucceeds_KeepsReused ==
    /\ sending # "no" /\ pc = "returned"
    /\ ok
    /\ pooled' = IF reuse THEN pooled ELSE pooled \/ ~closed
    /\ sending' = "no"
    /\ UNCHANGED <<clientVars, reuse, delivered>>

SendSucceeds ==
    /\ sending # "no" /\ pc = "returned"
    /\ ok
    /\ pooled' = IF reuse THEN pooled /\ ~closed ELSE pooled \/ ~closed
    /\ sending' = "no"
    /\ UNCHANGED <<clientVars, reuse, delivered>>

\* The clock goes on while the client rests in the pool.
RestingInPool ==
    /\ sending = "no"
    /\ DeadlinePasses
    /\ UNCHANGED sessionVars

Send == SendReusing \/ SendNew
SendEnds == SendAgain \/ SendFails \/ SendThrows \/ SendSucceeds

Next == Send \/ Requesting \/ SendEnds \/ RestingInPool

Spec == SessionInit /\ [][Next]_vars

\* Send's own thread keeps running, see ClientFairness.
FairSpec == Spec /\ ClientFairness /\ WF_vars(SendEnds)

-----------------------------------------------------------------------------
\* A client rests in the pool with no read under way that could take the bytes
\* of the next response, and, also after timeouts that raced the end of the
\* response, with an open socket.  Only a client whose parser threw is left
\* there in whatever state it is.
PooledUsable ==
    pooled /\ sending = "no" =>
        read = "none" /\ (pc = "thrown" \/ (socket = "open" /\ ~closed))

\* A deadline that fired for an earlier request, its handler still waiting in
\* the io_context, never times out a later one: timed_out_ means that the
\* deadline of this request has passed.
TimeoutIsOwn == timed_out => deadline = "passed"

\* One Send writes its request out completely at most once: the retry is only
\* for a write that failed, so a server does not get a POST twice.
WrittenOnce == delivered <= 1

\* Over a connection whose responses all state their length, success without a
\* timeout means that the whole response was received, and that it is the
\* response of this request and not what an earlier one left on the socket.
CompleteUnlessTimedOut ==
    sending # "no" /\ pc = "returned" /\ ok /\ ~timed_out /\ sized => response = "whole"

\* A server that sends nothing cannot hold the caller: it gets the first part
\* of a response or the deadline ends the request.
FirstReadBounded == pc = "read" /\ response = "empty" ~> pc # "read" \/ response # "empty"

\* "Connect to server, send request, wait until response is received."
SuccessIsComplete ==
    sending # "no" /\ pc = "returned" /\ ok => response = "whole"

\* "In synchronous mode, a request won't return until the response is
\* received or timeout occurs": one of the two ends every request.
RequestReturns == pc = "read" ~> pc # "read"
=============================================================================
