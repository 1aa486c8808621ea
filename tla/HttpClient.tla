----------------------------- MODULE HttpClient -----------------------------
(***************************************************************************)
(* webcc/client.cc: Client, the synchronous HTTP client.  Request blocks   *)
(* the calling thread, which runs the client's own io_context one handler  *)
(* at a time while it waits: the handler of the outstanding read and those *)
(* of the waits on the deadline timer.  The network and the clock choose   *)
(* which of them become ready; handlers that were ready when a request     *)
(* returned are still there when the next one starts.  So are, on a socket *)
(* that is kept, the bytes of a response the parser finished with early.   *)
(***************************************************************************)
EXTENDS Naturals

CONSTANTS
    WaitBound,     \* the most waits on the timer explored
    Framings       \* how the server may say where a response ends

ASSUME WaitBoundNat == WaitBound \in Nat \ {0}
ASSUME FramingsAssumption == Framings \subseteq {"length", "chunked", "unstated"}

VARIABLES
    pc,             \* where Request is; "returned" with its result in ok
    ok,             \* what Request returned
    socket,         \* "none", "open" or "closed"
    closed,         \* closed_
    timer_canceled, \* timer_canceled_
    timed_out,      \* timed_out_
    error,          \* error_
    response,       \* what Request has of its response
    read,           \* the outstanding read
    deadline,       \* the timer's expiry: "unset", "ahead" or "passed"
    waits,          \* how many waits on the timer are pending, fired, aborted
    framing,        \* how this response says where it ends
    sized,          \* every response on this socket has stated its length
    leftover        \* bytes of earlier responses are still to come on the socket

flags == <<closed, timer_canceled, timed_out>>
stream == <<framing, sized, leftover>>
clientVars == <<pc, ok, socket, flags, error, response, read, deadline, waits, stream>>

Errors == {"kNoError", "kHostResolveError", "kEndpointConnectError",
           "kSocketWriteError", "kSocketReadError", "kHttpError"}
WaitStates == {"pending", "fired", "aborted"}

TypeOK ==
    /\ pc \in {"idle", "connect", "write", "read", "returned", "thrown"}
    /\ ok \in BOOLEAN
    /\ socket \in {"none", "open", "closed"}
    /\ closed \in BOOLEAN /\ timer_canceled \in BOOLEAN /\ timed_out \in BOOLEAN
    /\ error \in Errors
    /\ response \in {"empty", "part", "cut", "stray", "whole"}
    /\ read \in {"none", "pending", "ok", "error"}
    /\ deadline \in {"unset", "ahead", "passed"}
    /\ waits \in [WaitStates -> 0..WaitBound]
    /\ framing \in {"length", "chunked", "unstated"}
    /\ sized \in BOOLEAN /\ leftover \in BOOLEAN

Init ==
    /\ pc = "idle"
    /\ ok = FALSE
    /\ socket = "none"
    /\ closed = FALSE /\ timer_canceled = FALSE /\ timed_out = FALSE
    /\ error = "kNoError"
    /\ response = "empty"
    /\ read = "none"
    /\ deadline = "unset"
    /\ waits = [s \in WaitStates |-> 0]
    /\ framing = "length" /\ sized = TRUE /\ leftover = FALSE

-----------------------------------------------------------------------------
\* Cancelling the timer's pending waits; the ones that fired stay.
Aborted(ws) ==
    [ws EXCEPT !["aborted"] = ws["aborted"] + ws["pending"], !["pending"] = 0]

Total(ws) == ws["pending"] + ws["fired"] + ws["aborted"]

\* Client::Close, and what it does to an outstanding read.
CloseSocket(outstanding) ==
    /\ closed' = TRUE
    /\ socket' = IF closed THEN socket ELSE "closed"
    /\ read' = IF ~closed /\ outstanding = "pending" THEN "error" ELSE outstanding

Return(result, err) == pc' = "returned" /\ ok' = result /\ error' = err

\* Client::Request up to the connection.  Without connect the socket of the
\* request before is used.
Request(connect) ==
    /\ pc \in {"idle", "returned", "thrown"}
    /\ response' = "empty"
    /\ closed' = FALSE /\ timer_canceled' = FALSE /\ timed_out' = FALSE
    /\ error' = "kNoError"
    /\ pc' = IF connect THEN "connect" ELSE "write"
    /\ UNCHANGED <<ok, socket, read, deadline, waits, stream>>

\* Connect and DoConnect.  A failed resolve does not close the new socket,
\* which is not open yet.
ResolveFails ==
    /\ pc = "connect"
    /\ socket' = "none"
    /\ Return(FALSE, "kHostResolveError")
    /\ UNCHANGED <<flags, response, read, deadline, waits, stream>>

ConnectFails ==
    /\ pc = "connect"
    /\ socket' = "closed" /\ closed' = TRUE
    /\ Return(FALSE, "kEndpointConnectError")
    /\ UNCHANGED <<timer_canceled, timed_out, response, read, deadline, waits, stream>>

Connect ==
    /\ pc = "connect"
    /\ socket' = "open"
    /\ pc' = "write"
    /\ sized' = TRUE /\ leftover' = FALSE
    /\ UNCHANGED <<ok, flags, error, response, read, deadline, waits, framing>>

WriteFails ==
    /\ pc = "write"
    /\ CloseSocket(read)
    /\ Return(FALSE, "kSocketWriteError")
    /\ UNCHANGED <<timer_canceled, timed_out, response, deadline, waits, stream>>

\* WriteReqeust, then ReadResponse: setting the expiry cancels older waits.
\* The server will answer in one of its ways.
WriteRequest ==
    /\ pc = "write"
    /\ socket = "open"
    /\ Total(waits) < WaitBound
    /\ deadline' = "ahead"
    /\ waits' = [Aborted(waits) EXCEPT !["pending"] = 1]
    /\ read' = "pending"
    /\ pc' = "read"
    /\ framing' \in Framings
    /\ sized' = (sized /\ framing' = "length")
    /\ UNCHANGED <<ok, socket, flags, error, response, leftover>>

\* The clock reaches the expiry.
DeadlinePasses ==
    /\ deadline = "ahead"
    /\ deadline' = "passed"
    /\ waits' = [waits EXCEPT !["fired"] = waits["fired"] + waits["pending"],
                              !["pending"] = 0]
    /\ UNCHANGED <<pc, ok, socket, flags, error, response, read, stream>>

\* The network completes the read.
ReadCompletes ==
    /\ read = "pending"
    /\ read' \in {"ok", "error"}
    /\ UNCHANGED <<pc, ok, socket, flags, error, response, deadline, waits, stream>>

-----------------------------------------------------------------------------
\* OnTimer, run by io_context_.run_one().

\* "timer_.cancel() was called."
OnTimerAborted ==
    /\ pc = "read"
    /\ waits["aborted"] > 0
    /\ waits' = [waits EXCEPT !["aborted"] = @ - 1]
    /\ UNCHANGED <<pc, ok, socket, flags, error, response, read, deadline, stream>>

OnTimerClosed ==
    /\ pc = "read"
    /\ waits["fired"] > 0
    /\ closed
    /\ waits' = [waits EXCEPT !["fired"] = @ - 1]
    /\ UNCHANGED <<pc, ok, socket, flags, error, response, read, deadline, stream>>

OnTimerExpired_AnyDeadline ==
    /\ pc = "read"
    /\ waits["fired"] > 0
    /\ ~closed
    /\ waits' = [waits EXCEPT !["fired"] = @ - 1]
    /\ timed_out' = TRUE
    /\ CloseSocket(read)
    /\ UNCHANGED <<pc, ok, timer_canceled, error, response, deadline, stream>>

OnTimerExpired_KeepsSocket ==
    /\ pc = "read"
    /\ waits["fired"] > 0
    /\ ~closed
    /\ deadline = "passed"
    /\ waits' = [waits EXCEPT !["fired"] = @ - 1]
    /\ timed_out' = TRUE
    /\ UNCHANGED <<pc, ok, socket, closed, read, timer_canceled, error, response, deadline,
                   stream>>

OnTimerExpired ==
    /\ pc = "read"
    /\ waits["fired"] > 0
    /\ ~closed
    /\ deadline = "passed"
    /\ waits' = [waits EXCEPT !["fired"] = @ - 1]
    /\ timed_out' = TRUE
    /\ CloseSocket(read)
    /\ UNCHANGED <<pc, ok, timer_canceled, error, response, deadline, stream>>

\* A handler left over from the request before: "Put the actor back to sleep."
OnTimerEarly ==
    /\ pc = "read"
    /\ waits["fired"] > 0
    /\ ~closed
    /\ deadline = "ahead"
    /\ waits' = [waits EXCEPT !["fired"] = @ - 1, !["pending"] = @ + 1]
    /\ UNCHANGED <<pc, ok, socket, flags, error, response, read, deadline, stream>>

-----------------------------------------------------------------------------
\* The read handler of DoReadResponse, run by io_context_.run_one().

\* "Stop the deadline timer once the read has started (or failed)."
CancelTimer ==
    /\ timer_canceled' = TRUE
    /\ waits' = IF timer_canceled THEN waits ELSE Aborted(waits)

OnReadFails ==
    /\ pc = "read"
    /\ read = "error"
    /\ CancelTimer
    /\ CloseSocket("none")
    /\ Return(FALSE, "kSocketReadError")
    /\ UNCHANGED <<timed_out, response, deadline, stream>>

OnReadBad ==
    /\ pc = "read"
    /\ read = "ok"
    /\ CancelTimer
    /\ CloseSocket("none")
    /\ Return(FALSE, "kHttpError")
    /\ UNCHANGED <<timed_out, response, deadline, stream>>

\* Parse throws std::length_error: a read that ends inside the size line of a
\* chunk leaves chunk_size_ at its invalid value.  The exception leaves Request,
\* the socket as it is and the rest of the response on it.
OnReadThrows ==
    /\ pc = "read"
    /\ read = "ok"
    /\ framing = "chunked" \/ leftover
    /\ CancelTimer
    /\ read' = "none"
    /\ leftover' = TRUE
    /\ pc' = "thrown"
    /\ UNCHANGED <<ok, socket, closed, timed_out, error, response, deadline, framing, sized>>

\* What the parser has when it is finished: a response without Content-Length is
\* finished when its headers end, with or without a body to follow, and what an
\* earlier response left on the socket is taken for the start of this one.
Received ==
    IF leftover THEN {"stray"}
    ELSE IF framing = "unstated" THEN {"cut", "whole"} ELSE {"whole"}

\* What may still come after that: the body of such a response, and the CRLF
\* after the last chunk, which is finished as soon as its size is read.
Left == IF leftover \/ framing # "length" THEN BOOLEAN ELSE {FALSE}

\* The parser is finished; whether the socket is kept is up to the server.
OnReadFinished(keepAlive) ==
    /\ pc = "read"
    /\ read = "ok"
    /\ CancelTimer
    /\ response' \in Received
    /\ leftover' \in Left
    /\ IF keepAlive THEN read' = "none" /\ UNCHANGED <<socket, closed>>
                    ELSE CloseSocket("none")
    /\ Return(TRUE, "kNoError")
    /\ UNCHANGED <<timed_out, deadline, framing, sized>>

\* More is to come: read on, with the timer cancelled ...
OnReadMore_Returns ==
    /\ pc = "read"
    /\ read = "ok"
    /\ CancelTimer
    /\ response' = "part"
    /\ ~closed
    /\ read' = "none"
    /\ Return(TRUE, "kNoError")
    /\ UNCHANGED <<socket, closed, timed_out, deadline, stream>>

OnReadMore ==
    /\ pc = "read"
    /\ read = "ok"
    /\ CancelTimer
    /\ response' = "part"
    /\ ~closed
    /\ read' = "pending"
    /\ UNCHANGED <<pc, ok, socket, closed, timed_out, error, deadline, stream>>

\* ... unless the deadline closed the socket after the data had come: the
\* handler just returns, and Request finds no error.
OnReadLate ==
    /\ pc = "read"
    /\ read = "ok"
    /\ CancelTimer
    /\ response' = "part"
    /\ closed
    /\ read' = "none"
    /\ Return(TRUE, "kNoError")
    /\ UNCHANGED <<socket, closed, timed_out, deadline, stream>>

-----------------------------------------------------------------------------
OnTimer == OnTimerAborted \/ OnTimerClosed \/ OnTimerExpired \/ OnTimerEarly
OnRead  == OnReadFails \/ OnReadBad \/ OnReadMore \/ OnReadLate \/ OnReadThrows
           \/ \E keepAlive \in BOOLEAN : OnReadFinished(keepAlive)
ConnectStep == ResolveFails \/ ConnectFails \/ Connect
WriteStep   == WriteFails \/ WriteRequest

ClientStep ==
    \/ ConnectStep \/ WriteStep \/ DeadlinePasses \/ ReadCompletes
    \/ OnTimer \/ OnRead

\* Connecting and writing end, time passes, and run_one runs what is ready.
\* The server need not answer.
ClientFairness ==
    /\ WF_clientVars(ConnectStep) /\ WF_clientVars(WriteStep)
    /\ WF_clientVars(DeadlinePasses)
    /\ WF_clientVars(OnTimer) /\ WF_clientVars(OnRead)
=============================================================================
