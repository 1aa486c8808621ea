------------------------- MODULE ClientSessionProofs ------------------------
(***************************************************************************)
(* Proofs about ClientSession and the HttpClient inside it, for any number *)
(* of requests and any bound on the waits on the timer.                    *)
(***************************************************************************)
EXTENDS ClientSession, TLAPS

-----------------------------------------------------------------------------
\* What the inductive invariant adds to the type invariant and the properties.

\* The waits on the timer are counted together, wherever each of them is.
WaitsBounded == Total(waits) <= WaitBound

\* What Request may rely on where it is: it connects and writes with the flags
\* reset; until it is done there is no error; while it reads only the deadline closes
\* the socket; when it succeeds, the socket is closed or ready to be kept; and no read
\* outlives it.
ClientFlow ==
    /\ pc \in {"connect", "write"} => ~closed /\ ~timed_out
    /\ pc \in {"connect", "write", "read"} => error = "kNoError"
    /\ pc = "read" /\ closed => timed_out
    /\ pc = "read" /\ ~closed => socket = "open"
    /\ pc = "returned" /\ ok /\ ~closed => socket = "open" /\ read = "none"
    /\ pc = "thrown" => read = "none"

\* Responses that state their length leave nothing on the socket.
StreamFlow ==
    /\ sized => ~leftover
    /\ pc = "read" /\ sized => framing = "length"

\* A Send that reuses a client has left it in the pool, and before its request
\* is written, or when the write failed, nothing was delivered.
SessionFlow ==
    /\ sending # "no" => (pooled <=> reuse)
    /\ sending # "no" /\ (pc \in {"connect", "write"} \/ error = "kSocketWriteError")
         => delivered = 0

SessionInv ==
    /\ SessionTypeOK /\ WaitsBounded /\ ClientFlow /\ StreamFlow /\ SessionFlow
    /\ PooledUsable /\ TimeoutIsOwn /\ WrittenOnce /\ CompleteUnlessTimedOut

-----------------------------------------------------------------------------
\* The waits on the timer.

\* Waits that together keep within the bound do so one by one.
LEMMA WaitsTyped ==
    ASSUME NEW ws \in [WaitStates -> Nat], Total(ws) <= WaitBound
    PROVE  ws \in [WaitStates -> 0..WaitBound]
<1>1. \A s \in WaitStates : ws[s] <= WaitBound
    BY WaitBoundNat DEF Total, WaitStates
<1>2. QED
    BY <1>1, WaitBoundNat

\* Cancelling, firing or handling waits moves or removes them, none appears.
LEMMA WaitsMoved ==
    ASSUME NEW ws \in [WaitStates -> Nat]
    PROVE  /\ Total(ws) \in Nat
           /\ Aborted(ws) \in [WaitStates -> Nat] /\ Total(Aborted(ws)) = Total(ws)
           /\ Aborted(ws)["pending"] = 0
BY DEF Aborted, Total, WaitStates

\* Every step moves, adds or drops waits within the bound.
LEMMA WaitsStep ==
    SessionInv /\ [Next]_vars => waits' \in [WaitStates -> 0..WaitBound] /\ WaitsBounded'
<1> SUFFICES ASSUME SessionInv, [Next]_vars
             PROVE  waits' \in [WaitStates -> 0..WaitBound] /\ WaitsBounded'
    OBVIOUS
<1>a. waits \in [WaitStates -> 0..WaitBound] /\ Total(waits) <= WaitBound
    BY DEF SessionInv, SessionTypeOK, TypeOK, WaitsBounded
<1>b. waits \in [WaitStates -> Nat]
    BY <1>a, WaitBoundNat
<1>1. SUFFICES waits' \in [WaitStates -> Nat] /\ Total(waits') <= WaitBound
    BY WaitsTyped DEF WaitsBounded, Total
<1>2. CASE UNCHANGED waits
    BY <1>2, <1>a, <1>b
<1>3. CASE SendNew
    BY <1>3, WaitBoundNat DEF SendNew, Total, WaitStates
<1>4. CASE DeadlinePasses
    BY <1>4, <1>a, <1>b DEF DeadlinePasses, Total, WaitStates
<1>5. CASE WriteRequest
    <2>1. /\ Aborted(waits) \in [WaitStates -> Nat] /\ Total(Aborted(waits)) = Total(waits)
          /\ Aborted(waits)["pending"] = 0 /\ Total(waits) \in Nat
        BY <1>b, WaitsMoved
    <2>2. Total(waits) < WaitBound /\ waits' = [Aborted(waits) EXCEPT !["pending"] = 1]
        BY <1>5 DEF WriteRequest
    <2>3. QED
        BY <2>1, <2>2, WaitBoundNat DEF Total, WaitStates
<1>6. ASSUME NEW s \in WaitStates, waits[s] > 0, waits' = [waits EXCEPT ![s] = waits[s] - 1]
      PROVE  waits' \in [WaitStates -> Nat] /\ Total(waits') <= WaitBound
    <2>1. waits[s] - 1 \in Nat /\ WaitBound \in Nat /\ \A r \in WaitStates : waits[r] \in Nat
        BY <1>6, <1>b, WaitBoundNat
    <2>2. QED
        BY <1>6, <1>a, <1>b, <2>1 DEF Total, WaitStates
<1>7. CASE OnTimerAborted \/ OnTimerClosed \/ OnTimerExpired
    BY <1>6, <1>7 DEF OnTimerAborted, OnTimerClosed, OnTimerExpired, WaitStates
<1>8. CASE OnTimerEarly
    BY <1>8, <1>a, <1>b DEF OnTimerEarly, Total, WaitStates
<1>9. CASE OnRead
    <2>1. waits' = waits \/ waits' = Aborted(waits)
        BY <1>9 DEF OnRead, OnReadFails, OnReadBad, OnReadMore, OnReadLate, OnReadThrows,
                    OnReadFinished, CancelTimer
    <2>2. QED
        BY <2>1, <1>a, <1>b, WaitsMoved
<1>10. CASE ConnectStep \/ WriteFails \/ ReadCompletes
    BY <1>10, <1>2 DEF ConnectStep, ResolveFails, ConnectFails, Connect, WriteFails,
                       ReadCompletes
<1>11. CASE SendReusing \/ SendEnds
    BY <1>11, <1>2 DEF SendReusing, Request, SendEnds, SendAgain, SendFails, SendThrows,
                       SendSucceeds, clientVars
<1>12. CASE UNCHANGED vars
    BY <1>12, <1>2 DEF vars, clientVars
<1>13. QED
    BY <1>3, <1>4, <1>5, <1>7, <1>8, <1>9, <1>10, <1>11, <1>12
       DEF Next, Send, Requesting, RestingInPool, ClientStep, WriteStep, OnTimer

-----------------------------------------------------------------------------
\* The steps of Send.  The client's own steps come in two groups: those before
\* the response is read and those that io_context_.run_one() runs.

\* All parts of the invariant that are not about the waits.
FlowInv ==
    /\ pc \in {"idle", "connect", "write", "read", "returned", "thrown"}
    /\ ok \in BOOLEAN
    /\ socket \in {"none", "open", "closed"}
    /\ closed \in BOOLEAN /\ timer_canceled \in BOOLEAN /\ timed_out \in BOOLEAN
    /\ error \in Errors
    /\ response \in {"empty", "part", "cut", "stray", "whole"}
    /\ read \in {"none", "pending", "ok", "error"}
    /\ deadline \in {"unset", "ahead", "passed"}
    /\ framing \in {"length", "chunked", "unstated"}
    /\ sized \in BOOLEAN /\ leftover \in BOOLEAN
    /\ sending \in {"no", "first", "second"}
    /\ reuse \in BOOLEAN /\ pooled \in BOOLEAN /\ delivered \in {0, 1}
    /\ ClientFlow /\ StreamFlow /\ SessionFlow
    /\ PooledUsable /\ TimeoutIsOwn /\ CompleteUnlessTimedOut

\* The invariant by its two halves.
LEMMA SessionInvParts ==
    SessionInv <=> FlowInv /\ waits \in [WaitStates -> 0..WaitBound] /\ WaitsBounded
BY DEF SessionInv, SessionTypeOK, TypeOK, FlowInv, WrittenOnce

\* Every step of client and session keeps what is not about the waits.
LEMMA FlowStep == FlowInv /\ [Next]_vars => FlowInv'
<1> SUFFICES ASSUME FlowInv, [Next]_vars PROVE FlowInv'
    OBVIOUS
<1> USE DEF FlowInv, ClientFlow, StreamFlow, SessionFlow, PooledUsable, TimeoutIsOwn,
            CompleteUnlessTimedOut, flags, stream, Errors
<1>1. CASE UNCHANGED vars
    BY <1>1 DEF vars, clientVars, sessionVars
<1>2. CASE SendReusing
    BY <1>2 DEF SendReusing, Request
<1>3. CASE SendNew
    BY <1>3 DEF SendNew
<1>4. CASE SendAgain
    BY <1>4 DEF SendAgain, Request
<1>5. CASE SendFails
    <2>1. pooled' = FALSE /\ sending' = "no"
        BY <1>5 DEF SendFails
    <2>2. UNCHANGED <<pc, ok, socket, closed, timer_canceled, timed_out, error, response,
                        read, deadline, reuse, delivered, framing, sized, leftover>>
        BY <1>5 DEF SendFails, clientVars
    <2>3. ClientFlow' /\ StreamFlow' /\ TimeoutIsOwn'
        BY <2>2
    <2>4. SessionFlow' /\ CompleteUnlessTimedOut'
        BY <2>1
    <2>5. PooledUsable'
        BY <2>1, <2>2
    <2>6. pooled' \in BOOLEAN /\ sending' \in {"no", "first", "second"}
        BY <2>1
    <2>7. QED
        BY <2>2, <2>3, <2>4, <2>5, <2>6
<1>6. CASE SendSucceeds
    <2>1. pc = "returned" /\ ok /\ sending' = "no" /\ pooled' = ~closed
        BY <1>6 DEF SendSucceeds
    <2>2. UNCHANGED <<pc, ok, socket, closed, timer_canceled, timed_out, error, response,
                        read, deadline, reuse, delivered, framing, sized, leftover>>
        BY <1>6 DEF SendSucceeds, clientVars
    <2>3. ClientFlow' /\ StreamFlow' /\ TimeoutIsOwn'
        BY <2>2
    <2>4. SessionFlow' /\ CompleteUnlessTimedOut'
        BY <2>1
    <2>5. PooledUsable'
        BY <2>1, <2>2
    <2>6. QED
        BY <2>1, <2>2, <2>3, <2>4, <2>5
<1>7. CASE RestingInPool
    BY <1>7 DEF RestingInPool, DeadlinePasses, sessionVars
<1>8. CASE Requesting
    <2>a. /\ sending # "no" /\ pc \notin {"returned", "thrown"} /\ UNCHANGED <<sending, reuse, pooled>>
          /\ delivered' = IF pc = "write" /\ pc' = "read" THEN delivered + 1 ELSE delivered
        BY <1>8 DEF Requesting
    <2>b. pc' # "read" \/ pc = "read" => delivered' = delivered
        BY <2>a
    <2>1. CASE ConnectStep
        <3>1. CASE ResolveFails \/ ConnectFails
            <4>1. /\ pc' = "returned" /\ ok' = FALSE /\ socket' \in {"none", "closed"}
                  /\ error' \in {"kHostResolveError", "kEndpointConnectError"}
                  /\ closed' \in BOOLEAN
                  /\ UNCHANGED <<timer_canceled, timed_out, response, read, deadline,
                                 framing, sized, leftover>>
                BY <3>1 DEF ResolveFails, ConnectFails, Return
            <4>2. delivered' = delivered
                BY <2>b, <4>1
            <4>3. ClientFlow' /\ StreamFlow' /\ TimeoutIsOwn'
                BY <2>a, <4>1
            <4>4. SessionFlow' /\ PooledUsable' /\ CompleteUnlessTimedOut'
                BY <2>a, <4>1, <4>2
            <4>5. /\ closed' \in BOOLEAN /\ timer_canceled' \in BOOLEAN /\ timed_out' \in BOOLEAN
                  /\ sized' \in BOOLEAN /\ leftover' \in BOOLEAN
                  /\ reuse' \in BOOLEAN /\ pooled' \in BOOLEAN
                BY <2>a, <4>1
            <4>6. error' \in Errors
                BY <4>1
            <4> HIDE DEF ClientFlow, StreamFlow, SessionFlow, PooledUsable, TimeoutIsOwn,
                         CompleteUnlessTimedOut, Errors
            <4>7. QED
                BY <2>a, <4>1, <4>2, <4>3, <4>4, <4>5, <4>6
        <3>2. CASE Connect
            <4>1. /\ pc = "connect" /\ pc' = "write" /\ socket' = "open"
                  /\ sized' = TRUE /\ leftover' = FALSE
                  /\ UNCHANGED <<ok, closed, timer_canceled, timed_out, error, response, read,
                                 deadline, framing>>
                BY <3>2 DEF Connect
            <4>2. delivered' = delivered
                BY <2>b, <4>1
            <4>3. ClientFlow' /\ StreamFlow' /\ TimeoutIsOwn'
                BY <2>a, <4>1
            <4>4. SessionFlow' /\ PooledUsable' /\ CompleteUnlessTimedOut'
                BY <2>a, <4>1, <4>2
            <4>5. /\ closed' \in BOOLEAN /\ timer_canceled' \in BOOLEAN /\ timed_out' \in BOOLEAN
                  /\ sized' \in BOOLEAN /\ leftover' \in BOOLEAN
                  /\ reuse' \in BOOLEAN /\ pooled' \in BOOLEAN
                BY <2>a, <4>1
            <4>6. error' \in Errors
                BY <4>1
            <4> HIDE DEF ClientFlow, StreamFlow, SessionFlow, PooledUsable, TimeoutIsOwn,
                         CompleteUnlessTimedOut, Errors
            <4>7. QED
                BY <2>a, <4>1, <4>2, <4>3, <4>4, <4>5, <4>6
        <3>3. QED
            BY <2>1, <3>1, <3>2 DEF ConnectStep
    <2>2. CASE WriteFails
        BY <2>a, <2>2 DEF WriteFails, CloseSocket, Return
    <2>3. CASE WriteRequest
        <3>1. delivered' = 1
            BY <2>a, <2>3 DEF WriteRequest
        <3>2. framing' \in {"length", "chunked", "unstated"}
            BY <2>3, FramingsAssumption DEF WriteRequest
        <3>3. sized' \in BOOLEAN /\ (sized' => sized /\ framing' = "length")
            BY <2>3 DEF WriteRequest
        <3>4. QED
            BY <2>a, <2>3, <3>1, <3>2, <3>3 DEF WriteRequest
    <2>4. CASE DeadlinePasses \/ ReadCompletes
        BY <2>a, <2>4 DEF DeadlinePasses, ReadCompletes
    <2>5. CASE OnTimerAborted \/ OnTimerClosed \/ OnTimerEarly
        BY <2>a, <2>5 DEF OnTimerAborted, OnTimerClosed, OnTimerEarly
    <2>6. CASE OnTimerExpired
        BY <2>a, <2>6 DEF OnTimerExpired, CloseSocket
    <2>7. CASE OnReadFails \/ OnReadBad
        <3>1. /\ pc' = "returned" /\ ok' = FALSE /\ error' \in {"kSocketReadError", "kHttpError"}
              /\ closed' = TRUE /\ timer_canceled' = TRUE /\ read' = "none"
              /\ socket' \in {"none", "open", "closed"}
              /\ UNCHANGED <<timed_out, response, deadline, framing, sized, leftover>>
            BY <2>7 DEF OnReadFails, OnReadBad, CancelTimer, CloseSocket, Return
        <3>2. QED
            BY <2>a, <2>b, <3>1
    <2>8. CASE OnReadMore
        BY <2>a, <2>8 DEF OnReadMore, CancelTimer
    <2>9. CASE OnReadLate
        BY <2>a, <2>9 DEF OnReadLate, CancelTimer, Return
    <2>10. ASSUME NEW keepAlive \in BOOLEAN, OnReadFinished(keepAlive) PROVE FlowInv'
        <3>1. /\ response' \in {"cut", "stray", "whole"} /\ leftover' \in BOOLEAN
              /\ sized => response' = "whole" /\ ~leftover'
            BY <2>10 DEF OnReadFinished, Received, Left
        <3>2. QED
            BY <2>a, <2>10, <3>1 DEF OnReadFinished, CancelTimer, CloseSocket, Return
    <2>11. CASE OnReadThrows
        BY <2>a, <2>11 DEF OnReadThrows, CancelTimer
    <2>12. QED
        BY <1>8, <2>1, <2>2, <2>3, <2>4, <2>5, <2>6, <2>7, <2>8, <2>9, <2>10, <2>11
           DEF Requesting, ClientStep, WriteStep, OnTimer, OnRead
<1>9. CASE SendThrows
    <2>1. pc = "thrown" /\ sending' = "no" /\ UNCHANGED pooled
        BY <1>9 DEF SendThrows
    <2>2. UNCHANGED <<pc, ok, socket, closed, timer_canceled, timed_out, error, response,
                        read, deadline, reuse, delivered, framing, sized, leftover>>
        BY <1>9 DEF SendThrows, clientVars
    <2>3. ClientFlow' /\ StreamFlow' /\ TimeoutIsOwn'
        BY <2>2
    <2>4. SessionFlow' /\ CompleteUnlessTimedOut' /\ PooledUsable'
        BY <2>1, <2>2
    <2>5. QED
        BY <2>1, <2>2, <2>3, <2>4
<1>10. QED
    BY <1>1, <1>2, <1>3, <1>4, <1>5, <1>6, <1>7, <1>8, <1>9 DEF Next, Send, SendEnds

\* The invariant holds at first and is kept.
LEMMA SessionInvariant == (SessionInit => SessionInv) /\ (SessionInv /\ [Next]_vars => SessionInv')
<1>1. SessionInit => FlowInv
    BY DEF SessionInit, Init, FlowInv, ClientFlow, StreamFlow, SessionFlow, PooledUsable, TimeoutIsOwn,
           CompleteUnlessTimedOut, Errors
<1>2. SessionInit => waits \in [WaitStates -> 0..WaitBound] /\ WaitsBounded
    BY WaitBoundNat DEF SessionInit, Init, WaitsBounded, Total, WaitStates
<1>3. SessionInv /\ [Next]_vars => FlowInv'
    BY FlowStep, SessionInvParts
<1>4. FlowInv' /\ waits' \in [WaitStates -> 0..WaitBound] /\ WaitsBounded' => SessionInv'
    BY DEF SessionInv, SessionTypeOK, TypeOK, FlowInv, WrittenOnce
<1>5. QED
    BY <1>1, <1>2, <1>3, <1>4, WaitsStep, SessionInvParts

-----------------------------------------------------------------------------
\* The client and the session keep their types, and no handler left over from
\* earlier requests is ever lost count of.
THEOREM SessionTypeCorrect == Spec => []SessionTypeOK
<1>1. SessionInv => SessionTypeOK
    BY DEF SessionInv
<1>2. QED
    BY <1>1, SessionInvariant, PTL DEF Spec

\* A client in the pool can be used for the next request, unless its parser threw.
THEOREM PooledSafe == Spec => []PooledUsable
<1>1. SessionInv => PooledUsable
    BY DEF SessionInv
<1>2. QED
    BY <1>1, SessionInvariant, PTL DEF Spec

\* No request is timed out by the deadline of an earlier one.
THEOREM TimeoutSafe == Spec => []TimeoutIsOwn
<1>1. SessionInv => TimeoutIsOwn
    BY DEF SessionInv
<1>2. QED
    BY <1>1, SessionInvariant, PTL DEF Spec

\* A Send never delivers its request twice.
THEOREM WrittenOnceSafe == Spec => []WrittenOnce
<1>1. SessionInv => WrittenOnce
    BY DEF SessionInv
<1>2. QED
    BY <1>1, SessionInvariant, PTL DEF Spec

\* A Send that succeeds without a timeout, over a connection whose responses all
\* stated their length, has the whole of its own response.
THEOREM CompleteSafe == Spec => []CompleteUnlessTimedOut
<1>1. SessionInv => CompleteUnlessTimedOut
    BY DEF SessionInv
<1>2. QED
    BY <1>1, SessionInvariant, PTL DEF Spec
=============================================================================
