----------------------------- MODULE WebServer ------------------------------
(***************************************************************************)
(* The server of the face detection service: webcc's Server, Connection,   *)
(* ConnectionPool and RequestHandler (webcc/server.cc, connection.cc,      *)
(* connection_pool.cc, request_handler.cc).  The io thread runs completion *)
(* handlers one at a time; the worker threads pop connections from the     *)
(* queue, handle their requests and start the writes of the responses.     *)
(*                                                                         *)
(* The queue is used as BlockingFifo describes it (MessageQueue implements *)
(* it).  What a request says is not modelled, only how its parsing and its *)
(* handling end and whether it asks for the connection to be kept.         *)
(***************************************************************************)
EXTENDS Naturals, Sequences, FiniteSets

CONSTANTS Conns,      \* Connection objects; at most this many live at once
          Workers,    \* the worker threads
          Null        \* ConnectionPtr(): the message that stops a worker

ASSUME WorkersFinite == IsFiniteSet(Workers) /\ Workers # {}
ASSUME NullIsNoConn == Null \notin Conns

VARIABLES
    proc,          \* the process: "new", then "built" by Server's constructor,
                   \* "running" in Server::Run, "spinning" when the io thread
                   \* never leaves the parser, "returned" or "terminated"
    acceptor,      \* acceptor_: "closed", "opened" but not listening, "listening"
    accept,        \* the asynchronous accept
    sig,           \* the stop signal: "quiet", "raised" or "handled"
    stopping,      \* where the signal handler is in stopping the server
    connections,   \* ConnectionPool::connections_
    open,          \* the connections whose socket_ is open
    ops,           \* asynchronous reads and writes: <<connection, kind, result>>
    keep,          \* request_->IsConnectionKeepAlive() of each connection
    response,      \* the Connection header of each response_
    queue,         \* RequestHandler::queue_
    wpc,           \* where each worker is in WorkerRoutine
    wconn          \* the connection each worker popped last

serverVars == <<proc, acceptor, accept, sig, stopping>>
poolVars   == <<connections, open>>
msgVars    == <<keep, response>>
workerVars == <<wpc, wconn>>
vars == <<serverVars, poolVars, ops, msgVars, queue, workerVars>>

Results == {"ok", "error", "aborted"}
Ops == Conns \X {"read", "write"} \X ({"pending"} \cup Results)
Headers == {"none", "Keep-Alive", "Close"}

TypeOK ==
    /\ proc \in {"new", "built", "running", "spinning", "returned", "terminated"}
    /\ acceptor \in {"closed", "opened", "listening"}
    /\ accept \in {"none", "pending"} \cup Results
    /\ sig \in {"quiet", "raised", "handled"}
    /\ stopping \in {"no", "clear", "push", "join", "closeall", "done"}
    /\ connections \subseteq Conns
    /\ open \subseteq Conns
    /\ ops \subseteq Ops
    /\ keep \in [Conns -> BOOLEAN]
    /\ response \in [Conns -> Headers]
    /\ queue \in Seq(Conns \cup {Null})
    /\ wpc \in [Workers -> {"unstarted", "pop", "handle", "write", "relay", "done"}]
    /\ wconn \in [Workers -> Conns \cup {Null}]

Init ==
    /\ proc = "new"
    /\ acceptor = "closed"
    /\ accept = "none"
    /\ sig = "quiet"
    /\ stopping = "no"
    /\ connections = {}
    /\ open = {}
    /\ ops = {}
    /\ keep = [c \in Conns |-> TRUE]
    /\ response = [c \in Conns |-> "none"]
    /\ queue = <<>>
    /\ wpc = [w \in Workers |-> "unstarted"]
    /\ wconn = [w \in Workers |-> Null]

-----------------------------------------------------------------------------
\* Asio, as the server uses it.

\* An operation on a closed socket fails at once.
Started(c, kind) == <<c, kind, IF c \in open THEN "pending" ELSE "error">>

\* Closing the sockets of C cancels their pending operations; the results of
\* operations that completed before stay as they are.
Cancelled(C, operations) ==
    {IF o[1] \in C /\ o[3] = "pending" THEN <<o[1], o[2], "aborted">> ELSE o :
        o \in operations}

\* The io thread is in io_context_.run() and not inside the signal handler.
IoFree == proc = "running" /\ stopping \in {"no", "done"}

\* The workers run as long as the process does.
WorkersRun == proc \in {"running", "spinning"}

InQueue(c) == \E i \in 1..Len(queue) : queue[i] = c
HasOp(c)   == \E o \in ops : o[1] = c
Writing(c) == \E o \in ops : o[1] = c /\ o[2] = "write"
Holders(c) == {w \in Workers : wconn[w] = c /\ wpc[w] \in {"handle", "write"}}

\* No shared_ptr to the connection is left.
Free(c) == c \notin connections /\ ~HasOp(c) /\ ~InQueue(c) /\ Holders(c) = {}

-----------------------------------------------------------------------------
\* Server: construction and start.

\* Server::Server.  A failed open leaves the acceptor closed; after a failed
\* bind or listen the constructor returns and leaves it open.
Construct ==
    /\ proc = "new"
    /\ proc' = "built"
    /\ acceptor' \in {"closed", "opened", "listening"}
    /\ UNCHANGED <<accept, sig, stopping, poolVars, ops, msgVars, queue, workerVars>>

\* acceptor_.set_option takes no error code: a failure is an exception, and
\* main ends.
ConstructThrows ==
    /\ proc = "new"
    /\ proc' = "terminated"
    /\ UNCHANGED <<acceptor, accept, sig, stopping, poolVars, ops, msgVars, queue, workerVars>>

\* Server::Run refuses to run only when the acceptor is closed.
RunRefused ==
    /\ proc = "built"
    /\ acceptor = "closed"
    /\ proc' = "returned"
    /\ UNCHANGED <<acceptor, accept, sig, stopping, poolVars, ops, msgVars, queue, workerVars>>

\* DoAwaitStop, DoAccept, RequestHandler::Start, io_context_.run().
Run ==
    /\ proc = "built"
    /\ acceptor # "closed"
    /\ proc' = "running"
    /\ accept' = "pending"
    /\ wpc' = [w \in Workers |-> "pop"]
    /\ UNCHANGED <<acceptor, sig, stopping, poolVars, ops, msgVars, queue, wconn>>

\* The constructor registers the signals; one that comes before Run waits
\* for DoAwaitStop.
RaiseSignal ==
    /\ proc \in {"built", "running", "spinning"}
    /\ sig = "quiet"
    /\ sig' = "raised"
    /\ UNCHANGED <<proc, acceptor, accept, stopping, poolVars, ops, msgVars, queue, workerVars>>

\* io_context_.run() returns when no asynchronous operation is outstanding.
RunReturns ==
    /\ IoFree
    /\ sig = "handled" /\ accept = "none" /\ ops = {}
    /\ proc' = "returned"
    /\ UNCHANGED <<acceptor, accept, sig, stopping, poolVars, ops, msgVars, queue, workerVars>>

-----------------------------------------------------------------------------
\* Server: accepting.

\* A client connects, or accept fails (always, on an acceptor that does not
\* listen).
AcceptCompletes ==
    /\ WorkersRun
    /\ accept = "pending"
    /\ \/ /\ acceptor = "listening"
          /\ \E c \in Conns : Free(c)
          /\ accept' = "ok"
       \/ accept' = "error"
    /\ UNCHANGED <<proc, acceptor, sig, stopping, poolVars, ops, msgVars, queue, workerVars>>

\* The handler runs after the signal handler closed the acceptor.
OnAcceptStopped ==
    /\ IoFree
    /\ accept \in Results
    /\ acceptor = "closed"
    /\ accept' = "none"
    /\ UNCHANGED <<proc, acceptor, sig, stopping, poolVars, ops, msgVars, queue, workerVars>>

OnAcceptError ==
    /\ IoFree
    /\ accept \in {"error", "aborted"}
    /\ acceptor # "closed"
    /\ accept' = "pending"
    /\ UNCHANGED <<proc, acceptor, sig, stopping, poolVars, ops, msgVars, queue, workerVars>>

\* A new Connection, ConnectionPool::Start, Connection::Start, DoAccept.
OnAccept_NotPooled(c) ==
    /\ IoFree
    /\ accept = "ok"
    /\ acceptor # "closed"
    /\ Free(c)
    /\ accept' = "pending"
    /\ open' = open \cup {c}
    /\ ops' = ops \cup {<<c, "read", "pending">>}
    /\ keep' = [keep EXCEPT ![c] = TRUE]
    /\ response' = [response EXCEPT ![c] = "none"]
    /\ UNCHANGED <<proc, acceptor, sig, stopping, connections, queue, workerVars>>

OnAccept(c) ==
    /\ IoFree
    /\ accept = "ok"
    /\ acceptor # "closed"
    /\ Free(c)
    /\ accept' = "pending"
    /\ connections' = connections \cup {c}
    /\ open' = open \cup {c}
    /\ ops' = ops \cup {<<c, "read", "pending">>}
    /\ keep' = [keep EXCEPT ![c] = TRUE]
    /\ response' = [response EXCEPT ![c] = "none"]
    /\ UNCHANGED <<proc, acceptor, sig, stopping, queue, workerVars>>

-----------------------------------------------------------------------------
\* Connection, on the io thread.

\* The peer sends, closes or fails; a write is taken by the network or fails.
OpCompletes(c, kind) ==
    /\ WorkersRun
    /\ <<c, kind, "pending">> \in ops
    /\ \E r \in {"ok", "error"} :
           ops' = (ops \ {<<c, kind, "pending">>}) \cup {<<c, kind, r>>}
    /\ UNCHANGED <<serverVars, poolVars, msgVars, queue, workerVars>>

\* Connection::SendResponse: response_ and its Connection header.
HeaderFor(keepAlive) == IF keepAlive THEN "Keep-Alive" ELSE "Close"

\* ConnectionPool::Close on a connection whose other operations are rest.
PoolClose(c, rest) ==
    /\ connections' = connections \ {c}
    /\ open' = open \ {c}
    /\ ops' = Cancelled({c}, rest)

\* OnRead and OnWrite leave an aborted operation alone: whoever cancelled it
\* has closed the connection.
OnAborted(c, kind) ==
    /\ IoFree
    /\ <<c, kind, "aborted">> \in ops
    /\ ops' = ops \ {<<c, kind, "aborted">>}
    /\ UNCHANGED <<serverVars, poolVars, msgVars, queue, workerVars>>

OnError(c, kind) ==
    /\ IoFree
    /\ <<c, kind, "error">> \in ops
    /\ PoolClose(c, ops \ {<<c, kind, "error">>})
    /\ UNCHANGED <<serverVars, msgVars, queue, workerVars>>

\* The handler of a read that brought data; the parser may by now have seen
\* the request's Connection header.
ReadData(c) ==
    /\ IoFree
    /\ <<c, "read", "ok">> \in ops
    /\ \E k \in BOOLEAN : keep' = [keep EXCEPT ![c] = k]

\* A bad request is answered by the io thread itself.
OnReadBad_AlsoEnqueues(c) ==
    /\ ReadData(c)
    /\ response' = [response EXCEPT ![c] = HeaderFor(keep'[c])]
    /\ ops' = (ops \ {<<c, "read", "ok">>}) \cup {Started(c, "write")}
    /\ queue' = Append(queue, c)
    /\ UNCHANGED <<serverVars, poolVars, workerVars>>

OnReadBad(c) ==
    /\ ReadData(c)
    /\ response' = [response EXCEPT ![c] = HeaderFor(keep'[c])]
    /\ ops' = (ops \ {<<c, "read", "ok">>}) \cup {Started(c, "write")}
    /\ UNCHANGED <<serverVars, poolVars, queue, workerVars>>

OnReadMore(c) ==
    /\ ReadData(c)
    /\ ops' = (ops \ {<<c, "read", "ok">>}) \cup {Started(c, "read")}
    /\ UNCHANGED <<serverVars, poolVars, response, queue, workerVars>>

\* The request is complete: Enqueue, and no read until it is answered.
OnReadFinished_ReadsAhead(c) ==
    /\ ReadData(c)
    /\ ops' = (ops \ {<<c, "read", "ok">>}) \cup {Started(c, "read")}
    /\ queue' = Append(queue, c)
    /\ UNCHANGED <<serverVars, poolVars, response, workerVars>>

OnReadFinished(c) ==
    /\ ReadData(c)
    /\ ops' = ops \ {<<c, "read", "ok">>}
    /\ queue' = Append(queue, c)
    /\ UNCHANGED <<serverVars, poolVars, response, workerVars>>

\* The parser throws: out of io_context_.run() and of main.
ParserThrows(c) ==
    /\ IoFree
    /\ <<c, "read", "ok">> \in ops
    /\ proc' = "terminated"
    /\ UNCHANGED <<acceptor, accept, sig, stopping, poolVars, ops, msgVars, queue, workerVars>>

\* The parser never returns: RequestParser::ParseMultipartContent loops when
\* step_ is still kEnded from an earlier request of the connection.
ParserSpins(c) ==
    /\ IoFree
    /\ <<c, "read", "ok">> \in ops
    /\ response[c] # "none"
    /\ proc' = "spinning"
    /\ UNCHANGED <<acceptor, accept, sig, stopping, poolVars, ops, msgVars, queue, workerVars>>

\* The response was written: Start again with a new request ...
OnWriteKeep(c) ==
    /\ IoFree
    /\ <<c, "write", "ok">> \in ops
    /\ keep[c]
    /\ keep' = [keep EXCEPT ![c] = TRUE]
    /\ ops' = (ops \ {<<c, "write", "ok">>}) \cup {Started(c, "read")}
    /\ UNCHANGED <<serverVars, poolVars, response, queue, workerVars>>

\* ... or Shutdown and close.
OnWriteClose_ShutdownOnly(c) ==
    /\ IoFree
    /\ <<c, "write", "ok">> \in ops
    /\ ~keep[c]
    /\ ops' = ops \ {<<c, "write", "ok">>}
    /\ UNCHANGED <<serverVars, poolVars, msgVars, queue, workerVars>>

OnWriteClose(c) ==
    /\ IoFree
    /\ <<c, "write", "ok">> \in ops
    /\ ~keep[c]
    /\ PoolClose(c, ops \ {<<c, "write", "ok">>})
    /\ UNCHANGED <<serverVars, msgVars, queue, workerVars>>

-----------------------------------------------------------------------------
\* RequestHandler::WorkerRoutine.

\* queue_.PopOrWait(); a null connection means stop.
WorkerPop_NoNullTest(w) ==
    /\ WorkersRun
    /\ wpc[w] = "pop"
    /\ queue # <<>>
    /\ wconn' = [wconn EXCEPT ![w] = Head(queue)]
    /\ queue' = Tail(queue)
    /\ wpc' = [wpc EXCEPT ![w] = "handle"]
    /\ UNCHANGED <<serverVars, poolVars, ops, msgVars>>

WorkerPop(w) ==
    /\ WorkersRun
    /\ wpc[w] = "pop"
    /\ queue # <<>>
    /\ wconn' = [wconn EXCEPT ![w] = Head(queue)]
    /\ queue' = Tail(queue)
    /\ wpc' = [wpc EXCEPT ![w] = IF Head(queue) = Null THEN "relay" ELSE "handle"]
    /\ UNCHANGED <<serverVars, poolVars, ops, msgVars>>

\* HandleConnection up to the DoWrite of its SendResponse.
WorkerHandle_AlwaysKeepAlive(w) ==
    /\ WorkersRun
    /\ wpc[w] = "handle"
    /\ response' = [response EXCEPT ![wconn[w]] = "Keep-Alive"]
    /\ wpc' = [wpc EXCEPT ![w] = "write"]
    /\ UNCHANGED <<serverVars, poolVars, ops, keep, queue, wconn>>

WorkerHandle_NoResponse(w) ==
    /\ WorkersRun
    /\ wpc[w] = "handle"
    /\ wpc' = [wpc EXCEPT ![w] = "pop"]
    /\ UNCHANGED <<serverVars, poolVars, ops, msgVars, queue, wconn>>

WorkerHandle(w) ==
    /\ WorkersRun
    /\ wpc[w] = "handle"
    /\ response' = [response EXCEPT ![wconn[w]] = HeaderFor(keep[wconn[w]])]
    /\ wpc' = [wpc EXCEPT ![w] = "write"]
    /\ UNCHANGED <<serverVars, poolVars, ops, keep, queue, wconn>>

\* HandleConnection throws: nothing catches it in the worker thread.
WorkerThrows(w) ==
    /\ WorkersRun
    /\ wpc[w] = "handle"
    /\ proc' = "terminated"
    /\ UNCHANGED <<acceptor, accept, sig, stopping, poolVars, ops, msgVars, queue, workerVars>>

\* DoWrite, called from the worker thread.
WorkerWrite(w) ==
    /\ WorkersRun
    /\ wpc[w] = "write"
    /\ ops' = ops \cup {Started(wconn[w], "write")}
    /\ wpc' = [wpc EXCEPT ![w] = "pop"]
    /\ UNCHANGED <<serverVars, poolVars, msgVars, queue, wconn>>

\* "For stopping next worker."
WorkerRelay_KeepsNull(w) ==
    /\ WorkersRun
    /\ wpc[w] = "relay"
    /\ wpc' = [wpc EXCEPT ![w] = "done"]
    /\ UNCHANGED <<serverVars, poolVars, ops, msgVars, queue, wconn>>

WorkerRelay(w) ==
    /\ WorkersRun
    /\ wpc[w] = "relay"
    /\ queue' = Append(queue, Null)
    /\ wpc' = [wpc EXCEPT ![w] = "done"]
    /\ UNCHANGED <<serverVars, poolVars, ops, msgVars, wconn>>

-----------------------------------------------------------------------------
\* The signal handler of DoAwaitStop: acceptor_.close(), RequestHandler::Stop
\* (Clear, Push, join), ConnectionPool::CloseAll.  The workers run between
\* its steps, other completion handlers do not.

OnSignal ==
    /\ IoFree
    /\ sig = "raised"
    /\ sig' = "handled"
    /\ acceptor' = "closed"
    /\ accept' = IF accept = "pending" THEN "aborted" ELSE accept
    /\ stopping' = "clear"
    /\ UNCHANGED <<proc, poolVars, ops, msgVars, queue, workerVars>>

StopClear ==
    /\ proc = "running" /\ stopping = "clear"
    /\ queue' = <<>>
    /\ stopping' = "push"
    /\ UNCHANGED <<proc, acceptor, accept, sig, poolVars, ops, msgVars, workerVars>>

StopPush ==
    /\ proc = "running" /\ stopping = "push"
    /\ queue' = Append(queue, Null)
    /\ stopping' = "join"
    /\ UNCHANGED <<proc, acceptor, accept, sig, poolVars, ops, msgVars, workerVars>>

StopJoin_NoJoin ==
    /\ proc = "running" /\ stopping = "join"
    /\ stopping' = "closeall"
    /\ UNCHANGED <<proc, acceptor, accept, sig, poolVars, ops, msgVars, queue, workerVars>>

StopJoin ==
    /\ proc = "running" /\ stopping = "join"
    /\ \A w \in Workers : wpc[w] = "done"
    /\ stopping' = "closeall"
    /\ UNCHANGED <<proc, acceptor, accept, sig, poolVars, ops, msgVars, queue, workerVars>>

\* Cancelling a write between two of its pieces makes the next piece fail on
\* the closed socket: its result is then an error other than "aborted".
CloseAll ==
    /\ proc = "running" /\ stopping = "closeall"
    /\ \E midway \in SUBSET {c \in connections : <<c, "write", "pending">> \in ops} :
           ops' = {IF o[1] \in midway /\ o[3] = "pending"
                   THEN <<o[1], o[2], "error">> ELSE o :
                      o \in Cancelled(connections \ midway, ops)}
    /\ open' = open \ connections
    /\ connections' = {}
    /\ stopping' = "done"
    /\ UNCHANGED <<proc, acceptor, accept, sig, msgVars, queue, workerVars>>

-----------------------------------------------------------------------------
OnReadOk(c) == OnReadBad(c) \/ OnReadMore(c) \/ OnReadFinished(c)
                            \/ ParserThrows(c) \/ ParserSpins(c)
OnWriteOk(c) == OnWriteKeep(c) \/ OnWriteClose(c)
OnFailure(c, kind) == OnAborted(c, kind) \/ OnError(c, kind)

ServerStep ==
    \/ Construct \/ ConstructThrows \/ RunRefused \/ Run \/ RaiseSignal \/ RunReturns
    \/ AcceptCompletes \/ OnAcceptStopped \/ OnAcceptError
    \/ \E c \in Conns : OnAccept(c)

ConnectionStep ==
    \E c \in Conns :
        \/ OnReadOk(c) \/ OnWriteOk(c)
        \/ \E kind \in {"read", "write"} : OpCompletes(c, kind) \/ OnFailure(c, kind)

WorkerStep ==
    \E w \in Workers :
        \/ WorkerPop(w) \/ WorkerHandle(w) \/ WorkerThrows(w) \/ WorkerWrite(w)
        \/ WorkerRelay(w)

StopStep == OnSignal \/ StopClear \/ StopPush \/ StopJoin \/ CloseAll

\* The process has ended, or its io thread goes round in the parser.
Ended == proc \in {"returned", "terminated", "spinning"} /\ UNCHANGED vars

Next == ServerStep \/ ConnectionStep \/ WorkerStep \/ StopStep \/ Ended

Spec == Init /\ [][Next]_vars

\* Asio runs every handler that is ready while io_context_.run() goes on, a
\* thread that can run does, and the queue hands out what is in it
\* (BlockingFifo!FairSpec).  Clients and signals owe nothing.
Fairness ==
    /\ WF_vars(RunRefused \/ Run)
    /\ WF_vars(StopStep)
    /\ WF_vars(RunReturns)
    /\ WF_vars(OnAcceptStopped \/ OnAcceptError \/ \E c \in Conns : OnAccept(c))
    /\ \A c \in Conns :
           /\ WF_vars(OnReadOk(c)) /\ WF_vars(OnWriteOk(c))
           /\ \A kind \in {"read", "write"} : WF_vars(OnFailure(c, kind))
    /\ WF_vars(\E w \in Workers : WorkerPop(w))
    /\ \A w \in Workers :
           /\ WF_vars(WorkerHandle(w) \/ WorkerThrows(w))
           /\ WF_vars(WorkerWrite(w)) /\ WF_vars(WorkerRelay(w))

FairSpec == Spec /\ Fairness

-----------------------------------------------------------------------------
\* A connection has no lock; this is what it relies on instead.  At any time
\* it is with at most one of: one asynchronous operation, one place in the
\* queue, one worker.  So the io thread and a worker never touch its
\* request_, response_ and socket_ at the same time, and no two writes share
\* its socket.
AtMostOneOwner(c) ==
    /\ \A o, p \in ops : o[1] = c /\ p[1] = c => o = p
    /\ \A i, j \in 1..Len(queue) : queue[i] = c /\ queue[j] = c => i = j
    /\ \A v, w \in Holders(c) : v = w
    /\ HasOp(c) => ~InQueue(c) /\ Holders(c) = {}
    /\ InQueue(c) => Holders(c) = {}

OneOwner == \A c \in Conns : AtMostOneOwner(c)

\* No connection is forgotten: one in the pool always has someone who will
\* carry it on, except those that Stop took out of the queue, and they wait
\* for CloseAll (request_handler.cc: "The connections will be closed later").
Attended ==
    \A c \in connections :
        \/ HasOp(c) \/ InQueue(c) \/ Holders(c) # {}
        \/ stopping \in {"push", "join", "closeall"}

\* "The connection pool which owns all live connections" (server.h): the open
\* sockets are exactly those of the pool, so CloseAll misses none.
PoolOwnsLive == connections = open

\* A worker never handles a connection or starts a write on it after its
\* socket was closed: Stop joins the workers before CloseAll.
WorkerSocketOpen ==
    \A w \in Workers : wpc[w] \in {"handle", "write"} => wconn[w] \in open

\* OnWrite asks request_ again whether to keep the connection.  While the
\* response is on its way that answer is the one the response announced.
AnnouncedKept ==
    \A c \in Conns : Writing(c) => response[c] = HeaderFor(keep[c])

\* When Run returns nothing is left behind: no worker is running, no socket
\* is open and no operation could still call back into the server.
DrainedOnReturn ==
    proc = "returned" =>
        /\ connections = {} /\ open = {} /\ ops = {} /\ accept = "none"
        /\ \A w \in Workers : wpc[w] \in {"unstarted", "done"}

\* What each connection is doing, for HttpConnection.
Phase(c) ==
    IF Writing(c) THEN "writing"
    ELSE IF HasOp(c) THEN "reading"
    ELSE IF InQueue(c) THEN "queued"
    ELSE IF Holders(c) # {} THEN "handling"
    ELSE "idle"

Http == INSTANCE HttpConnection WITH phase <- [c \in Conns |-> Phase(c)]

\* Requests of a connection are read, handled and answered strictly one after
\* the other, whatever the threads do.
OneRequestAtATime == Http!Spec

\* A request that reached the queue is answered, unless the server is being
\* stopped or a handler's exception takes the process down.
QueuedIsAnswered ==
    \A c \in Conns :
        InQueue(c) ~> Writing(c) \/ sig # "quiet" \/ proc = "terminated"

\* A signal stops the server: the stop message reaches every worker, join
\* returns and io_context_.run() runs out of work, unless the process
\* terminates or the io thread is caught in the parser.
SignalStops ==
    sig = "raised" /\ proc = "running" ~>
        proc \in {"returned", "terminated", "spinning"}

\* What Run's "Server is NOT going to run." is for: a server whose
\* constructor did not get as far as listening does not run.
RunsOnlyIfListening ==
    proc = "running" /\ sig = "quiet" => acceptor = "listening"
=============================================================================
