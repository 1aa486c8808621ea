# Verification of the face detection workshop application

The application takes a picture in a Rails web application, posts it to a C++
service that finds faces, and stores what was found in MySQL. The service
(`src/facedetection_va`) carries its own HTTP library, `webcc`, written with
Boost.Asio: this is where the concurrency of the system is, and where the
modelling starts. Paths below are under `src/facedetection_va` unless they
say otherwise.

## 1. Inventory

| Component | State | Operations | What makes it correct |
|---|---|---|---|
| Message queue, `webcc/queue.h` | a list, a mutex, a condition variable | PopOrWait, Pop, Clear, Push | FIFO; nobody sleeps beside a message |
| HTTP server, `webcc/server.cc`, `connection.cc`, `connection_pool.cc`, `request_handler.cc` | acceptor, signal set, pool of connections, outstanding asynchronous operations, request and response of each connection, queue, worker threads | construct, run, accept, read, write, work, stop | a connection is with one thread at a time; none is forgotten; requests are answered in turn; a signal stops everything |
| REST dispatch, `webcc/rest_*.cc` | list of bound services | Bind, GetService, Handle | a path goes to the first URL bound that covers it, with its own sub-matches |
| Face service, `FaceDetectionService.cpp`, `facedetector.cpp` | the cascade classifier shared by the workers | Post, Get | an answer is of its own request; every request is answered or the process ends |
| Incremental parsers, `webcc/parser.cc`, `request_parser.cc`, `response_parser.cc` | pending bytes, lengths, chunk size, multipart step | Init, Parse | the result does not depend on how the bytes were cut into reads, nor on the request before |
| HTTP client, `webcc/client.cc`, `client_session.cc`, `client_pool.cc` | socket, deadline timer, response being parsed, pool of kept clients | Request, Send, OnTimer, Get/Add/Remove | success means a complete response; the deadline ends a request; the pool holds live clients only |
| Messages, URL, base64 | values | parse, format, encode, decode | decoding inverts encoding; lengths at the edges |
| Web application, `src/facedetection_webapp` | image records, attachments, temporary files | index, show, create, destroy | what is stored agrees with what the client was told |
| Deployment, `src/docker-compose.yml` | three containers | start, fail, restart | the application comes up whatever the order |
| Command-line mode, `facedetector.cpp`, `DB.cpp` | none | one run | left out: superseded by the server mode |
| Logger, gzip, jsoncpp, googletest, CI scripts | | | left out: output only, compiled out, or third-party |

How they interact: the web application posts JSON to the server. The io thread
(the one in `io_context_.run()`) accepts, reads and parses; a complete request
makes it push the connection into the queue. A worker pops it, dispatches it
to the service, and starts the asynchronous write of the response itself; the
write's completion handler runs on the io thread again, which reads the next
request or closes. The pool owns the open connections. A signal makes the io
thread close the acceptor, stop and join the workers, and close all
connections, after which it runs out of work.

What is hard: the connection has no lock and moves between threads; handlers
that completed before the stop run after it; the workers stop each other by
passing a null message on; a message can be cut anywhere by the network; the
client's timer races its read. `PROJECT.json` lists these hazards at their
lines, with the properties aimed at them.

## 2. Plan

1. Done: `BlockingFifo`, `MessageQueue` and `WebServer` with `HttpConnection`,
   their runs and the proofs of their safety properties; `HttpClient` with
   `ClientSession`.
2. Done: `HttpMessage` and `HttpParser`, the parser of requests under every way
   to cut the input.
3. Done: `RestDispatch` and `FaceService`.
4. Done: `ClientPool`, with `Key::operator<` as the order of the map, and
   `RequestAssembly`, what a request is made of before `Send`.
5. Done: `ImagesController`.
6. Done: `Base64`, `Urls` with `QueryObject` and `RequestTarget`.
7. Done: `Deployment`.
8. Done, proofs: the safety properties of the queue, the server with its
   refinement of `HttpConnection`, the client and its session, the dispatch, the
   service, the pool, the assembly of requests, queries and targets, the web
   application, the deployment, both base64 codecs, and the types of the parser.
9. Left, proofs: `ParsedAsSent` and `FirstParsedAsSent`, the two invariants that
   are only model-checked.
10. Left, models: a chunked request anywhere in a kept conversation, once the
   parser handles one (see the observations below).

## 3. Modules

**`BlockingFifo`** is what the queue promises: a FIFO list whose pop blocks.

**`MessageQueue`** is `Queue<T>`. Code under the mutex is one step. A thread
can be preempted between the unlock and `notify_one` of `Push` (`"notify"`),
and while it sleeps in `wait` (`"waiting"`); waking, also without a
notification, leads back to the test of the predicate (`"pop"`). The
refinement mapping sends the threads in `"pop"` and `"waiting"` to the ones
inside the abstract pop, so sleeping and waking are invisible.

**`WebServer`** is the server.

| Variable | Code |
|---|---|
| `proc`, `acceptor`, `accept`, `sig`, `stopping` | the life of `Server`; `stopping` is the place inside the signal handler |
| `connections`, `open` | `ConnectionPool::connections_`, and whose `socket_` is open |
| `ops` | asynchronous reads and writes with their results; a handler that has not run yet is an element |
| `keep`, `response` | `request_->IsConnectionKeepAlive()` and the Connection header of `response_` |
| `queue`, `wpc`, `wconn` | `RequestHandler::queue_` and each worker in `WorkerRoutine` |

A completion handler is one action: the io thread runs one at a time, and what
a handler shares with workers at the same time is only the queue, which it
touches last. The signal handler is split where workers can run in between
(clear, push, join, close). `SendResponse` on a worker is split before its
`DoWrite`. Asio's part is external: an operation on a closed socket fails,
closing cancels pending operations and leaves completed ones, and a write cut
short between two pieces may fail instead of being reported aborted. What
parsing and handling may do to the server is kept (refuse, want more, finish,
throw, never return; answer, throw); why they do it is for the parser and
service modules. A connection's identity is used again once no `shared_ptr`
to it is left.

**`HttpConnection`** is the promise per connection: read, queue, handle,
write, and only then read again. `WebServer` maps each connection to the phase
its operation, queue place or worker says.

**`HttpClient`** is `Client`. Connecting and writing block the caller and are
a step each, with their failures. While it reads, the caller runs the
`io_context` one handler at a time: an action per branch of `OnTimer` and of
the read handler. `read` is the outstanding read, `deadline` the timer's
expiry, and `waits` counts the waits on the timer that are pending, that fired
and that were aborted; a fired or aborted wait whose handler has not run stays
in the `io_context` over the end of the request, into the next request of a
kept client. Of the response, `framing` is how the server says where it ends:
with a length, in chunks, or not at all. `finished()` comes with the whole
response only in the first case. A response without Content-Length is finished
when its headers end (`parser.cc:192`), and loses its body; the last chunk is
finished before its CRLF (`parser.cc:233`). What is left then comes later on the
same socket (`leftover`), where it is taken for the start of the next response:
a CRLF for its empty first line and the end of its headers (`parser.cc:95`).
`response` tells a cut and a stray response from a whole one. A read that ends in
the size line of a chunk makes `Parse` throw out of `Request` (`OnReadThrows`,
`parser.cc:238`). A TLS handshake is part of connecting (`SslSocket::Connect`): when
it fails, connecting failed.

**`ClientSession`** is `Send` with the pool, for one server: take the kept
client or a new one, send again on a new connection when the write on the kept
one failed, and put in or take out of the pool at the end. An exception of the
parser passes by the pool (`SendThrows`). A client taken out
of the pool is destroyed, and the next one starts afresh.

**`HttpMessage`** is how requests are written (`Message::Prepare`,
`Request::Prepare`, `FormPart::Prepare`). A message is a sequence of symbols:
CR, LF, dashes and bytes of content are one each, and so is the text of a
header or of the boundary, because the parser only looks at such a text when
its line has ended.

**`HttpParser`** is `Parser` and `RequestParser`, one for a connection, with an
action per iteration of the loops and per branch. `Parse(n)` brings the next
`n` symbols; `Start` is `Connection::Start` for the next request of the same
connection, which resets what `RequestParser::Init` resets. `chunk_size_ + 2`
is computed modulo `SizeMax + 1`. `ResponseParser` differs in its start line
and in what the client does with the outcome, which `HttpClient` has.

**`RestDispatch`** is the list of services: `Bind` (also of an expression that
does not compile) and the way of a request to its service and handler. What a
regular expression matches is a constant.

**`FaceService`** is `Post` and `Get` on two workers. A body is what the code
makes of it: the JSON value the parser leaves, whether the text was valid JSON,
and the fields that are read. A status that was never assigned may be any; two detections at once on the one
classifier may find anything or crash, and `disturbed` says whose result that
is.

**`ClientPool`** is the `std::map` of clients as a search tree of at most two
nodes, with `Send` by what it does to the pool. Two nodes need no rotation and
are enough for a comparison to be wrong; with a third kept client the tree of
libstdc++ may turn, which is left out. `keys` are the servers one session
talks to.

**`RequestAssembly`** is how a request gets its headers and body:
`RequestBuilder`, the session's defaults, `Request::Prepare` and `Headers`. A
request may be sent again, with the session changed in between. Sizes stand for
contents, and the boundary is drawn anew where the code draws one. What is sent is
the headers and the payload behind them, buffer by buffer: the data, or for every
form part a section with its boundary line, and the end line. The loops over
headers and buffers are recursive functions over the number of rounds (`SetEach`,
`SetMissing`, `Size`).

**`Base64`** has both codecs as operators, and a machine that grows every input
up to a bound. The loops over whole groups are the function `Groups`, the rest is
what each codec does after its loop. `Base64Decode` has a string of
`DecodedSize` bytes for `Decode` to write to, and clears what was written behind
its end. The elements of the small arrays that were
not assigned hold `Junk`.

**`Urls`** has percent coding, `UrlQuery` and `Url` as operators on sequences of
character codes; its loops are recursive functions over the place in the text.
`Joined` is the separator of both `ToString` and `AddQuery`: the first pair is not
empty, so the place and the emptiness of the text decide alike.
**`QueryObject`** is a `UrlQuery` under its calls,
**`RequestTarget`** a URL from the caller through `AddQuery`, the start line and
the server's parser to the handler.

**`ImagesController`** is `create` with `face_detection`, one step per effect on
the database, the attachments or the temporary files, each of which may raise,
the response after all of them included. What `image_params` lets a client give
with the image itself (its face data, the original and the face image) is stored
by `save`; attaching an image that was given replaces it, which leaves the pair
of image and name as it is. `info` tells face data that was given from data of a
detected face. All this against `destroy` on other threads and the purge jobs. `index`, `show` and `new`
only read.

**`Deployment`** is `docker-compose.yml`: the order of `depends_on`,
`restart: always`, the command of the web container statement by statement over
the volume of the database, and crashes anywhere. It assumes that `database.yml`
has the host line its comment asks for, and that a container starts without the
`tmp/pids/server.pid` of a killed one.

How the modules meet: `WebServer` takes the outcomes of `Parse` (`HttpParser`)
and of the handler (`RestDispatch`, then `FaceService`) as choices and decides
what they do to the threads, and it uses the queue through `BlockingFifo`, which
`MessageQueue` implements. `ClientSession` composes `HttpClient` and the pool for
one server; `ClientPool` has the pool for several, `RequestAssembly` and
`RequestTarget` what is handed to `Send`. `ImagesController` takes the detector's
answer as a choice, `Deployment` takes each container as up or not.

**`Webcc`** puts `Base64`, `QueryObject`, `RequestTarget`, `RequestAssembly`,
`ClientPool` and `RestDispatch` together, with all their constants as its own.
They are sequential and share no state, so in a behaviour one of them is called
and the others rest: all their states are reached, and no product of them.

The `MC` modules give the constants their values for TLC; `MCWebcc` does it for
`Webcc`. Operators named `Action_Something` are
deliberate faults, used to see that each property can fail; no specification
refers to them.

## 4. Runs

| Run | Instance | Shows |
|---|---|---|
| `message_queue` | 3 threads, 2 messages, lists up to 3 | `NoLostWakeup`, and that the queue implements `BlockingFifo` with its fairness |
| `web_server` | 2 connections, 2 workers | the safety properties of `WebServer`, the refinement of `HttpConnection`, no deadlock before the process ends, `QueuedIsAnswered` and `SignalStops` |
| `client_session` | one server, any number of requests, `WaitBound = 3` | which clients are pooled, that a leftover timer handler harms no later request, one complete write per `Send`, what success means where lengths are stated, and that a silent server cannot hold the caller |
| `parser` | conversations of one to three requests, cut everywhere | `ParsedAsSent` and `RequestEnds` for data and a form in any order; `FirstParsedAsSent` for chunked and malformed requests as well |
| `webcc_parts` | the parts of `Webcc` | codecs against the bits (`EncodesBits`, `DecodesBits`), `ToStringIsRead`, `TargetArrives`, `CallerWins`, `BodyAnnounced`, `ResendIsSame`, `KeptIsFound`, `RoutedAsBound` |
| `face_service` | 2 workers, 2 ids, 1 picture | an undisturbed answer is the request's own; GET and a POST with a body get their statuses, and an unset one is confined to two cases; a request is answered or the process ends |
| `images` | 2 images | data of a detected face only with both images, and for a completed create exactly if a face was found; no cropped file left; attachments purged after a destroy |
| `deployment` | 4 crashes | only a migrated database is served; the system comes up unless a migration was torn or the detector cannot listen |
| `listen_failure` | 1 connection, 1 worker | violated, see below |
| `client_late_read` | as `client_session`, lengths stated | violated, see below |
| `client_stalled_response` | as `client_session`, lengths stated | violated, see below |
| `parser_forms` | two forms on one connection | violated, see below |

Bounds. `QueueBound = 3` lets the list hold a message for each thread. Two
workers are what `main` asks for, and enough for the null message to be passed
on; two connections are enough for one to be with a worker, in the queue or in
an operation while the other is accepted, closed or reused. The proofs below
have neither bound. `WaitBound = 3` allows two leftover waits beside the one of
the current request, so that a fired and an aborted one meet it together; a
request that waits on the network lets older handlers run first, and more
leftovers are more of the same. `Framings` are all three in `client_session`; the
two violations need only responses with a stated length, so that nothing else can
be their cause. `SizeMax = 127` is larger than every message, so
that lengths are ordinary numbers and only `npos` wraps, as with 64 bits. The
contents of requests hold CR, LF and dashes, an empty line and half a boundary;
three requests let a form come between two others. Five bytes are one whole group and every remainder, eight characters two whole
groups and every remainder after one; the bytes have both values
on both sides of every cut, and the two letters are each other's complement. Three parameters, two of them for one key, and the
characters that the syntax treats on its own are enough for `Urls`; two
parameters are added before, between and after two sends. A builder takes two
headers, in any case, so that one can replace the other and a default meets
both, and two form parts, empty or not, so that their order shows; two calls
change the session or build again. Three bindings are two that
overlap and one that fails or comes late. Two images let one be destroyed while
the other is made; `Given` has creates that give nothing, face data without an
image, and images without face data. Four crashes let every container crash once and one of them
again.

Deadlock is checked for the server; a process that returned, was terminated,
or whose io thread is caught in the parser stutters. It is checked for the
client. It is not checked where the system may rest: the queue alone, where all
threads may sleep; a parser whose client has nothing more to send; bounded
inputs; a terminated service; a web application without requests; containers
that run.

Fairness. Every Asio handler that is ready is eventually run, unless the
handlers' thread is inside another one for good, which is a state of its own
(`"spinning"`). A worker that can take a step does, and `HandleConnection`
returns or throws. Of the queue only `BlockingFifo!FairSpec` is used: some
waiting worker gets the message. In `MessageQueue`, a thread awake in
`PopOrWait` or about to notify keeps going. Nothing is assumed of clients,
the network or signals. In the client, connecting and writing end, time passes
and `run_one` runs what is ready; the server need not answer. In the parser, what
was sent arrives, the loops go on, and an answered request is followed by the
next. In `FaceService` and `ImagesController` a thread that can take a step does,
and the application runs its jobs; nothing is assumed of requests or failures. In
`Deployment`, Docker starts what is down, the database gets ready and commands go
on; crashes are bounded and need not happen.

**Findings.** `listen_failure`: `Server::Run` logs "Server is NOT going to
run." and returns if the acceptor is not open. The constructor returns early
when `bind` or `listen` fail, but leaves the acceptor open, so `Run` goes on
without listening, and each accept fails and is started again.

`client_late_read`: `client.h` describes `Request` as "Connect to server, send
request, wait until response is received." Data can arrive just before the
deadline's handler closes the socket. The read handler then runs without an
error, parses a part of the response, sees `closed_` and returns
(`client.cc:207`). `error_` is still `kNoError`, so `Request` returns true with
a partial response. `CompleteUnlessTimedOut` shows that this is the only way while
the responses of a connection state their length; the other two framings have ways
of their own, see the conditions.

`client_stalled_response`: `client.h` says that "a request won't return until
the response is received or timeout occurs". The timer is cancelled by the
first read (`client.cc:170`); a server that stalls in the middle of its
response is waited for without end. `FirstReadBounded` is what the deadline
does guarantee.

`parser_forms`: `RequestParser::Init` does what `Parser::Reset` does ("Reset for
next parse.", `parser.h:32`) and leaves `step_` at `kEnded` after a form. The loop
over the next form has no branch for it and never returns. `RequestEnds` shows
that one form, wherever it comes, does no harm.

**Conditions.** Some properties hold under a condition that the code does not
promise anywhere; each stands in the property, and this is what it leaves out.

- `Usual` in `HttpParser`: a read that ends inside a chunk-size line makes
  `chunk_size_ + 2` wrap, and `Parse` throws (`parser.cc:238`); the CRLF after the
  last chunk is not waited for and becomes the start of the next request
  (`parser.cc:233`). `FirstParsedAsSent` covers chunked requests that get through.
  Not among the conversations: a line of form data with the dashes and the length
  of the last boundary ends the form at the next part (`request_parser.cc:246`),
  and an empty part, which `FormPart::Prepare` writes, is refused.
- `sized` in `CompleteUnlessTimedOut`: a response without Content-Length is
  reported when its headers end, without its body, and what it or the last chunk
  leaves on a kept socket becomes the next response (`parser.cc:192`, `233`).
- `"thrown"` in `PooledUsable`: the exception for a read that ends inside a
  chunk-size line leaves a reused client in the pool in the middle of a response
  (`client.cc:183`, `client_session.cc:181`).
- `RoutedAsBound` is about bindings of different URLs. Of several services bound to
  one URL the code uses the first, where `rest_server.h:28` says "Binding to the
  same URL multiple times is allowed, but only the last one takes effect."; the
  property takes neither side.
- `StatusDecided`: a body that is not valid JSON may leave an object, as one that
  is cut off inside it does; it is then answered with 201 like a whole one
  (`FaceDetectionService.cpp:31`), not with the 400 of the branch commented
  "Invalid JSON" (`FaceDetectionService.cpp:125`). The property allows both.
- `DecodesBits`: `Base64Decode` only for texts of whole groups, which `DecodedSize`
  "requires" (`base64.cc:82`); for others it writes behind the bytes it reserved
  and clears what it wrote there.
- `InfoIsWhole` is about data of detected faces: `image_params` lets a client store
  face data of its own with no face image (`images_controller.rb:59`).
- `Ordered` in `KeptIsFound`: `operator<` puts two servers before each other when
  one has the smaller host and the other the smaller port; the client of one of
  them is kept and not found (`client_pool.h:30`).
- `Plain` and `Separable` in `TargetArrives`: `AddQuery` and `CreateStartLine`
  encode nothing, so a blank, a percent sign, an ampersand or "://" in a value
  changes what the service reads.
- `ResendIsSame`: only for an unchanged session; a request keeps the session's
  headers of its first send when it is sent again (`client_session.cc:32`).
- `busy` in `PurgedEventually`: a create that is still running attaches to the
  destroyed image, and nothing removes those attachments. A create with a blank
  picture reports that detection completed, too.
- `Torn` in `UpUnlessTorn`: after a crash between a table and its version every
  restart fails at the table that is there.

Also met and not modelled: `FormPart` looks file extensions up with their dot in
a map whose keys have none (`common.cc:216`), so a file has no media type;
`temp_image` files are never deleted.

**Not modelled.** TLS, beyond its failures; gzip, which is compiled out; the
logger and `Dump`, which only write; the Date header and status lines of
responses; the command-line mode with `DB.cpp`, a straight line of library calls
that the deployment does not run; the Dockerfiles, the Jenkins pipeline and the
scripts, which hold no state of the running system. jsoncpp, googletest and
lcov_cobertura are third-party code; they are nine tenths of the repository's
lines, and no model of this system would be a model of them.

## 5. Proofs

`MessageQueueProofs`, for any finite set of threads and any messages:
`TypeCorrect`; `WakeupSafe`, by the observation that `NoLostWakeup` is
inductive once the types are known (each step moves one thread, so it changes
two counts by one); `FifoSafe`, step by step.

`WebServerProofs`, for any connections and any finite set of workers. The
inductive invariant is built in layers, each using the ones before:

- `TypeInv`: the types, and that a worker that handles something has a
  connection, not the null message;
- `OneOwner`: inductive with `TypeInv`. Every step either leaves the owners
  alone, renews the one operation of a connection, or hands a connection from
  operation to queue, queue to worker, or worker to operation;
- `Stages`: what the progress of start and stop says of acceptor, workers and
  sockets. It gives `PoolOwnsLive` and `DrainedOnReturn`;
- `OwnersOpen`: until `CloseAll`, an owned connection has an open socket.
  Closing needs an operation on the connection, so by `OneOwner` no worker
  has it; `CloseAll` comes after the join. It gives `WorkerSocketOpen`;
- `Announced`: a response under way, or about to be written by a worker, has
  the header that fits the request.

- `AbortedLeft`: an aborted operation belongs to a connection that is no longer
  in the pool. Without it `Attended` is not inductive: `OnRead` and `OnWrite`
  drop an aborted operation and do nothing else. With `OwnersOpen` it gives
  `AttendedSafe`.

`RequestsInTurn` is the refinement of `HttpConnection`. `OneOwner`, before and
after a step, makes the phase of a connection unambiguous; `PhaseStep` goes
through the actions and shows that each moves one phase as the specification of
a connection allows, or none.

`ClientSessionProofs`, for any `WaitBound`. The invariant has the properties
themselves and four things they rest on: `WaitsBounded`, the waits together keep
to the bound (the types alone bound each kind, and a wait moves between kinds);
`ClientFlow`, what `Request` may rely on at each of its places, among it that
only the deadline closes the socket under a read; `SessionFlow`, a reused client
is still in the pool, and nothing was delivered when a write failed, which is why
the second attempt of `Send` writes the first complete request; `StreamFlow`, on a
socket whose responses all stated their length nothing is left over, and the one
that is read states it, too.

`ImagesControllerProofs`, for any finite set of images and whatever is given of
them. `ImagesInv` has the types and, for each image on its own (`ImageInv`), what
its create has stored at each of its steps: an id is used once (`SavedOnce`), so a purge never
meets a row that is still there, and an image stays attached once it is; data of
a detected face comes with the last step, after the temporary file, and the cropped
file exists only while `create` still has to delete it or because it raised. A
step of one image leaves the parts of all others as they are.

`DeploymentProofs`, for any number of crashes. `MigrationInv`: the statements in
front of the next one have left their mark on the volume, and a recorded version
has its tables; a migration that is skipped on a restart would otherwise hide a
missing table.

`FaceServiceProofs`, for any finite set of workers. `FaceInv` follows a worker
through `Post`: in front of the classifier it has nothing found and a picture of
its own (`Scanning`), after it the faces of that picture unless disturbed
(`Detected`), a response to a body that is not empty has status and answer
(`Decided`), and so has one to GET (`DecidedGet`).

`HttpParserProofs`: the types, for any conversations and any cuts. `TypeOK` says
that the lengths stay within a `size_t`, which needs that what was read are
symbols a client sends (`Data`) and that a header, once parsed, gives a length in
range; `FormStep` says where the multipart loop is and that a part whose headers
were parsed has a name.

`WebccProofs` has the sequential parts; `PartSteps` lets each of them be proved
alone. None of its theorems has the bounds of the run.

- `RoutedSafe`: the items are the bindings that succeeded (`EveryBound`), in the
  order of binding (`InOrder`), and the last request went to the first item that
  matched (`RoutedFirst`), of which the property asks less. `Bind` only appends, so this stays so when more are
  bound.
- `KeptSafe`: `find` never gives a node of another key, whatever `operator<` does;
  while it orders the servers, the tree is a search tree (`Tree`) of exactly the
  kept clients (`Kept`).
- `EncodeSafe`, `DecodeSafe`: for inputs of any length. Neither is an induction:
  the i-th bit is in group `i \div 24`, where the four characters and the three
  bytes hold the same 24 bits (`SameBits`, from a table of single bits). The rest
  after the whole groups counts as a group filled with zeroes: the encoders fill
  with zeroes or leave the zero terms out (`Texts`), and the bytes the decoders
  return do not depend on what was not assigned (`DecodersRead`). `TakenIs` shows
  that both decoders stop where the characters end, as the property says, and
  `DecodedFits` that the bytes of a text of whole groups fit in `DecodedSize`.

- `CallerSafe`, `BodySafe`, `ResendSafe`: for any headers, spellings, sizes, form
  parts and numbers of calls and sends. `AssemblyInv`: no header list has a name
  twice; no Content-Length comes from the session (`NoLength`) and, by
  `AssemblyAssumption`, none from the caller, so that a message without a body
  announces none; the request has the builder's last value of each name, and its
  data or form parts (`RequestBuilt`); what was sent describes its body
  (`WireDescribed`), buffer by buffer (`PayloadIs`, `SizeIs`); and a request that was sent has every default, its host and its
  boundary already (`Settled`), which is why a second send adds nothing.
- `QuerySafe`: for any calls and any keys and values of 8-bit characters.
  `QueryInv`: every key is held once (`OncePerKey`), with the value added first
  (`AsFirstAdded`); with a second entry of a key, `Remove` would uncover it and
  reading back would lose it. The rest are lemmas on `Urls` for texts of any length:
  `RoundTrip`, `Decode` undoes `EncodeQuery`; `SplitIs` and `QueryJoined`, the
  pieces of a joined text are the pieces that were joined.
- `TargetSafe`: for any address, any parameters and any number of sends. `TargetInv`:
  the path is the address's and has no question mark (`PathWhole`); the query
  carries the address's parameters and the added ones (`QueryCarried`); the start
  line is of a path and a query that did so when it was made (`LineBuilt`), whatever
  was added since; and what the service saw was read from that line (`SeenRead`).
  `ParseLine` takes a plain start line apart again.

What the loops compute is proved by induction, in a first-order form: a property of
every number of rounds is a set of numbers that has 0 and with each number the next
one (`EveryNatural`, from the least element of a set of naturals). `Iterated` and
`Backward` show that a function defined round by round, from the front or from the
back, exists; until that is known, nothing follows from its definition.

Assumptions: `ThreadsFinite`, `NoneIsNoMessage`, `WorkersFinite`,
`NullIsNoConn`, `WaitBoundNat`, `FramingsAssumption`, `IdsAssumption`,
`GivenAssumption`, `DeploymentAssumption`,
`FaceAssumption`, `SizeMaxNat`; `ConversationsAssumption`, that a conversation has
a request, requests are sequences of symbols, and a length that was converted is a
number a `size_t` holds; `CodecAssumption`, that bytes are eight bits and letters
six; `PoolAssumption`, that the parts of a server's key can be compared and a
client is not the null pointer; `AssemblyAssumption`, that sizes are numbers and a
caller does not set Content-Length, which is the library's to announce (a request
without a body would send the caller's); `TextAssumption`, that a text is of 8-bit
characters, as `std::string` is. TLC evaluates all of them in the runs.

Only model-checked:

- liveness, which is out of the prover's reach: `QueuedIsAnswered`,
  `SignalStops`, `FirstReadBounded`, `RequestEnds`, `HandledOrDown`,
  `PurgedEventually`, `UpUnlessTorn`, and the fairness part of `ImplementsFifo`;
- `ParsedAsSent` and `FirstParsedAsSent`: they compare the parser with the whole
  request it was sent, symbol by symbol, and would need the invariant that relates
  every place of the loops to a place in the wire of an arbitrary conversation.
