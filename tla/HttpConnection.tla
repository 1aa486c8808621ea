--------------------------- MODULE HttpConnection ---------------------------
(***************************************************************************)
(* What the server promises of each connection, without threads, queue or  *)
(* pool: the requests of one connection are taken one at a time, each is   *)
(* handled by one worker or refused, and the next one is read only after   *)
(* the response to the one before was written.  WebServer is shown to      *)
(* implement this specification.                                           *)
(***************************************************************************)
CONSTANT Conns

VARIABLE phase     \* what each connection is doing

Phases == {"idle", "reading", "queued", "handling", "writing"}

Init == phase = [c \in Conns |-> "idle"]

Moves(c, from, to) ==
    /\ phase[c] = from
    /\ phase' = [phase EXCEPT ![c] = to]

Accept(c)        == Moves(c, "idle", "reading")
ReceiveRequest(c) == Moves(c, "reading", "queued")
Refuse(c)        == Moves(c, "reading", "writing")
Handle(c)        == Moves(c, "queued", "handling")
Respond(c)       == Moves(c, "handling", "writing")
NextRequest(c)   == Moves(c, "writing", "reading")

\* The connection ends while it is being read from or written to, never
\* while its request is with a worker.
Hangup(c) == Moves(c, "reading", "idle") \/ Moves(c, "writing", "idle")

\* A stopping server drops the requests that wait for a worker.
DropQueued ==
    phase' = [c \in Conns |-> IF phase[c] = "queued" THEN "idle" ELSE phase[c]]

Next ==
    \/ \E c \in Conns :
        \/ Accept(c) \/ ReceiveRequest(c) \/ Refuse(c) \/ Handle(c)
        \/ Respond(c) \/ NextRequest(c) \/ Hangup(c)
    \/ DropQueued

Spec == Init /\ [][Next]_phase
=============================================================================
