------------------------- MODULE FaceServiceProofs --------------------------
(***************************************************************************)
(* Proofs about FaceService, for any finite number of workers and any ids  *)
(* and pictures.                                                           *)
(***************************************************************************)
EXTENDS FaceService, TLAPS

-----------------------------------------------------------------------------
\* What is known of a request, by its method.
LEMMA RequestFacts ==
    ASSUME NEW r \in Requests
    PROVE  /\ r.method \in {"GET", "PUT", "POST"} /\ r.body \in Bodies
           /\ r.method # "POST" => r.body = EmptyBody
<1>1. EmptyBody \in Bodies
    BY DEF Bodies
<1>2. QED
    BY <1>1 DEF Requests

\* What is known of a body that is not empty.
LEMMA BodyFacts ==
    ASSUME NEW b \in Bodies
    PROVE  /\ b.faceId \in Ids \cup {NoId, Unconvertible}
           /\ b # EmptyBody => b.json \in {"null", "other", "object"}
           /\ EmptyBody.json = "empty body"
<1>1. EmptyBody.json = "empty body" /\ EmptyBody.faceId = NoId
    BY DEF Body, EmptyBody
<1>2. CASE b = EmptyBody
    BY <1>1, <1>2
<1>3. ASSUME NEW t \in {"null", "other"}, NEW v \in BOOLEAN, b = Body(t, v, NoId, NoPicture)
      PROVE  b.faceId = NoId /\ b.json = t
    BY <1>3 DEF Body
<1>4. ASSUME NEW i \in Ids \cup {NoId, Unconvertible}, NEW v \in BOOLEAN, NEW p,
             b = Body("object", v, i, p)
      PROVE  b.faceId = i /\ b.json = "object"
    BY <1>4 DEF Body
<1> DEFINE Plain == {Body(t, v, NoId, NoPicture) : t \in {"null", "other"}, v \in BOOLEAN}
<1> DEFINE Objects ==
        {Body("object", v, i, p) : v \in BOOLEAN, i \in Ids \cup {NoId, Unconvertible},
             p \in Pictures \cup {NoPicture, Unconvertible, Undecodable, NoBytes}}
<1>5. CASE b \in Plain
    <2>1. PICK t \in {"null", "other"}, v \in BOOLEAN : b = Body(t, v, NoId, NoPicture)
        BY <1>5
    <2>2. QED
        BY <1>1, <1>3, <2>1
<1>6. CASE b \in Objects
    <2>1. PICK v \in BOOLEAN, i \in Ids \cup {NoId, Unconvertible},
               p \in Pictures \cup {NoPicture, Unconvertible, Undecodable, NoBytes} :
              b = Body("object", v, i, p)
        BY <1>6
    <2>2. QED
        BY <1>1, <1>4, <2>1
<1>7. b = EmptyBody \/ b \in Plain \/ b \in Objects
    BY DEF Bodies
<1> HIDE DEF Plain, Objects
<1>8. QED
    BY <1>2, <1>5, <1>6, <1>7

-----------------------------------------------------------------------------
Places == {"idle", "handle", "scan", "detect", "created", "respond", "sent"}
FaceSets == SUBSET (Pictures \cup {Garbage})
Answers == [faceId : Ids \cup {NoId, Unconvertible}, faces : FaceSets]

TypeInv ==
    /\ pc \in [Workers -> Places]
    /\ request \in [Workers -> Requests]
    /\ status \in [Workers -> Nat]
    /\ faces \in [Workers -> FaceSets]
    /\ answer \in [Workers -> Answers]
    /\ disturbed \in [Workers -> BOOLEAN]

\* A worker in or before the classifier has found nothing yet, and is there with
\* a picture of its own.
Scanning(w) ==
    /\ pc[w] \in {"handle", "scan", "detect"} => faces[w] = {}
    /\ pc[w] \in {"scan", "detect"} => body(w).json = "object" /\ body(w).imageData \in Pictures

\* After it the worker has the faces of its picture, unless it was disturbed.
Detected(w) ==
    pc[w] = "created" =>
        body(w).json = "object" /\ (~disturbed[w] => faces[w] = FacesIn(body(w).imageData))

\* A response to a GET has its status, and one to a body that is not empty has
\* its status and its answer.
DecidedGet(w) ==
    pc[w] \in {"respond", "sent"} /\ request[w].method = "GET" => status[w] = 200

Decided(w) ==
    pc[w] \in {"respond", "sent"} /\ body(w) # EmptyBody =>
        /\ \/ body(w).json = "null" /\ status[w] = 400
           \/ body(w).json = "object" /\ status[w] = 201
        /\ body(w).json = "object" =>
               /\ answer[w].faceId = body(w).faceId
               /\ ~disturbed[w] => answer[w].faces = FacesIn(body(w).imageData)

WorkerInv == \A w \in Workers : Scanning(w) /\ Detected(w) /\ Decided(w) /\ DecidedGet(w)

FaceInv == TypeInv /\ WorkerInv

-----------------------------------------------------------------------------
\* Every step of a worker keeps the types.
LEMMA TypeStep == TypeInv /\ [Next]_vars => TypeInv'
<1> SUFFICES ASSUME TypeInv, [Next]_vars PROVE TypeInv'
    OBVIOUS
<1> USE DEF TypeInv
<1>1. ASSUME NEW w \in Workers, NEW r \in Requests, Take(w, r) PROVE TypeInv'
    <2>1. NoAnswer \in Answers /\ {} \in FaceSets /\ Unset \in Nat
        BY DEF NoAnswer, Answers, FaceSets, Unset
    <2>2. QED
        BY <1>1, <2>1 DEF Take, Goto, Places
<1>2. ASSUME NEW w \in Workers,
             HandleNothing(w) \/ Get(w) \/ PostNull(w) \/ PostThrows(w) \/ PostImage(w)
      PROVE  TypeInv'
    BY <1>2 DEF HandleNothing, Get, PostNull, PostThrows, PostImage, Goto, Places
<1>3. ASSUME NEW w \in Workers, DetectBegin(w) \/ DetectCrashes(w) PROVE TypeInv'
    BY <1>3 DEF DetectBegin, DetectCrashes, Goto, Places
<1>4. ASSUME NEW w \in Workers, DetectEnd(w) PROVE TypeInv'
    <2>1. PICK found \in {FacesIn(body(w).imageData), {}, {Garbage}} :
              faces' = [faces EXCEPT ![w] = @ \cup found]
        BY <1>4 DEF DetectEnd
    <2>2. found \in FaceSets /\ faces[w] \in FaceSets
        BY <2>1 DEF FacesIn, FaceSets
    <2>3. faces[w] \cup found \in FaceSets
        BY <2>2 DEF FaceSets
    <2>4. QED
        BY <1>4, <2>1, <2>3 DEF DetectEnd, Goto, Places
<1>5. ASSUME NEW w \in Workers, PostCreated(w) PROVE TypeInv'
    <2>1. request[w] \in Requests /\ faces[w] \in FaceSets
        OBVIOUS
    <2>2. [faceId |-> body(w).faceId, faces |-> faces[w]] \in Answers
        BY <2>1, RequestFacts, BodyFacts DEF Answers, body
    <2>3. QED
        BY <1>5, <2>2 DEF PostCreated, Goto, Places
<1>6. ASSUME NEW w \in Workers, Respond(w) PROVE TypeInv'
    <2>1. PICK line \in (IF status[w] = Unset THEN Statuses ELSE {status[w]}) :
              status' = [status EXCEPT ![w] = line]
        BY <1>6 DEF Respond
    <2>2. line \in Nat
        BY <2>1 DEF Statuses
    <2>3. QED
        BY <1>6, <2>1, <2>2 DEF Respond, Goto, Places
<1>7. CASE UNCHANGED vars
    BY <1>7 DEF vars
<1>8. QED
    BY <1>1, <1>2, <1>3, <1>4, <1>5, <1>6, <1>7 DEF Next, Step

\* A step of one worker leaves the others where they are, but it may disturb
\* those that are in the classifier.
LEMMA OthersStay ==
    ASSUME TypeInv, NEW w \in Workers, Step(w) \/ \E r \in Requests : Take(w, r)
    PROVE  \A v \in Workers \ {w} :
               /\ pc'[v] = pc[v] /\ request'[v] = request[v] /\ status'[v] = status[v]
               /\ faces'[v] = faces[v] /\ answer'[v] = answer[v]
               /\ pc[v] = "detect" \/ disturbed'[v] = disturbed[v]
<1> TAKE v \in Workers \ {w}
<1> USE DEF TypeInv, Goto
<1>1. CASE \E r \in Requests : Take(w, r)
    BY <1>1 DEF Take
<1>2. CASE HandleNothing(w) \/ Get(w) \/ PostNull(w) \/ PostThrows(w) \/ PostImage(w)
    BY <1>2 DEF HandleNothing, Get, PostNull, PostThrows, PostImage
<1>3. CASE DetectBegin(w)
    BY <1>3 DEF DetectBegin
<1>4. CASE DetectEnd(w) \/ DetectCrashes(w)
    BY <1>4 DEF DetectEnd, DetectCrashes
<1>5. CASE PostCreated(w) \/ Respond(w)
    BY <1>5 DEF PostCreated, Respond
<1>6. QED
    BY <1>1, <1>2, <1>3, <1>4, <1>5 DEF Step

\* A step of one worker keeps what is known of it, and of the others.
LEMMA WorkerStep ==
    ASSUME FaceInv, NEW w \in Workers, Step(w) \/ \E r \in Requests : Take(w, r)
    PROVE  Scanning(w)' /\ Detected(w)' /\ Decided(w)'
<1>a. TypeInv /\ Scanning(w) /\ Detected(w) /\ Decided(w)
    BY DEF FaceInv, WorkerInv
<1>b. /\ request[w].method \in {"GET", "PUT", "POST"} /\ body(w) \in Bodies
      /\ request[w].method # "POST" => body(w) = EmptyBody
    BY <1>a, RequestFacts DEF TypeInv, body
<1>c. (body(w) # EmptyBody => body(w).json \in {"null", "other", "object"}) /\ EmptyBody.json = "empty body"
    BY <1>b, BodyFacts
<1>1. ASSUME NEW r \in Requests, Take(w, r) PROVE Scanning(w)' /\ Detected(w)' /\ Decided(w)'
    <2>1. pc'[w] = "handle" /\ faces'[w] = {}
        BY <1>1, <1>a DEF Take, Goto, TypeInv
    <2>2. QED
        BY <2>1 DEF Scanning, Detected, Decided
<1>2. CASE HandleNothing(w) \/ Get(w)
    <2>1. pc'[w] = "respond" /\ request' = request /\ body(w) = EmptyBody
        BY <1>2, <1>a, <1>b DEF HandleNothing, Get, Goto, TypeInv
    <2>2. QED
        BY <2>1 DEF Scanning, Detected, Decided, body
<1>3. CASE PostNull(w)
    <2>1. pc'[w] = "respond" /\ request' = request /\ body(w).json = "null" /\ status'[w] = 400
        BY <1>3, <1>a DEF PostNull, Goto, TypeInv
    <2>2. QED
        BY <2>1 DEF Scanning, Detected, Decided, body
<1>4. CASE PostThrows(w) \/ DetectCrashes(w)
    BY <1>4, <1>a DEF PostThrows, DetectCrashes, Scanning, Detected, Decided, body
<1>5. CASE PostImage(w)
    <2>1. /\ pc'[w] = IF body(w).imageData \in Pictures THEN "scan" ELSE "created"
          /\ request' = request /\ faces' = faces
          /\ body(w).json = "object" /\ pc[w] = "handle"
        BY <1>5, <1>a DEF PostImage, Post, At, Goto, TypeInv
    <2>2. faces[w] = {}
        BY <2>1, <1>a DEF Scanning
    <2>3. QED
        BY <2>1, <2>2 DEF Scanning, Detected, Decided, FacesIn, body
<1>6. CASE DetectBegin(w)
    <2>1. /\ pc[w] = "scan" /\ pc'[w] = "detect" /\ request' = request /\ faces' = faces
        BY <1>6, <1>a DEF DetectBegin, At, Goto, TypeInv
    <2>2. QED
        BY <2>1, <1>a DEF Scanning, Detected, Decided, body
<1>7. CASE DetectEnd(w)
    <2>1. /\ pc[w] = "detect" /\ pc'[w] = "created" /\ request' = request
          /\ disturbed' = disturbed
        BY <1>7, <1>a DEF DetectEnd, At, Goto, TypeInv
    <2>2. ~disturbed[w] => faces'[w] = faces[w] \cup FacesIn(body(w).imageData)
        BY <1>7, <1>a DEF DetectEnd, TypeInv
    <2>3. QED
        BY <2>1, <2>2, <1>a DEF Scanning, Detected, Decided, body
<1>8. CASE PostCreated(w)
    <2>1. /\ pc[w] = "created" /\ pc'[w] = "respond" /\ request' = request
          /\ disturbed' = disturbed /\ status'[w] = 201
          /\ answer'[w] = [faceId |-> body(w).faceId, faces |-> faces[w]]
        BY <1>8, <1>a DEF PostCreated, At, Goto, TypeInv
    <2>2. QED
        BY <2>1, <1>a DEF Scanning, Detected, Decided, body
<1>9. CASE Respond(w)
    <2>1. /\ pc[w] = "respond" /\ pc'[w] = "sent" /\ request' = request
          /\ answer' = answer /\ disturbed' = disturbed
          /\ status[w] # Unset => status'[w] = status[w]
        BY <1>9, <1>a DEF Respond, At, Goto, TypeInv
    <2>2. body(w) # EmptyBody => status[w] # Unset
        BY <2>1, <1>a DEF Decided, Unset
    <2>3. QED
        BY <2>1, <2>2, <1>a DEF Scanning, Detected, Decided, body
<1>10. QED
    BY <1>1, <1>2, <1>3, <1>4, <1>5, <1>6, <1>7, <1>8, <1>9 DEF Step

\* A step of a worker keeps the status of a GET, whatever comes before it.
LEMMA GetStep ==
    ASSUME FaceInv, NEW w \in Workers, Step(w) \/ \E r \in Requests : Take(w, r)
    PROVE  DecidedGet(w)'
<1>a. TypeInv /\ DecidedGet(w) /\ Detected(w)
    BY DEF FaceInv, WorkerInv
<1>b. /\ request[w].method \in {"GET", "PUT", "POST"} /\ body(w) \in Bodies
      /\ request[w].method # "POST" => body(w) = EmptyBody
    BY <1>a, RequestFacts DEF TypeInv, body
<1>1. EmptyBody.json = "empty body"
    BY <1>b, BodyFacts
<1>2. SUFFICES ASSUME pc'[w] \in {"respond", "sent"}, request'[w].method = "GET"
               PROVE  status'[w] = 200
    BY DEF DecidedGet
<1>3. CASE Get(w)
    BY <1>a, <1>3 DEF Get, TypeInv
<1>4. CASE Respond(w)
    <2>1. status[w] = 200
        BY <1>a, <1>2, <1>4 DEF Respond, At, DecidedGet
    <2>2. status' = [status EXCEPT ![w] = 200]
        BY <1>4, <2>1 DEF Respond, Unset
    <2>3. QED
        BY <1>a, <1>4, <2>1, <2>2 DEF TypeInv
<1>5. ASSUME NEW r \in Requests, Take(w, r) PROVE FALSE
    BY <1>a, <1>2, <1>5 DEF Take, Goto, TypeInv
<1>6. CASE HandleNothing(w)
    BY <1>2, <1>6, <1>b DEF HandleNothing
<1>7. CASE PostNull(w)
    BY <1>2, <1>7 DEF PostNull, Post
<1>8. CASE PostThrows(w) \/ DetectCrashes(w)
    BY <1>a, <1>2, <1>8 DEF PostThrows, DetectCrashes, DecidedGet
<1>9. CASE PostImage(w) \/ DetectBegin(w) \/ DetectEnd(w)
    BY <1>a, <1>2, <1>9 DEF PostImage, DetectBegin, DetectEnd, Goto, TypeInv
<1>10. CASE PostCreated(w)
    <2>1. body(w).json = "object" /\ request' = request
        BY <1>10, <1>a DEF PostCreated, At, Detected
    <2>2. QED
        BY <1>1, <1>2, <2>1, <1>b
<1>11. QED
    BY <1>3, <1>4, <1>5, <1>6, <1>7, <1>8, <1>9, <1>10 DEF Step

\* Every step keeps the invariant.
LEMMA FaceInvStep == FaceInv /\ [Next]_vars => FaceInv'
<1> SUFFICES ASSUME FaceInv, [Next]_vars PROVE FaceInv'
    OBVIOUS
<1>1. TypeInv' /\ TypeInv /\ WorkerInv
    BY TypeStep DEF FaceInv
<1>2. CASE UNCHANGED vars
    BY <1>2, <1>1 DEF vars, FaceInv, WorkerInv, Scanning, Detected, Decided, DecidedGet, body
<1>3. ASSUME NEW w \in Workers, Step(w) \/ \E r \in Requests : Take(w, r) PROVE FaceInv'
    <2>1. Scanning(w)' /\ Detected(w)' /\ Decided(w)' /\ DecidedGet(w)'
        BY <1>3, WorkerStep, GetStep
    <2>2. ASSUME NEW v \in Workers \ {w}
          PROVE  Scanning(v)' /\ Detected(v)' /\ Decided(v)' /\ DecidedGet(v)'
        BY <1>1, <1>3, OthersStay DEF WorkerInv, Scanning, Detected, Decided, DecidedGet, body
    <2>3. QED
        BY <1>1, <2>1, <2>2 DEF FaceInv, WorkerInv
<1>4. QED
    BY <1>2, <1>3 DEF Next

\* It holds before the first request.
LEMMA FaceInvInit == Init => FaceInv
<1> SUFFICES ASSUME Init PROVE FaceInv
    OBVIOUS
<1>1. [method |-> "GET", body |-> EmptyBody] \in Requests
    BY DEF Requests
<1>2. NoAnswer \in Answers /\ {} \in FaceSets /\ Unset \in Nat
    BY DEF NoAnswer, Answers, FaceSets, Unset
<1>3. TypeInv
    BY <1>1, <1>2 DEF Init, TypeInv, Places
<1>4. QED
    BY <1>3 DEF Init, FaceInv, WorkerInv, Scanning, Detected, Decided, DecidedGet

\* A worker that was alone in the classifier answers with its own id and the
\* faces of its own picture.
THEOREM AnswerSafe == Spec => []AnswerIsOwn
<1>1. FaceInv => AnswerIsOwn
    <2> SUFFICES ASSUME FaceInv, NEW w \in Workers, pc[w] = "sent", status[w] = 201,
                        body(w).json = "object", ~disturbed[w]
                 PROVE  /\ answer[w].faceId = body(w).faceId
                        /\ answer[w].faces = FacesIn(body(w).imageData)
        BY DEF AnswerIsOwn
    <2>1. body(w) # EmptyBody
        <3>1. EmptyBody.json = "empty body"
            BY DEF EmptyBody, Body
        <3>2. QED
            BY <3>1
    <2>2. QED
        BY <2>1 DEF FaceInv, WorkerInv, Decided
<1>2. QED
    BY <1>1, FaceInvInit, FaceInvStep, PTL DEF Spec

\* Every GET and every POST with a body is answered with the status the service
\* set for it.
THEOREM StatusSafe == Spec => []StatusDecided
<1>1. FaceInv => StatusDecided
    BY DEF FaceInv, WorkerInv, Decided, DecidedGet, StatusDecided
<1>2. QED
    BY <1>1, FaceInvInit, FaceInvStep, PTL DEF Spec
=============================================================================
