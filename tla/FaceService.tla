---------------------------- MODULE FaceService -----------------------------
(***************************************************************************)
(* FaceDetectionService.cpp behind RestListService::Handle: each worker    *)
(* handles requests for /images; all of them use the one CascadeClassifier *)
(* of the service.  A request body is modelled by what the code makes of   *)
(* it: the JSON value the parser leaves, whether it was satisfied or not,  *)
(* and the two fields that are read.                                       *)
(***************************************************************************)
EXTENDS Naturals, FiniteSets

CONSTANTS Workers,
          Ids,       \* values of faceId
          Pictures   \* decoded pictures

ASSUME FaceAssumption == IsFiniteSet(Workers) /\ Workers # {}

\* A field is absent or null, cannot be converted to a string, or is a string:
\* of imageData one that decodes to a picture, to none, or to no bytes at all.
NoId == "no id"
Unconvertible == "unconvertible"
NoPicture == "no picture"
Undecodable == "undecodable"
NoBytes == "no bytes"

\* What parsing a body leaves (StringToJson), which may be any value also when
\* the body is not valid JSON; only an object has fields.
Body(json, valid, faceId, imageData) ==
    [json |-> json, valid |-> valid, faceId |-> faceId, imageData |-> imageData]
EmptyBody == Body("empty body", FALSE, NoId, NoPicture)
Bodies ==
    {EmptyBody}
        \cup {Body(t, v, NoId, NoPicture) : t \in {"null", "other"}, v \in BOOLEAN}
        \cup {Body("object", v, i, p) : v \in BOOLEAN, i \in Ids \cup {NoId, Unconvertible},
                  p \in Pictures \cup {NoPicture, Unconvertible, Undecodable, NoBytes}}
Requests ==
    {[method |-> "POST", body |-> b] : b \in Bodies}
        \cup {[method |-> m, body |-> EmptyBody] : m \in {"GET", "PUT"}}

\* Status as ToString writes it; of an uninitialised one any may come out.
Statuses == {200, 201, 202, 204, 304, 400, 404, 500, 501, 503}
Unset == 0

\* The faces of a picture; what two workers in the classifier at once find is
\* not defined.
FacesIn(p) == IF p \in Pictures THEN {p} ELSE {}
Garbage == "garbage"

VARIABLES proc,      \* "running" or "terminated"
          pc,        \* of each worker, "idle" before its first request
          request,   \* the request it handles
          status,    \* response->status; once sent, the one in the start line
          faces,     \* vFaces
          answer,    \* response->content: the id and the faces, if any
          disturbed  \* another worker was in the classifier during its detection
vars == <<proc, pc, request, status, faces, answer, disturbed>>

NoAnswer == [faceId |-> NoId, faces |-> {}]

Init ==
    /\ proc = "running"
    /\ pc = [w \in Workers |-> "idle"]
    /\ request = [w \in Workers |-> [method |-> "GET", body |-> EmptyBody]]
    /\ status = [w \in Workers |-> Unset]
    /\ faces = [w \in Workers |-> {}]
    /\ answer = [w \in Workers |-> NoAnswer]
    /\ disturbed = [w \in Workers |-> FALSE]

At(w, place) == proc = "running" /\ pc[w] = place
Goto(w, place) == pc' = [pc EXCEPT ![w] = place]
body(w) == request[w].body

Take_KeepsFaces(w, r) ==
    /\ At(w, "idle") \/ At(w, "sent")
    /\ Goto(w, "handle")
    /\ request' = [request EXCEPT ![w] = r]
    /\ status' = [status EXCEPT ![w] = Unset]
    /\ answer' = [answer EXCEPT ![w] = NoAnswer]
    /\ disturbed' = [disturbed EXCEPT ![w] = FALSE]
    /\ UNCHANGED <<proc, faces>>

\* HandleConnection calls Handle with a new RestResponse.
Take(w, r) ==
    /\ At(w, "idle") \/ At(w, "sent")
    /\ Goto(w, "handle")
    /\ request' = [request EXCEPT ![w] = r]
    /\ status' = [status EXCEPT ![w] = Unset]
    /\ faces' = [faces EXCEPT ![w] = {}]
    /\ answer' = [answer EXCEPT ![w] = NoAnswer]
    /\ disturbed' = [disturbed EXCEPT ![w] = FALSE]
    /\ UNCHANGED proc

\* Handle for a method the service has not, and Post for an empty body.
HandleNothing(w) ==
    /\ At(w, "handle")
    /\ request[w].method \notin {"GET", "POST"} \/ (request[w].method = "POST" /\ body(w) = EmptyBody)
    /\ Goto(w, "respond")
    /\ UNCHANGED <<proc, request, status, faces, answer, disturbed>>

\* FaceDetectionService::Get.
Get(w) ==
    /\ At(w, "handle") /\ request[w].method = "GET"
    /\ status' = [status EXCEPT ![w] = 200]
    /\ Goto(w, "respond")
    /\ UNCHANGED <<proc, request, faces, answer, disturbed>>

\* FaceDetectionService::Post for any other body, up to JsonStringToImage.
Post(w) == At(w, "handle") /\ request[w].method = "POST" /\ body(w) # EmptyBody

PostNull_NoStatus(w) ==
    /\ Post(w) /\ body(w).json = "null"
    /\ Goto(w, "respond")
    /\ UNCHANGED <<proc, request, status, faces, answer, disturbed>>

PostNull(w) ==
    /\ Post(w) /\ body(w).json = "null"
    /\ status' = [status EXCEPT ![w] = 400]
    /\ Goto(w, "respond")
    /\ UNCHANGED <<proc, request, faces, answer, disturbed>>

\* JsonToImage: operator[] wants an object, asString something convertible and
\* imdecode some bytes.  Nothing catches what they throw on a worker's thread.
ImageThrows(b) ==
    \/ b.json = "other"
    \/ b.json = "object" /\ (b.faceId = Unconvertible \/ b.imageData \in {Unconvertible, NoBytes})

PostThrows(w) ==
    /\ Post(w) /\ ImageThrows(body(w))
    /\ proc' = "terminated"
    /\ UNCHANGED <<pc, request, status, faces, answer, disturbed>>

PostImage(w) ==
    /\ Post(w) /\ body(w).json = "object" /\ ~ImageThrows(body(w))
    /\ Goto(w, IF body(w).imageData \in Pictures THEN "scan" ELSE "created")
    /\ UNCHANGED <<proc, request, status, faces, answer, disturbed>>

\* detectMultiScale is entered ...
DetectBegin(w) ==
    LET inside == {v \in Workers : pc[v] = "detect"} IN
    /\ At(w, "scan")
    /\ Goto(w, "detect")
    /\ disturbed' = [v \in Workers |-> IF v = w THEN inside # {}
                                       ELSE disturbed[v] \/ v \in inside]
    /\ UNCHANGED <<proc, request, status, faces, answer>>

\* ... and left; when two workers met in it, with anything, or not at all.
DetectEnd(w) ==
    /\ At(w, "detect")
    /\ \E found \in {FacesIn(body(w).imageData)} \cup (IF disturbed[w] THEN {{}, {Garbage}} ELSE {}) :
           faces' = [faces EXCEPT ![w] = @ \cup found]
    /\ Goto(w, "created")
    /\ UNCHANGED <<proc, request, status, answer, disturbed>>

DetectCrashes(w) ==
    /\ At(w, "detect") /\ disturbed[w]
    /\ proc' = "terminated"
    /\ UNCHANGED <<pc, request, status, faces, answer, disturbed>>

\* The end of Post.
PostCreated(w) ==
    /\ At(w, "created")
    /\ answer' = [answer EXCEPT ![w] = [faceId |-> body(w).faceId, faces |-> faces[w]]]
    /\ status' = [status EXCEPT ![w] = 201]
    /\ Goto(w, "respond")
    /\ UNCHANGED <<proc, request, faces, disturbed>>

Respond_OnlySet(w) ==
    /\ At(w, "respond") /\ status[w] # Unset
    /\ Goto(w, "sent")
    /\ UNCHANGED <<proc, request, status, faces, answer, disturbed>>

\* HandleConnection sends the response; ToString writes 501 for a status it does
\* not know.
Respond(w) ==
    /\ At(w, "respond")
    /\ \E line \in (IF status[w] = Unset THEN Statuses ELSE {status[w]}) :
           status' = [status EXCEPT ![w] = line]
    /\ Goto(w, "sent")
    /\ UNCHANGED <<proc, request, faces, answer, disturbed>>

Step(w) ==
    \/ HandleNothing(w) \/ Get(w)
    \/ PostNull(w) \/ PostThrows(w) \/ PostImage(w)
    \/ DetectBegin(w) \/ DetectEnd(w) \/ DetectCrashes(w)
    \/ PostCreated(w) \/ Respond(w)

Next == \E w \in Workers : Step(w) \/ \E r \in Requests : Take(w, r)

\* A thread that can run does.
Spec == Init /\ [][Next]_vars /\ \A w \in Workers : WF_vars(Step(w))

-----------------------------------------------------------------------------
\* While no other worker was in the classifier during its detection, a POST is
\* answered with its own faceId and exactly the faces of its own picture,
\* whatever the other worker does and whatever this one handled before.
AnswerIsOwn ==
    \A w \in Workers :
        pc[w] = "sent" /\ status[w] = 201 /\ body(w).json = "object" /\ ~disturbed[w] =>
            /\ answer[w].faceId = body(w).faceId
            /\ answer[w].faces = FacesIn(body(w).imageData)

\* A GET is answered with 200, and a POST with a body by one of the two statuses
\* Post sets: 400 when parsing left nothing, 201 for a valid object.  So an
\* uninitialised status is sent for an empty POST and for a method the service
\* has not, and never otherwise.
StatusDecided ==
    \A w \in Workers : pc[w] = "sent" =>
        /\ request[w].method = "GET" => status[w] = 200
        /\ request[w].method = "POST" /\ body(w) # EmptyBody =>
               /\ status[w] \in {201, 400}
               /\ body(w).json = "null" => status[w] = 400
               /\ body(w).json = "object" /\ body(w).valid => status[w] = 201

\* Every request a worker takes is answered, or the process ends.
HandledOrDown ==
    \A w \in Workers : pc[w] = "handle" ~> (pc[w] = "sent" \/ proc = "terminated")
=============================================================================
