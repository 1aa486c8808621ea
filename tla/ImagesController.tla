-------------------------- MODULE ImagesController --------------------------
(***************************************************************************)
(* facedetection_webapp/app/controllers/images_controller.rb: create with  *)
(* its call of the detector, one step per effect on the database, the      *)
(* attachments or the temporary files, against destroy on other threads of *)
(* the server.  Any step may raise, which ends the request with an error   *)
(* and undoes nothing.  An image's id is used once.                        *)
(***************************************************************************)
EXTENDS FiniteSets

CONSTANTS
    Ids,
    Given   \* what creates give of the image, of what image_params lets through
            \* beside its name: the face data and both images

ASSUME IdsAssumption == IsFiniteSet(Ids)
ASSUME GivenAssumption == Given \subseteq SUBSET {"info", "original", "face"}

VARIABLES
    pc,       \* of the create of each image: what it does next
    params,   \* its parameters: base64img, and what it gives of the image itself
    told,     \* what its client was told: "nothing", "completed", "error", "invalid"
    rows,     \* images in the database
    info,     \* of each row, its width, height and position: "none", those "given"
              \* with the create, or those of the face "detected"
    att,      \* attachments in the database: pairs of an id and a name
    files,    \* temporary files: pairs of an id and a name
    found,    \* images a destroy has found and not yet destroyed
    purging,  \* attachments that a job will purge
    gone,     \* images whose client was told that they were destroyed
    busy      \* of these, the ones destroyed while their create was running
vars == <<pc, params, told, rows, info, att, files, found, purging, gone, busy>>

stored == <<rows, info, att, files>>
destroying == <<found, purging, gone, busy>>

Steps == {"save", "attach", "request", "faces", "temp", "crop", "attach_face", "delete",
          "update", "respond"}
Of(set, i) == {p \in set : p[1] = i}

Init ==
    /\ pc = [i \in Ids |-> "save"]
    /\ params \in [Ids -> [base64img : {"picture", "blank"}, given : Given]]
    /\ told = [i \in Ids |-> "nothing"]
    /\ rows = {} /\ att = {} /\ files = {}
    /\ info = [i \in Ids |-> "none"]
    /\ found = {} /\ purging = {} /\ gone = {} /\ busy = {}

At(i, step) == pc[i] = step
Goto(i, step) == pc' = [pc EXCEPT ![i] = step] /\ UNCHANGED told
Return(i, what) == pc' = [pc EXCEPT ![i] = "returned"] /\ told' = [told EXCEPT ![i] = what]

\* create: save, with what was given, and the test of base64img.
Save(i) ==
    /\ At(i, "save")
    /\ \/ /\ rows' = rows \cup {i}
          /\ info' = [info EXCEPT ![i] = IF "info" \in params[i].given THEN "given" ELSE "none"]
          /\ att' = att \cup ({i} \X (params[i].given \cap {"original", "face"}))
          /\ Goto(i, IF params[i].base64img = "blank" THEN "respond" ELSE "attach")
       \/ /\ Return(i, "invalid")
          /\ UNCHANGED <<rows, info, att>>
    /\ UNCHANGED <<params, files, destroying>>

\* What update! does; to a row that is gone nothing, without an error.
Detected(i) == IF i \in rows THEN [info EXCEPT ![i] = "detected"] ELSE info

\* face_detection.  Attaching to a row that is gone goes unnoticed; an image that
\* was given is replaced.
Attach(i) ==
    /\ At(i, "attach")
    /\ att' = att \cup {<<i, "original">>}
    /\ Goto(i, "request")
    /\ UNCHANGED <<params, rows, info, files, destroying>>

HttpRequest(i) ==
    /\ At(i, "request")
    /\ Goto(i, "faces")
    /\ UNCHANGED <<params, stored, destroying>>

Faces(i) ==
    /\ At(i, "faces")
    /\ Goto(i, "temp") \/ Goto(i, "respond")
    /\ UNCHANGED <<params, stored, destroying>>

WriteTemp_StoresFirst(i) ==
    /\ At(i, "temp")
    /\ files' = files \cup {<<i, "temp">>}
    /\ info' = Detected(i)
    /\ Goto(i, "crop")
    /\ UNCHANGED <<params, rows, att, destroying>>

WriteTemp(i) ==
    /\ At(i, "temp")
    /\ files' = files \cup {<<i, "temp">>}
    /\ Goto(i, "crop")
    /\ UNCHANGED <<params, rows, info, att, destroying>>

Crop(i) ==
    /\ At(i, "crop")
    /\ files' = files \cup {<<i, "face">>}
    /\ Goto(i, "attach_face")
    /\ UNCHANGED <<params, rows, info, att, destroying>>

AttachFace(i) ==
    /\ At(i, "attach_face")
    /\ att' = att \cup {<<i, "face">>}
    /\ Goto(i, "delete")
    /\ UNCHANGED <<params, rows, info, files, destroying>>

DeleteFaceFile_Not(i) ==
    /\ At(i, "delete")
    /\ Goto(i, "update")
    /\ UNCHANGED <<params, stored, destroying>>

DeleteFaceFile(i) ==
    /\ At(i, "delete")
    /\ files' = files \ {<<i, "face">>}
    /\ Goto(i, "update")
    /\ UNCHANGED <<params, rows, info, att, destroying>>

Update(i) ==
    /\ At(i, "update")
    /\ info' = Detected(i)
    /\ Goto(i, "respond")
    /\ UNCHANGED <<params, rows, att, files, destroying>>

Respond(i) ==
    /\ At(i, "respond")
    /\ Return(i, "completed")
    /\ UNCHANGED <<params, stored, destroying>>

\* Any step raises: also responding, when everything is stored.
Raise(i) ==
    /\ pc[i] \in Steps
    /\ Return(i, "error")
    /\ UNCHANGED <<params, stored, destroying>>

-----------------------------------------------------------------------------
\* set_image of a destroy, and destroy; the attachments found then are purged by
\* a job.  A second destroy of the same image ends the same way.
SetImage(i) ==
    /\ i \in rows
    /\ found' = found \cup {i}
    /\ UNCHANGED <<pc, params, told, stored, purging, gone, busy>>

Destroy_FaceOnly(i) ==
    /\ i \in found
    /\ found' = found \ {i}
    /\ rows' = rows \ {i} /\ info' = [info EXCEPT ![i] = "none"]
    /\ purging' = purging \cup (Of(att, i) \cap {<<i, "face">>})
    /\ gone' = gone \cup {i}
    /\ busy' = IF pc[i] = "returned" THEN busy ELSE busy \cup {i}
    /\ UNCHANGED <<pc, params, told, att, files>>

Destroy(i) ==
    /\ i \in found
    /\ found' = found \ {i}
    /\ rows' = rows \ {i} /\ info' = [info EXCEPT ![i] = "none"]
    /\ purging' = purging \cup Of(att, i)
    /\ gone' = gone \cup {i}
    /\ busy' = IF pc[i] = "returned" THEN busy ELSE busy \cup {i}
    /\ UNCHANGED <<pc, params, told, att, files>>

Purge(a) ==
    /\ a \in purging
    /\ purging' = purging \ {a}
    /\ att' = att \ {a}
    /\ UNCHANGED <<pc, params, told, rows, info, files, found, gone, busy>>

CreateStep(i) ==
    \/ Save(i) \/ Attach(i) \/ HttpRequest(i) \/ Faces(i) \/ WriteTemp(i) \/ Crop(i)
    \/ AttachFace(i) \/ DeleteFaceFile(i) \/ Update(i) \/ Respond(i)

Next ==
    \/ \E i \in Ids : CreateStep(i) \/ Raise(i) \/ SetImage(i) \/ Destroy(i)
    \/ \E a \in purging : Purge(a)

\* Threads run on, and the application runs its jobs.
Spec ==
    /\ Init /\ [][Next]_vars
    /\ \A i \in Ids : WF_vars(CreateStep(i)) /\ WF_vars(Destroy(i))
    /\ WF_vars(\E a \in purging : Purge(a))

-----------------------------------------------------------------------------
\* Data of a detected face is only of images that are there, with both their
\* original and their face image; and when a client was told that detection
\* completed, an image that is still there has such data exactly if a face was
\* found, for which a temporary file was written: no failure or destroy in
\* between leaves a completed create with half of its result (face_detection).
InfoIsWhole ==
    \A i \in Ids :
        /\ info[i] = "detected" =>
               i \in rows /\ <<i, "original">> \in att /\ <<i, "face">> \in att
        /\ told[i] = "completed" /\ i \in rows =>
               (info[i] = "detected" <=> <<i, "temp">> \in files)

\* When a client was told that detection completed, the cropped file is not left
\* behind, whoever destroyed the image meanwhile (face_detection).
NoFaceFileLeft ==
    \A i \in Ids : told[i] = "completed" => <<i, "face">> \notin files

\* An image that was destroyed after its create had returned loses all its
\* attachments.
PurgedEventually ==
    \A i \in Ids : (i \in gone \ busy) ~> (Of(att, i) = {})
=============================================================================
