----------------------- MODULE ImagesControllerProofs -----------------------
(***************************************************************************)
(* Proofs about ImagesController, for any set of images whose creates and  *)
(* destroys overlap in any way, and whatever the creates give.             *)
(***************************************************************************)
EXTENDS ImagesController, TLAPS

-----------------------------------------------------------------------------
\* The inductive invariant: the types, and what is known of each image.

TypeInv ==
    /\ pc \in [Ids -> Steps \cup {"returned"}]
    /\ told \in [Ids -> {"nothing", "completed", "error", "invalid"}]
    /\ info \in [Ids -> {"none", "given", "detected"}]
    /\ rows \subseteq Ids /\ found \subseteq Ids

\* A client is told something when its create returns, and not before.
ToldOnReturn(i) == pc[i] # "returned" => told[i] = "nothing"

\* An id is used once: what was found or is being purged was saved, and a row
\* whose attachments are being purged is gone for good.
SavedOnce(i) ==
    /\ i \in rows \/ i \in found => pc[i] # "save"
    /\ \A a \in purging : a[1] = i => i \notin rows /\ pc[i] # "save"

\* The images of a row that is still there stay attached from the time that
\* face_detection attached them, and data of a detected face comes only after.
Attached(i) ==
    /\ i \in rows /\ pc[i] \in Steps \ {"save", "attach", "respond"} => <<i, "original">> \in att
    /\ i \in rows /\ pc[i] \in {"delete", "update"} => <<i, "face">> \in att
    /\ info[i] = "detected" =>
           /\ i \in rows /\ <<i, "original">> \in att /\ <<i, "face">> \in att
           /\ pc[i] \in {"respond", "returned"} /\ <<i, "temp">> \in files

\* The temporary file tells that a face was found.  Past update! there is data of
\* it, unless the row is gone.
Found(i) ==
    /\ pc[i] \in {"save", "attach", "request", "faces", "temp"} => <<i, "temp">> \notin files
    /\ pc[i] \in {"crop", "attach_face", "delete", "update"} => <<i, "temp">> \in files
    /\ i \in rows /\ <<i, "temp">> \in files /\ (pc[i] = "respond" \/ told[i] = "completed")
         => info[i] = "detected"

\* The cropped file is there only while create still has to delete it, or
\* because create raised in between.
FaceFile(i) ==
    <<i, "face">> \in files => pc[i] \in {"attach_face", "delete"} \/ told[i] = "error"

ImageInv(i) == ToldOnReturn(i) /\ SavedOnce(i) /\ Attached(i) /\ Found(i) /\ FaceFile(i)

ImagesInv == TypeInv /\ \A i \in Ids : ImageInv(i)

-----------------------------------------------------------------------------
\* What a step of a create does to the controls of all creates.
LEMMA Controls ==
    ASSUME TypeInv, NEW i \in Ids
    PROVE  /\ \A to \in Steps : Goto(i, to) =>
                  /\ pc' \in [Ids -> Steps \cup {"returned"}] /\ told' = told
                  /\ pc'[i] = to /\ \A j \in Ids \ {i} : pc'[j] = pc[j]
           /\ \A what \in {"completed", "error", "invalid"} : Return(i, what) =>
                  /\ pc' \in [Ids -> Steps \cup {"returned"}]
                  /\ told' \in [Ids -> {"nothing", "completed", "error", "invalid"}]
                  /\ pc'[i] = "returned" /\ \A j \in Ids \ {i} : pc'[j] = pc[j]
                  /\ told'[i] = what /\ \A j \in Ids \ {i} : told'[j] = told[j]
BY DEF TypeInv, Goto, Return

\* Storing the data of a face, or dropping it, changes one image's data.
LEMMA DataOf ==
    ASSUME TypeInv, NEW i \in Ids, NEW v \in {"none", "given", "detected"}
    PROVE  LET new == [info EXCEPT ![i] = v] IN
           /\ new \in [Ids -> {"none", "given", "detected"}] /\ new[i] = v
           /\ \A j \in Ids \ {i} : new[j] = info[j]
BY DEF TypeInv

\* Every step keeps the types.
LEMMA TypeStep == TypeInv /\ [Next]_vars => TypeInv'
<1> SUFFICES ASSUME TypeInv, [Next]_vars PROVE TypeInv'
    OBVIOUS
<1> USE DEF stored, destroying
<1> DEFINE Data == [Ids -> {"none", "given", "detected"}]
<1>a. rows \subseteq Ids /\ found \subseteq Ids /\ info \in Data
    BY DEF TypeInv
<1>1. ASSUME NEW i \in Ids, \E to \in Steps : Goto(i, to),
             rows' \subseteq Ids, info' \in Data, found' \subseteq Ids
      PROVE  TypeInv'
    BY <1>1, Controls DEF TypeInv
<1>2. ASSUME NEW i \in Ids, \E what \in {"completed", "error", "invalid"} : Return(i, what),
             rows' \subseteq Ids, info' \in Data, found' \subseteq Ids
      PROVE  TypeInv'
    BY <1>2, Controls DEF TypeInv
<1>3. ASSUME NEW i \in Ids, CreateStep(i) PROVE TypeInv'
    <2>1. CASE Save(i)
        <3>1. rows' \subseteq Ids /\ found' = found
            BY <2>1, <1>a DEF Save
        <3>2. info' \in Data
            BY <2>1, <1>a, DataOf DEF Save
        <3>3. (\E to \in Steps : Goto(i, to)) \/ Return(i, "invalid")
            BY <2>1 DEF Save, Steps
        <3>4. QED
            BY <3>1, <3>2, <3>3, <1>1, <1>2, <1>a
    <2>2. CASE Attach(i) \/ HttpRequest(i) \/ Faces(i)
        BY <2>2, <1>1, <1>a DEF Attach, HttpRequest, Faces, Steps
    <2>3. CASE WriteTemp(i) \/ Crop(i) \/ AttachFace(i) \/ DeleteFaceFile(i)
        BY <2>3, <1>1, <1>a DEF WriteTemp, Crop, AttachFace, DeleteFaceFile, Steps
    <2>4. CASE Update(i)
        <3>1. info' \in Data
            BY <2>4, <1>a, DataOf DEF Update, Detected
        <3>2. QED
            BY <2>4, <3>1, <1>1, <1>a DEF Update, Steps
    <2>5. CASE Respond(i)
        BY <2>5, <1>2, <1>a DEF Respond
    <2>6. QED
        BY <1>3, <2>1, <2>2, <2>3, <2>4, <2>5 DEF CreateStep
<1>4. ASSUME NEW i \in Ids, Raise(i) PROVE TypeInv'
    BY <1>4, <1>2, <1>a DEF Raise
<1>5. ASSUME NEW i \in Ids, SetImage(i) \/ Destroy(i) PROVE TypeInv'
    BY <1>5 DEF SetImage, Destroy, TypeInv
<1>6. ASSUME NEW a \in purging, Purge(a) PROVE TypeInv'
    BY <1>6 DEF Purge, TypeInv
<1>7. CASE UNCHANGED vars
    BY <1>7 DEF vars, TypeInv
<1>8. QED
    BY <1>3, <1>4, <1>5, <1>6, <1>7 DEF Next

-----------------------------------------------------------------------------
\* What the invariant says of an image depends on these.
Same(j) ==
    /\ pc'[j] = pc[j] /\ told'[j] = told[j] /\ info'[j] = info[j]
    /\ j \in rows' <=> j \in rows
    /\ j \in found' <=> j \in found
    /\ \A a \in purging' : a[1] = j => a \in purging
    /\ \A n \in {"original", "face"} : <<j, n>> \in att' <=> <<j, n>> \in att
    /\ \A n \in {"temp", "face"} : <<j, n>> \in files' <=> <<j, n>> \in files

\* An image that is the same keeps its part of the invariant.
LEMMA SameKeeps == ASSUME NEW j \in Ids, ImageInv(j), Same(j) PROVE ImageInv(j)'
BY DEF ImageInv, ToldOnReturn, SavedOnce, Attached, Found, FaceFile, Same

\* A step for one image leaves the others the same.
LEMMA OthersSame ==
    ASSUME TypeInv, NEW i \in Ids, CreateStep(i) \/ Raise(i) \/ SetImage(i) \/ Destroy(i),
           NEW j \in Ids \ {i}
    PROVE  Same(j)
<1> USE DEF stored, destroying
<1>a. \A m, n : <<i, m>> # <<j, n>>
    OBVIOUS
<1>1. pc'[j] = pc[j] /\ told'[j] = told[j]
    <2>1. ASSUME \E to \in Steps : Goto(i, to) PROVE pc'[j] = pc[j] /\ told'[j] = told[j]
        BY <2>1, Controls
    <2>2. ASSUME \E what \in {"completed", "error", "invalid"} : Return(i, what)
          PROVE  pc'[j] = pc[j] /\ told'[j] = told[j]
        BY <2>2, Controls
    <2>3. CASE Save(i)
        BY <2>1, <2>2, <2>3 DEF Save, Steps
    <2>4. CASE Attach(i) \/ HttpRequest(i) \/ Faces(i) \/ WriteTemp(i) \/ Crop(i) \/ AttachFace(i)
               \/ DeleteFaceFile(i) \/ Update(i)
        BY <2>1, <2>4 DEF Attach, HttpRequest, Faces, WriteTemp, Crop, AttachFace, DeleteFaceFile,
                          Update, Steps
    <2>5. CASE Respond(i) \/ Raise(i)
        BY <2>2, <2>5 DEF Respond, Raise
    <2>6. CASE SetImage(i) \/ Destroy(i)
        BY <2>6 DEF SetImage, Destroy
    <2>7. QED
        BY <2>3, <2>4, <2>5, <2>6 DEF CreateStep
<1>2. CASE Save(i)
    <2>1. att' = att \/ att' = att \cup ({i} \X (params[i].given \cap {"original", "face"}))
        BY <1>2 DEF Save
    <2>2. \A n \in {"original", "face"} : <<j, n>> \in att' <=> <<j, n>> \in att
        BY <2>1
    <2>3. info'[j] = info[j]
        BY <1>2, DataOf DEF Save
    <2>4. QED
        BY <1>1, <1>2, <2>2, <2>3 DEF Save, Same
<1>3. CASE Attach(i) \/ AttachFace(i)
    BY <1>1, <1>3, <1>a DEF Attach, AttachFace, Same
<1>4. CASE HttpRequest(i) \/ Faces(i) \/ Respond(i) \/ Raise(i)
    BY <1>1, <1>4 DEF HttpRequest, Faces, Respond, Raise, Same
<1>5. CASE WriteTemp(i) \/ Crop(i) \/ DeleteFaceFile(i)
    BY <1>1, <1>5, <1>a DEF WriteTemp, Crop, DeleteFaceFile, Same
<1>6. CASE Update(i)
    <2>1. info'[j] = info[j]
        BY <1>6, DataOf DEF Update, Detected
    <2>2. QED
        BY <1>1, <1>6, <2>1 DEF Update, Same
<1>7. CASE SetImage(i)
    BY <1>1, <1>7 DEF SetImage, Same
<1>8. CASE Destroy(i)
    <2>1. info'[j] = info[j]
        BY <1>8, DataOf DEF Destroy
    <2>2. \A a \in purging' : a[1] = j => a \in purging
        BY <1>8 DEF Destroy, Of
    <2>3. QED
        BY <1>1, <1>8, <2>1, <2>2 DEF Destroy, Same
<1>9. QED
    BY <1>2, <1>3, <1>4, <1>5, <1>6, <1>7, <1>8 DEF CreateStep

\* A step for an image keeps what is known of it.
LEMMA OwnStep ==
    ASSUME ImagesInv, NEW i \in Ids, CreateStep(i) \/ Raise(i) \/ SetImage(i) \/ Destroy(i)
    PROVE  ImageInv(i)'
<1> USE DEF stored, destroying
<1>a. TypeInv /\ ImageInv(i)
    BY DEF ImagesInv
<1>b. <<i, "original">> # <<i, "face">> /\ <<i, "temp">> # <<i, "face">>
    OBVIOUS
<1>c. info[i] \in {"none", "given", "detected"}
    BY <1>a DEF TypeInv
<1> USE DEF ImageInv, ToldOnReturn, SavedOnce, Attached, Found, FaceFile, Steps
<1>1. CASE Save(i)
    <2>1. /\ pc[i] = "save" /\ told[i] = "nothing" /\ UNCHANGED <<files, found, purging>>
          /\ i \notin rows /\ i \notin found /\ \A a \in purging : a[1] # i
        BY <1>1, <1>a DEF Save, At
    <2>2. CASE Return(i, "invalid") /\ UNCHANGED <<rows, info, att>>
        <3>1. pc'[i] = "returned" /\ told'[i] = "invalid"
            BY <2>2, <1>a, Controls
        <3>2. QED
            BY <2>1, <2>2, <3>1, <1>a
    <2>3. CASE \E to \in {"respond", "attach"} : Goto(i, to)
        <3>1. pc'[i] \in {"respond", "attach"} /\ told' = told
            BY <2>3, <1>a, Controls
        <3>2. info'[i] # "detected"
            <4>1. Return(i, "invalid") => pc'[i] = "returned"
                BY <1>a, Controls
            <4>2. QED
                BY <1>1, <3>1, <4>1, <1>a, DataOf DEF Save
        <3>3. QED
            BY <2>1, <3>1, <3>2, <1>a
    <2>4. QED
        BY <1>1, <2>2, <2>3 DEF Save
<1>2. CASE Attach(i) \/ HttpRequest(i) \/ Faces(i)
    <2>1. /\ told' = told /\ UNCHANGED <<rows, info, files, found, purging>>
          /\ \/ pc[i] = "attach" /\ pc'[i] = "request" /\ att' = att \cup {<<i, "original">>}
             \/ pc[i] = "request" /\ pc'[i] = "faces" /\ att' = att
             \/ pc[i] = "faces" /\ pc'[i] \in {"temp", "respond"} /\ att' = att
        BY <1>2, <1>a, Controls DEF Attach, HttpRequest, Faces, At
    <2>2. QED
        BY <2>1, <1>a
<1>3. CASE WriteTemp(i) \/ Crop(i)
    <2>1. /\ told' = told /\ UNCHANGED <<rows, info, att, found, purging>>
          /\ \/ pc[i] = "temp" /\ pc'[i] = "crop" /\ files' = files \cup {<<i, "temp">>}
             \/ pc[i] = "crop" /\ pc'[i] = "attach_face" /\ files' = files \cup {<<i, "face">>}
        BY <1>3, <1>a, Controls DEF WriteTemp, Crop, At
    <2>2. QED
        BY <2>1, <1>a, <1>b
<1>4. CASE AttachFace(i) \/ DeleteFaceFile(i)
    <2>1. /\ told' = told /\ UNCHANGED <<rows, info, found, purging>>
          /\ \/ pc[i] = "attach_face" /\ pc'[i] = "delete" /\ att' = att \cup {<<i, "face">>} /\ files' = files
             \/ pc[i] = "delete" /\ pc'[i] = "update" /\ att' = att /\ files' = files \ {<<i, "face">>}
        BY <1>4, <1>a, Controls DEF AttachFace, DeleteFaceFile, At
    <2>2. QED
        BY <2>1, <1>a, <1>b
<1>5. CASE Update(i)
    <2>1. /\ pc[i] = "update" /\ pc'[i] = "respond" /\ told' = told
          /\ UNCHANGED <<rows, att, files, found, purging>>
        BY <1>5, <1>a, Controls DEF Update, At
    <2>2. info'[i] = IF i \in rows THEN "detected" ELSE info[i]
        BY <1>5, <1>a, DataOf DEF Update, Detected
    <2>3. QED
        BY <2>1, <2>2, <1>a
<1>6. CASE Respond(i) \/ Raise(i)
    <2>1. /\ pc'[i] = "returned" /\ UNCHANGED <<rows, info, att, files, found, purging>>
          /\ \/ pc[i] = "respond" /\ told'[i] = "completed"
             \/ pc[i] # "returned" /\ told'[i] = "error"
        BY <1>6, <1>a, Controls DEF Respond, Raise, At
    <2>2. QED
        BY <2>1, <1>a
<1>7. CASE SetImage(i)
    BY <1>7, <1>a DEF SetImage
\* With the row its face data goes; only then are its attachments purged.
<1>8. CASE Destroy(i)
    <2>1. /\ i \notin rows' /\ i \notin found' /\ pc[i] # "save"
          /\ UNCHANGED <<pc, told, att, files>>
        BY <1>8, <1>a DEF Destroy
    <2>2. info'[i] = "none"
        BY <1>8, <1>a, DataOf DEF Destroy
    <2>3. QED
        BY <2>1, <2>2, <1>a
<1>9. QED
    BY <1>1, <1>2, <1>3, <1>4, <1>5, <1>6, <1>7, <1>8 DEF CreateStep

\* A purge job takes attachments of no row.
LEMMA PurgeStep ==
    ASSUME ImagesInv, NEW a \in purging, Purge(a), NEW i \in Ids
    PROVE  ImageInv(i)'
<1>1. ImageInv(i)
    BY DEF ImagesInv
<1>2. /\ UNCHANGED <<pc, told, rows, info, files, found>> /\ purging' \subseteq purging
      /\ att' = att \ {a}
    BY DEF Purge
<1>3. ASSUME NEW n \in {"original", "face"}, i \in rows PROVE <<i, n>> # a
    <2>1. a[1] # i
        BY <1>1, <1>3 DEF ImageInv, SavedOnce
    <2>2. QED
        BY <2>1
<1>4. Attached(i)'
    BY <1>1, <1>2, <1>3 DEF ImageInv, Attached
<1>5. QED
    BY <1>1, <1>2, <1>4 DEF ImageInv, ToldOnReturn, SavedOnce, Found, FaceFile

\* The invariant holds at first and is kept.
LEMMA ImagesInvariant == (Init => ImagesInv) /\ (ImagesInv /\ [Next]_vars => ImagesInv')
<1>1. Init => ImagesInv
    BY DEF Init, ImagesInv, TypeInv, ImageInv, ToldOnReturn, SavedOnce, Attached, Found, FaceFile,
           Steps
<1>2. ASSUME ImagesInv, [Next]_vars PROVE ImagesInv'
    <2>1. TypeInv /\ TypeInv' /\ \A i \in Ids : ImageInv(i)
        BY <1>2, TypeStep DEF ImagesInv
    <2>2. ASSUME NEW i \in Ids, CreateStep(i) \/ Raise(i) \/ SetImage(i) \/ Destroy(i),
                 NEW j \in Ids
          PROVE  ImageInv(j)'
        <3>1. CASE j = i
            BY <1>2, <2>2, <3>1, OwnStep
        <3>2. CASE j # i
            BY <2>1, <2>2, <3>2, OthersSame, SameKeeps
        <3>3. QED
            BY <3>1, <3>2
    <2>3. ASSUME NEW a \in purging, Purge(a), NEW j \in Ids PROVE ImageInv(j)'
        BY <1>2, <2>3, PurgeStep
    <2>4. ASSUME UNCHANGED vars, NEW j \in Ids PROVE ImageInv(j)'
        <3>1. Same(j)
            BY <2>4 DEF vars, Same
        <3>2. QED
            BY <2>1, <3>1, SameKeeps
    <2>5. QED
        BY <1>2, <2>1, <2>2, <2>3, <2>4 DEF Next, ImagesInv
<1>3. QED
    BY <1>1, <1>2

-----------------------------------------------------------------------------
\* Data of a detected face is never seen without its row, its original and its face
\* image, and a completed create has stored it exactly if a face was found, however
\* creates, destroys and purge jobs interleave and wherever a create raises.
THEOREM InfoSafe == Spec => []InfoIsWhole
<1>1. ImagesInv => InfoIsWhole
    BY DEF ImagesInv, ImageInv, Attached, Found, InfoIsWhole
<1>2. QED
    BY <1>1, ImagesInvariant, PTL DEF Spec

\* A completed create never leaves its cropped file behind.
THEOREM FilesSafe == Spec => []NoFaceFileLeft
<1>1. ImagesInv => NoFaceFileLeft
    BY DEF ImagesInv, ImageInv, ToldOnReturn, FaceFile, NoFaceFileLeft
<1>2. QED
    BY <1>1, ImagesInvariant, PTL DEF Spec
=============================================================================
