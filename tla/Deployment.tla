----------------------------- MODULE Deployment -----------------------------
(***************************************************************************)
(* The three containers of docker-compose.yml, all restarted when they     *)
(* exit: the database, whose volume outlives it; the web application,      *)
(* which creates and migrates its database before it serves; and the       *)
(* detector.  database.yml is taken with the host line that its comment    *)
(* asks for.  MySQL commits every statement of a migration on its own.     *)
(***************************************************************************)
EXTENDS Naturals, Sequences

CONSTANT MaxFailures   \* bound on the crashes and failed listens

ASSUME DeploymentAssumption == MaxFailures \in Nat

VARIABLES db,         \* the database container: "down", "starting" or "ready"
          volume,     \* mydata: what was created in the database
          web,        \* the web container: "down", the next step of its command,
                      \* or Len(Command) + 1 when it serves
          detector,   \* "down", "loading", "listening" or "deaf"
          up,         \* docker-compose up has started the web container
          failures
vars == <<db, volume, web, detector, up, failures>>

\* What the steps of rails db:create db:migrate leave in the volume: the database,
\* and for each migration its tables and then its version.
Command == <<"database", "active_storage_blobs", "active_storage_attachments", "20190508120418",
             "images", "20190508120605">>
Tables == [v \in {"20190508120418", "20190508120605"} |->
              IF v = "20190508120418" THEN {"active_storage_blobs", "active_storage_attachments"}
                                      ELSE {"images"}]
Serving == web = Len(Command) + 1
Down == 0

Init == /\ db = "down" /\ volume = {} /\ web = Down /\ detector = "down"
        /\ up = FALSE /\ failures = 0

Fail == failures < MaxFailures /\ failures' = failures + 1

DbStart == db = "down" /\ db' = "starting" /\ UNCHANGED <<volume, web, detector, up, failures>>
DbReady == db = "starting" /\ db' = "ready" /\ UNCHANGED <<volume, web, detector, up, failures>>
DbCrash == db # "down" /\ Fail /\ db' = "down" /\ UNCHANGED <<volume, web, detector, up>>

WebStart_Once == /\ web = Down /\ ~up /\ db # "down"
                 /\ web' = 1 /\ up' = TRUE
                 /\ UNCHANGED <<db, volume, detector, failures>>

\* depends_on holds back the first start only, and until the database container is
\* started, not until it is ready.
WebStart == /\ web = Down /\ (up \/ db # "down")
            /\ web' = 1 /\ up' = TRUE
            /\ UNCHANGED <<db, volume, detector, failures>>

\* The migration a table belongs to; a migration whose version is recorded is
\* skipped, and create_table of a table that is there raises.
Version(t) == CHOOSE v \in DOMAIN Tables : t \in Tables[v]
IsTable(t) == \E v \in DOMAIN Tables : t \in Tables[v]
Skipped(t) == IsTable(t) /\ Version(t) \in volume
Raises(t) == IsTable(t) /\ t \in volume /\ ~Skipped(t)

\* Without "&&" the server would start whatever became of the migration.
WebStep_ServesAnyway ==
    /\ web \in 1..Len(Command)
    /\ IF db # "ready" \/ Raises(Command[web])
       THEN web' = Len(Command) + 1 /\ UNCHANGED volume
       ELSE web' = web + 1 /\ volume' = volume \cup (IF Skipped(Command[web]) THEN {} ELSE {Command[web]})
    /\ UNCHANGED <<db, detector, up, failures>>

\* One statement of the command; an error ends the command, and the container.
WebStep ==
    /\ web \in 1..Len(Command)
    /\ IF db # "ready" \/ Raises(Command[web])
       THEN web' = Down /\ UNCHANGED volume
       ELSE web' = web + 1 /\ volume' = volume \cup (IF Skipped(Command[web]) THEN {} ELSE {Command[web]})
    /\ UNCHANGED <<db, detector, up, failures>>

WebCrash == web # Down /\ Fail /\ web' = Down /\ UNCHANGED <<db, volume, detector, up>>

\* The detector: main loads the cascade and runs the server, which goes on without
\* listening when it cannot listen; a handler that throws ends the process.
DetectorStart == detector = "down" /\ detector' = "loading" /\ UNCHANGED <<db, volume, web, up, failures>>
DetectorListen == detector = "loading" /\ detector' = "listening" /\ UNCHANGED <<db, volume, web, up, failures>>
DetectorDeaf == detector = "loading" /\ Fail /\ detector' = "deaf" /\ UNCHANGED <<db, volume, web, up>>
DetectorCrash == detector # "down" /\ Fail /\ detector' = "down" /\ UNCHANGED <<db, volume, web, up>>

Progress == DbStart \/ DbReady \/ WebStart \/ WebStep \/ DetectorStart
Next == Progress \/ DbCrash \/ WebCrash \/ DetectorListen \/ DetectorDeaf \/ DetectorCrash

\* Docker restarts what exits, the database gets ready and commands go on; none
\* of them waits for another one for ever.
Fairness == /\ WF_vars(DbStart) /\ WF_vars(DbReady) /\ WF_vars(WebStart) /\ WF_vars(WebStep)
            /\ WF_vars(DetectorStart) /\ WF_vars(DetectorListen)

Spec == Init /\ [][Next]_vars /\ Fairness

-----------------------------------------------------------------------------
\* The application serves only with every table and version in the volume, after
\* whatever crashes and restarts.
ServesMigrated == Serving => volume = {Command[i] : i \in 1..Len(Command)}

\* A migration that was cut off between its first table and its version.
Torn == \E v \in DOMAIN Tables : v \notin volume /\ Tables[v] \cap volume # {} /\ web = Down

Usable == Serving /\ db = "ready" /\ detector = "listening"

\* The system comes up and stays up once the crashes end, with the database slower
\* or faster than the application, except after a torn migration or a failed listen.
UpUnlessTorn == <>[]Usable \/ <>Torn \/ <>[](detector = "deaf")
=============================================================================
