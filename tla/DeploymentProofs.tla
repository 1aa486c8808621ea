-------------------------- MODULE DeploymentProofs --------------------------
(***************************************************************************)
(* Proofs about Deployment, for any number of crashes.                     *)
(***************************************************************************)
EXTENDS Deployment, TLAPS

-----------------------------------------------------------------------------
\* The steps of rails db:create db:migrate, one by one.
LEMMA CommandSteps ==
    /\ Len(Command) = 6
    /\ Command[1] = "database" /\ Command[2] = "active_storage_blobs"
    /\ Command[3] = "active_storage_attachments" /\ Command[4] = "20190508120418"
    /\ Command[5] = "images" /\ Command[6] = "20190508120605"
BY DEF Command

\* A version is what records the tables made right before it.
LEMMA TablesBefore ==
    /\ DOMAIN Tables = {"20190508120418", "20190508120605"}
    /\ Tables["20190508120418"] = {"active_storage_blobs", "active_storage_attachments"}
    /\ Tables["20190508120605"] = {"images"}
BY DEF Tables

\* The migration of a table has it.
LEMMA VersionHasTable ==
    ASSUME NEW t, IsTable(t)
    PROVE  Version(t) \in DOMAIN Tables /\ t \in Tables[Version(t)]
BY DEF IsTable, Version

-----------------------------------------------------------------------------
\* The inductive invariant: the volume holds what the steps before the next one
\* leave, and a recorded version has its tables; a skipped step would otherwise
\* leave its table out.
Recorded == \A v \in DOMAIN Tables : v \in volume => Tables[v] \subseteq volume

StepsDone == \A i \in 1..Len(Command) : i < web => Command[i] \in volume

MigrationInv ==
    /\ web \in 0..Len(Command) + 1
    /\ volume \subseteq {Command[i] : i \in 1..Len(Command)}
    /\ Recorded /\ StepsDone

\* The step leaves what it is for in the volume, also when it is skipped.
LEMMA StepLeaves ==
    ASSUME MigrationInv, WebStep, web' # Down
    PROVE  /\ web \in 1..Len(Command) /\ web' = web + 1
           /\ Command[web] \in volume'
           /\ volume' = volume \/ volume' = volume \cup {Command[web]}
<1>1. /\ web \in 1..Len(Command) /\ web' = web + 1
      /\ volume' = volume \cup (IF Skipped(Command[web]) THEN {} ELSE {Command[web]})
    BY DEF WebStep
<1>2. Skipped(Command[web]) => Command[web] \in volume
    BY VersionHasTable DEF Skipped, MigrationInv, Recorded
<1>3. QED
    BY <1>1, <1>2

\* Statements, migrations, restarts and crashes keep the invariant.
LEMMA MigrationStep == MigrationInv /\ [Next]_vars => MigrationInv'
<1> SUFFICES ASSUME MigrationInv, [Next]_vars PROVE MigrationInv'
    OBVIOUS
<1>a. Len(Command) = 6
    BY CommandSteps
<1>1. CASE UNCHANGED <<web, volume>>
    BY <1>1 DEF MigrationInv, Recorded, StepsDone
<1>2. ASSUME volume' = volume, web' \in {Down, 1} PROVE MigrationInv'
    BY <1>2, <1>a DEF MigrationInv, Recorded, StepsDone, Down
<1>3. CASE WebStep
    <2>1. CASE web' = Down
        BY <1>a, <1>2, <1>3, <2>1 DEF WebStep, Down
    <2>2. CASE web' # Down
        <3>1. /\ web \in 1..Len(Command) /\ web' = web + 1 /\ Command[web] \in volume'
              /\ volume' = volume \/ volume' = volume \cup {Command[web]}
            BY <1>3, <2>2, StepLeaves
        <3>2. web' \in 0..Len(Command) + 1
            BY <3>1, <1>a
        <3>3. volume' \subseteq {Command[i] : i \in 1..Len(Command)}
            BY <3>1 DEF MigrationInv
        <3>4. StepsDone'
            BY <3>1, <1>a DEF MigrationInv, StepsDone
        <3>5. ASSUME NEW v \in DOMAIN Tables, v \in volume' PROVE Tables[v] \subseteq volume'
            <4>1. CASE v \in volume
                BY <3>1, <4>1 DEF MigrationInv, Recorded
            <4>2. CASE v = Command[web]
                <5>1. web \in {4, 6}
                    BY <3>1, <4>2, CommandSteps, TablesBefore
                <5>2. CASE web = 4
                    BY <3>1, <3>4, <4>2, <5>2, CommandSteps, TablesBefore DEF StepsDone
                <5>3. CASE web = 6
                    BY <3>1, <3>4, <4>2, <5>3, CommandSteps, TablesBefore DEF StepsDone
                <5>4. QED
                    BY <5>1, <5>2, <5>3
            <4>3. QED
                BY <3>1, <3>5, <4>1, <4>2
        <3>6. QED
            BY <3>2, <3>3, <3>4, <3>5 DEF MigrationInv, Recorded
    <2>3. QED
        BY <2>1, <2>2
<1>4. CASE WebStart \/ WebCrash
    BY <1>2, <1>4 DEF WebStart, WebCrash
<1>5. CASE DbStart \/ DbReady \/ DbCrash \/ DetectorStart \/ DetectorListen \/ DetectorDeaf
           \/ DetectorCrash \/ UNCHANGED vars
    BY <1>1, <1>5 DEF DbStart, DbReady, DbCrash, DetectorStart, DetectorListen, DetectorDeaf,
                      DetectorCrash, vars
<1>6. QED
    BY <1>3, <1>4, <1>5 DEF Next, Progress

\* The application never serves without every table and version, wherever the
\* containers crashed before.
THEOREM ServesSafe == Spec => []ServesMigrated
<1>1. Init => MigrationInv
    BY CommandSteps DEF Init, MigrationInv, Recorded, StepsDone, Down
<1>2. MigrationInv => ServesMigrated
    BY CommandSteps DEF MigrationInv, StepsDone, ServesMigrated, Serving
<1>3. QED
    BY <1>1, <1>2, MigrationStep, PTL DEF Spec
=============================================================================
