--------------------------- MODULE StartupProofs ----------------------------
(***************************************************************************)
(* Theorems about Startup, for any number of workers and any bounds of     *)
(* crashes, edits and checkouts.                                           *)
(*                                                                         *)
(* What a serving worker relies on was true when it was imported and is    *)
(* not taken back: the collection stays, and the environment of the app    *)
(* container changes only together with all of its workers.  MinIO was up  *)
(* when it was seen healthy, so it is up while minio_init runs, or there   *)
(* was a crash in between.                                                 *)
(*                                                                         *)
(* A deployment carries an environment no older than the running one, for  *)
(* it read the file after the container did: so what it replaces has an    *)
(* older environment, or the same one and another image.                   *)
(***************************************************************************)
EXTENDS Startup, TLAPS

\* A worker runs in a running container, and one that serves has what the
\* container offers.
ServingAsStarted ==
  \A w \in Workers :
    /\ worker[w] # "off" => Running
    /\ worker[w] = "serving" => collection /\ settings[w] = appEnv

\* MinIO is up from the moment it was seen healthy, but for a crash.
MinioUp ==
  faults = 0 =>
    /\ "minio" \in healthy \/ init = "running" => service["minio"] = "up"
    /\ init # "failed"

\* The container's environment is older than that of a deployment under way,
\* and both are older than the file, or the same.
EnvironmentsInOrder ==
  /\ compose # Unset => compose <= envFile
  /\ Running => appEnv <= envFile
  /\ compose # Unset /\ Running => appEnv <= compose

StartupInv == TypeOK /\ ServingAsStarted /\ MinioUp

-----------------------------------------------------------------------------

LEMMA InitStartup == Init => StartupInv
<1> SUFFICES ASSUME Init
             PROVE  StartupInv
  OBVIOUS
<1>1. TypeOK
  <2>1. /\ service \in [Services -> {"absent", "starting", "up"}]
        /\ worker \in [Workers -> {"off", "importing", "serving"}]
        /\ settings \in [Workers -> 0..MaxEdits \cup {Unset}]
    BY DEF Init
  <2>2. bucket \in BOOLEAN /\ collection \in BOOLEAN
    BY Zenon DEF Init
  <2>3. FirstTag \in Tags /\ checkouts \in 0..MaxCheckouts
    BY StartupAssumption DEF Init, FirstTag
  <2>4. envFile \in 0..MaxEdits /\ schema \in 0..Head /\ faults \in 0..MaxFaults
    BY StartupAssumption DEF Init, Head
  <2> QED BY <2>1, <2>2, <2>3, <2>4 DEF Init, TypeOK
<1>2. ServingAsStarted
  BY DEF Init, ServingAsStarted
<1>3. MinioUp
  BY DEF Init, MinioUp
<1> QED BY <1>1, <1>2, <1>3 DEF StartupInv

\* Steps that leave the workers, their settings, the environment of the app
\* and the collection as they are.
LEMMA AppUntouched ==
  ASSUME ServingAsStarted, UNCHANGED <<worker, settings, appEnv, collection>>
  PROVE  ServingAsStarted'
BY DEF ServingAsStarted, Running

\* Steps that leave services and minio_init as they are, or count as crashes.
LEMMA ServicesUntouched ==
  ASSUME TypeOK, MinioUp,
         UNCHANGED <<service, healthy, init>>,
         UNCHANGED faults \/ Fault
  PROVE  MinioUp'
BY DEF TypeOK, MinioUp, Fault

\* Compose, the services and minio_init.
LEMMA DeploymentSteps ==
  ASSUME StartupInv,
         ComposeUp \/ StartInit \/ MakeBucket \/ ComposeDone \/ ComposeGivesUp
  PROVE  StartupInv'
<1> USE StartupAssumption DEF StartupInv, TypeOK, HealthChecked
<1>1. ServingAsStarted'
  BY AppUntouched DEF ComposeUp, StartInit, MakeBucket, ComposeDone, ComposeGivesUp, app
<1>2. CASE ComposeUp
  BY <1>1, <1>2 DEF ComposeUp, host, app, database, MinioUp, Services
<1>3. CASE StartInit
  BY <1>1, <1>3 DEF StartInit, host, app, database, MinioUp
<1>4. CASE MakeBucket
  BY <1>1, <1>4 DEF MakeBucket, host, app, database, MinioUp
<1>5. CASE ComposeDone
  BY <1>1, <1>5 DEF ComposeDone, host, app, database, MinioUp
<1>6. CASE ComposeGivesUp
  BY <1>1, <1>6 DEF ComposeGivesUp, Fault, host, app, database, MinioUp
<1> QED BY <1>2, <1>3, <1>4, <1>5, <1>6

LEMMA ServiceSteps ==
  ASSUME StartupInv, NEW s \in Services,
         Ready(s) \/ SeeHealthy(s) \/ CrashService(s)
  PROVE  StartupInv'
<1> USE StartupAssumption DEF StartupInv, TypeOK, HealthChecked
<1>1. ServingAsStarted'
  BY AppUntouched DEF Ready, SeeHealthy, CrashService, app
<1>2. CASE Ready(s)
  BY <1>1, <1>2 DEF Ready, host, app, database, MinioUp, Services
<1>3. CASE SeeHealthy(s)
  BY <1>1, <1>3 DEF SeeHealthy, host, app, database, MinioUp
<1>4. CASE CrashService(s)
  BY <1>1, <1>4 DEF CrashService, Fault, host, app, MinioUp, Services
<1> QED BY <1>2, <1>3, <1>4

\* The app container, and the file that its environment comes from.
LEMMA AppSteps ==
  ASSUME StartupInv, StartApp \/ EditEnv \/ (\E t \in Tags : Checkout(t)) \/ CrashApp
  PROVE  StartupInv'
<1> USE StartupAssumption DEF StartupInv, TypeOK
<1>1. CASE StartApp
  <2>1. MinioUp'
    BY <1>1, ServicesUntouched DEF StartApp, Recreate, containers
  <2> QED BY <1>1, <2>1 DEF StartApp, Recreate, containers, host, ServingAsStarted
<1>2. CASE EditEnv
  <2>1. ServingAsStarted' /\ MinioUp'
    BY <1>2, AppUntouched, ServicesUntouched DEF EditEnv, containers, app
  <2> QED BY <1>2, <2>1 DEF EditEnv, containers, app, database
<1>3. CASE CrashApp
  <2>1. MinioUp'
    BY <1>3, ServicesUntouched DEF CrashApp, containers
  <2> QED BY <1>3, <2>1 DEF CrashApp, Fault, containers, host, ServingAsStarted
<1>4. ASSUME NEW t \in Tags, Checkout(t)
      PROVE  StartupInv'
  <2>1. ServingAsStarted' /\ MinioUp'
    BY <1>4, AppUntouched, ServicesUntouched DEF Checkout, containers, app
  <2> QED BY <1>4, <2>1 DEF Checkout, containers, app, database
<1> QED BY <1>1, <1>2, <1>3, <1>4

LEMMA WorkerSteps ==
  ASSUME StartupInv, NEW w \in Workers,
         Spawn(w) \/ Import(w) \/ Serve(w) \/ CrashWorker(w)
  PROVE  StartupInv'
<1> USE StartupAssumption DEF StartupInv, TypeOK
<1>1. CASE Spawn(w)
  <2>1. MinioUp'
    BY <1>1, ServicesUntouched DEF Spawn, containers
  <2>2. ServingAsStarted'
    BY <1>1 DEF Spawn, ServingAsStarted, Running
  <2> QED BY <1>1, <2>1, <2>2 DEF Spawn, containers, host, app, database
<1>2. CASE Import(w)
  <2>1. MinioUp'
    BY <1>2, ServicesUntouched DEF Import, containers
  <2>2. ServingAsStarted'
    BY <1>2 DEF Import, ServingAsStarted, Running, ReadSettings
  <2> QED BY <1>2, <2>1, <2>2 DEF Import, ReadSettings, containers, host, app, database
<1>3. CASE Serve(w)
  <2>1. ServingAsStarted' /\ MinioUp'
    BY <1>3, AppUntouched, ServicesUntouched DEF Serve, vars, containers, host, app
  <2> QED BY <1>3, <2>1 DEF Serve, vars, containers, host, app, database
<1>4. CASE CrashWorker(w)
  <2>1. MinioUp'
    BY <1>4, ServicesUntouched DEF CrashWorker, containers
  <2>2. ServingAsStarted'
    BY <1>4 DEF CrashWorker, ServingAsStarted, Running
  <2> QED BY <1>4, <2>1, <2>2 DEF CrashWorker, Fault, containers, host, app, database
<1> QED BY <1>1, <1>2, <1>3, <1>4

LEMMA MigrationSteps ==
  ASSUME StartupInv, BeginUpgrade \/ RunRevision \/ CommitUpgrade
  PROVE  StartupInv'
<1> USE StartupAssumption DEF StartupInv, TypeOK
<1>1. ServingAsStarted' /\ MinioUp'
  BY AppUntouched, ServicesUntouched
     DEF BeginUpgrade, RunRevision, CommitUpgrade, containers, app
<1>2. CASE BeginUpgrade
  BY <1>1, <1>2 DEF BeginUpgrade, containers, host, app
<1>3. CASE RunRevision
  BY <1>1, <1>3 DEF RunRevision, containers, host, app, Head, Unset
<1>4. CASE CommitUpgrade
  BY <1>1, <1>4 DEF CommitUpgrade, containers, host, app, Head
<1> QED BY <1>2, <1>3, <1>4

LEMMA NextStartup == StartupInv /\ [Next]_vars => StartupInv'
<1> SUFFICES ASSUME StartupInv, [Next]_vars
             PROVE  StartupInv'
  OBVIOUS
<1>1. CASE UNCHANGED vars
  <2>1. ServingAsStarted' /\ MinioUp'
    BY <1>1, AppUntouched, ServicesUntouched
       DEF StartupInv, vars, containers, host, app
  <2> QED BY <1>1, <2>1 DEF StartupInv, TypeOK, vars, containers, host, app, database
<1> QED
  BY <1>1, DeploymentSteps, ServiceSteps, AppSteps, WorkerSteps, MigrationSteps
     DEF Next

\* The inductive invariant of the start.
THEOREM StartupInvHolds == Spec => []StartupInv
BY InitStartup, NextStartup, PTL DEF Spec

\* The state of a deployment is always what the model says it may be.
THEOREM TypeCorrect == Spec => []TypeOK
<1>1. StartupInv => TypeOK
  BY DEF StartupInv
<1> QED BY <1>1, StartupInvHolds, PTL

\* A migration that breaks off leaves no schema or all of it (alembic/env.py,
\* one transaction for all revisions): only its commit changes what is stored.
THEOREM SchemaAlwaysWhole == Spec => []SchemaWhole
<1>1. Init => SchemaWhole
  BY DEF Init, SchemaWhole
<1>2. SchemaWhole /\ [Next]_vars => SchemaWhole'
  <2> SUFFICES ASSUME SchemaWhole, [Next]_vars
               PROVE  SchemaWhole'
    OBVIOUS
  <2>1. CASE CommitUpgrade
    BY <2>1 DEF CommitUpgrade, SchemaWhole
  <2>2. CASE UNCHANGED schema
    BY <2>2 DEF SchemaWhole
  <2>3. CommitUpgrade \/ UNCHANGED schema
    BY DEF Next, vars, database, ComposeUp, StartInit, MakeBucket, StartApp, Recreate,
           ComposeDone, ComposeGivesUp, Checkout, EditEnv, Ready, SeeHealthy, CrashService,
           Spawn, Import, Serve, CrashWorker, CrashApp, BeginUpgrade, RunRevision
  <2> QED BY <2>1, <2>2, <2>3
<1> QED BY <1>1, <1>2, PTL DEF Spec

\* A worker that answers has its settings and its collection (config.py and
\* vector_store.py, read at import), and finds a schema that is whole.
THEOREM ServingWorkersReady == Spec => []ServingIsReady
<1>1. StartupInv /\ SchemaWhole => ServingIsReady
  BY DEF StartupInv, ServingAsStarted, ServingIsReady, Running
<1> QED BY <1>1, StartupInvHolds, SchemaAlwaysWhole, PTL

\* Workers that answer agree on the settings (config.py), and with them on
\* the key that tokens are signed with.
THEOREM SettingsAlwaysShared == Spec => []SettingsShared
<1>1. StartupInv => SettingsShared
  BY DEF StartupInv, ServingAsStarted, SettingsShared
<1> QED BY <1>1, StartupInvHolds, PTL

\* minio_init fails only after something crashed (docker-compose.prod.yml).
THEOREM InitFailsAfterCrash == Spec => []InitFailsOnlyByCrash
<1>1. StartupInv => InitFailsOnlyByCrash
  BY DEF StartupInv, TypeOK, MinioUp, InitFailsOnlyByCrash
<1> QED BY <1>1, StartupInvHolds, PTL

\* Deployments and edits are the steps that touch environments.
LEMMA NextInOrder == StartupInv /\ EnvironmentsInOrder /\ [Next]_vars => EnvironmentsInOrder'
<1> SUFFICES ASSUME StartupInv, EnvironmentsInOrder, [Next]_vars
             PROVE  EnvironmentsInOrder'
  OBVIOUS
<1>0. /\ MaxEdits \in Nat /\ Unset = 4 + MaxEdits
      /\ compose \in 0..MaxEdits \cup {Unset}
      /\ envFile \in 0..MaxEdits
      /\ appEnv \in 0..MaxEdits \cup {Unset}
  BY StartupAssumption DEF StartupInv, TypeOK, Unset, Head
<1>1. CASE ComposeUp
  BY <1>0, <1>1 DEF ComposeUp, host, app, EnvironmentsInOrder, Running
<1>2. CASE StartApp
  BY <1>0, <1>2 DEF StartApp, Recreate, containers, host, EnvironmentsInOrder, Running
<1>3. CASE ComposeDone \/ ComposeGivesUp
  BY <1>0, <1>3 DEF ComposeDone, ComposeGivesUp, host, app, EnvironmentsInOrder, Running
<1>4. CASE EditEnv
  BY <1>0, <1>4 DEF EditEnv, containers, app, EnvironmentsInOrder, Running
<1>5. CASE UNCHANGED <<compose, envFile, appEnv>>
  BY <1>5 DEF EnvironmentsInOrder, Running
<1>6. \/ ComposeUp \/ StartApp \/ ComposeDone \/ ComposeGivesUp \/ EditEnv
      \/ UNCHANGED <<compose, envFile, appEnv>>
  BY DEF Next, vars, containers, host, app, Checkout, StartInit, MakeBucket, Ready, SeeHealthy,
         CrashService, Spawn, Import, Serve, CrashWorker, CrashApp, BeginUpgrade,
         RunRevision, CommitUpgrade
<1> QED BY <1>1, <1>2, <1>3, <1>4, <1>5, <1>6

\* A worker that answers is stopped by a crash, or by a deployment that brings
\* it a newer environment, or another image with the environment it has
\* (docker-compose.prod.yml, config.py, the rollback of DEPLOYMENT.md).
THEOREM StoppedForChange == Spec => StoppedOnlyForChange
<1>1. Init => EnvironmentsInOrder
  BY StartupAssumption DEF Init, EnvironmentsInOrder, Running
<1>2. StartupInv /\ EnvironmentsInOrder /\ [Next]_vars =>
        [\A w \in Workers :
           (worker[w] = "serving" /\ worker'[w] # "serving") =>
             \/ faults' > faults
             \/ settings[w] < appEnv'
             \/ settings[w] = appEnv' /\ appImage # appImage']_vars
  <2> SUFFICES ASSUME StartupInv, EnvironmentsInOrder, Next,
                      NEW w \in Workers, worker[w] = "serving", worker'[w] # "serving"
               PROVE  \/ faults' > faults
                      \/ settings[w] < appEnv'
                      \/ settings[w] = appEnv' /\ appImage # appImage'
    OBVIOUS
  <2>0. faults \in Nat /\ settings[w] = appEnv /\ Running
    BY StartupAssumption DEF StartupInv, TypeOK, ServingAsStarted
  <2>1. CASE Fault
    BY <2>0, <2>1 DEF Fault
  <2>2. CASE StartApp
    <3>1. MaxEdits \in Nat /\ Unset = 4 + MaxEdits /\ compose \in 0..MaxEdits
            /\ appEnv \in 0..MaxEdits
      BY <2>0, <2>2, StartupAssumption DEF StartApp, StartupInv, TypeOK, Unset, Head, Running
    <3>2. /\ appEnv <= compose /\ appEnv' = compose
          /\ compose # appEnv \/ appImage # appImage'
      BY <2>0, <2>2 DEF StartApp, Recreate, EnvironmentsInOrder
    <3> QED BY <2>0, <3>1, <3>2
  <2>3. Fault \/ StartApp \/ worker' = worker
          \/ \E v \in Workers : worker[v] # "serving" /\ \E s \in {"importing", "serving", "off"} :
                worker' = [worker EXCEPT ![v] = s]
    BY DEF Next, containers, host, app, vars, ComposeUp, StartInit, MakeBucket, ComposeDone,
           ComposeGivesUp, Checkout, EditEnv, Ready, SeeHealthy, CrashService, Spawn, Import,
           Serve, CrashWorker, CrashApp, BeginUpgrade, RunRevision, CommitUpgrade
  <2>4. worker \in [Workers -> {"off", "importing", "serving"}]
    BY DEF StartupInv, TypeOK
  <2> QED BY <2>1, <2>2, <2>3, <2>4
<1> QED BY <1>1, <1>2, StartupInvHolds, NextInOrder, PTL DEF Spec, StoppedOnlyForChange
=============================================================================
