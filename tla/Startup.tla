------------------------------ MODULE Startup -------------------------------
(***************************************************************************)
(* The start of a deployment: the containers of docker-compose.prod.yml,   *)
(* the four uvicorn workers, what a worker needs while it imports the      *)
(* application (app/core/config.py, app/ai/vector_store.py), the bucket    *)
(* that minio_init makes, and the migrations that an operator runs         *)
(* (alembic/).  Containers and workers crash and are restarted, and the    *)
(* operator deploys again: another .env.prod, or another commit, as in the *)
(* rollback of DEPLOYMENT.md.                                              *)
(***************************************************************************)
EXTENDS Naturals

CONSTANTS Workers,
          Tags,         \* commits that can be checked out
          MaxFaults,    \* bound: crashes, and deployments that give up
          MaxEdits,     \* bound: edits of .env.prod
          MaxCheckouts  \* bound: checkouts after the first

Services == {"db", "redis", "minio", "chroma"}

\* The revisions 0001, 0002, 0003: users before the tables that refer to it.
Head == 3

\* Waited for as service_healthy; for chroma it is enough to be started.
HealthChecked == {"db", "redis", "minio"}

ASSUME StartupAssumption ==
  /\ Tags # {}
  /\ MaxFaults \in Nat /\ MaxEdits \in Nat /\ MaxCheckouts \in Nat

VARIABLES service,     \* each service: "absent", "starting" or "up"
          compose,     \* docker compose up: the environment it read, or Unset
          built,       \* the image it built last, as the commit it was built from
          healthy,     \* services it has seen healthy
          init,        \* minio_init: "absent", "waiting", "running", "done", "failed"
          bucket,      \* whether the bucket exists
          tag,         \* the commit checked out on the host
          checkouts,
          envFile,     \* .env.prod, as the number of its edits
          appEnv,      \* the environment of the app container, or Unset
          appImage,    \* its image
          worker,      \* each worker: "off", "importing" or "serving"
          settings,    \* what Settings() read in each worker
          collection,  \* whether Chroma has candidate_resumes
          schema,      \* the last revision committed in Postgres
          upgrade,     \* revision reached by the open migration, or Unset
          faults

containers == <<service, compose, built, healthy, init, bucket>>
host == <<tag, checkouts, envFile>>
app == <<appEnv, appImage, worker, settings, collection>>
database == <<schema, upgrade>>
vars == <<containers, host, app, database, faults>>

Unset == Head + 1 + MaxEdits

Running == appEnv # Unset

\* The commits are alike: it does not matter which is deployed first.
FirstTag == CHOOSE t \in Tags : TRUE

Fault == faults < MaxFaults /\ faults' = faults + 1

Init ==
  /\ service = [s \in Services |-> "absent"]
  /\ compose = Unset /\ healthy = {}
  /\ init = "absent" /\ bucket = FALSE
  /\ tag = FirstTag /\ built = FirstTag /\ appImage = FirstTag /\ checkouts = 0
  /\ envFile = 0 /\ appEnv = Unset
  /\ worker = [w \in Workers |-> "off"]
  /\ settings = [w \in Workers |-> Unset]
  /\ collection = FALSE
  /\ schema = 0 /\ upgrade = Unset
  /\ faults = 0

-----------------------------------------------------------------------------
(* docker compose up.                                                      *)

\* The operator deploys, and deploys again after an edit, a checkout or a
\* failure.  --build makes the image from what is checked out.
ComposeUp ==
  /\ compose = Unset
  /\ <<appEnv, appImage>> # <<envFile, tag>> \/ init = "failed"
  /\ compose' = envFile /\ built' = tag /\ healthy' = {}
  /\ service' = [s \in Services |-> IF service[s] = "absent" THEN "starting" ELSE service[s]]
  /\ init' = "waiting"
  /\ UNCHANGED <<bucket, host, app, database, faults>>

Ready(s) ==
  /\ service[s] = "starting"
  /\ service' = [service EXCEPT ![s] = "up"]
  /\ UNCHANGED <<compose, built, healthy, init, bucket, host, app, database, faults>>

SeeHealthy(s) ==
  /\ compose # Unset /\ service[s] = "up"
  /\ s \in HealthChecked \ healthy
  /\ healthy' = healthy \cup {s}
  /\ UNCHANGED <<service, compose, built, init, bucket, host, app, database, faults>>

\* Mutant: minio_init without its depends_on.
StartInitAtOnce ==
  /\ init = "waiting"
  /\ init' = "running"
  /\ UNCHANGED <<service, compose, built, healthy, bucket, host, app, database, faults>>

StartInit ==
  /\ init = "waiting" /\ "minio" \in healthy
  /\ init' = "running"
  /\ UNCHANGED <<service, compose, built, healthy, bucket, host, app, database, faults>>

\* mc mb --ignore-existing, once: minio_init has no restart policy.
MakeBucket ==
  /\ init = "running"
  /\ IF service["minio"] = "up"
       THEN init' = "done" /\ bucket' = TRUE
       ELSE init' = "failed" /\ UNCHANGED bucket
  /\ UNCHANGED <<service, compose, built, healthy, host, app, database, faults>>

\* The container is made anew, with its workers and what runs in it.
Recreate ==
  /\ appEnv' = compose /\ appImage' = built
  /\ worker' = [w \in Workers |-> "off"]
  /\ settings' = [w \in Workers |-> Unset]
  /\ upgrade' = Unset
  /\ UNCHANGED <<containers, host, collection, schema, faults>>

\* Mutant: docker compose up --force-recreate.
StartAppAnyway ==
  /\ compose # Unset /\ healthy = HealthChecked
  /\ Recreate

\* The app is not made to wait for minio_init.  A container whose environment
\* and image are still the same is left running.
StartApp ==
  /\ compose # Unset /\ healthy = HealthChecked
  /\ <<appEnv, appImage>> # <<compose, built>>
  /\ Recreate

ComposeDone ==
  /\ Running /\ <<appEnv, appImage>> = <<compose, built>> /\ init # "waiting"
  /\ compose' = Unset
  /\ UNCHANGED <<service, built, healthy, init, bucket, host, app, database, faults>>

\* A service that is unhealthy for too long ends docker compose up.
ComposeGivesUp ==
  /\ Fault
  /\ compose # Unset
  /\ \E s \in HealthChecked \ healthy : service[s] = "starting"
  /\ compose' = Unset
  /\ init' = IF init = "waiting" THEN "failed" ELSE init
  /\ UNCHANGED <<service, built, healthy, bucket, host, app, database>>

\* git checkout of another commit, an earlier one to roll back.
Checkout(t) ==
  /\ checkouts < MaxCheckouts
  /\ t # tag
  /\ tag' = t /\ checkouts' = checkouts + 1
  /\ UNCHANGED <<containers, envFile, app, database, faults>>

\* .env.prod changes on the host: a new secret key, for instance.
EditEnv ==
  /\ envFile < MaxEdits
  /\ envFile' = envFile + 1
  /\ UNCHANGED <<containers, tag, checkouts, app, database, faults>>

-----------------------------------------------------------------------------
(* The workers.                                                            *)

\* uvicorn's supervisor starts a process for each worker that is not alive.
Spawn(w) ==
  /\ Running /\ worker[w] = "off"
  /\ worker' = [worker EXCEPT ![w] = "importing"]
  /\ UNCHANGED <<containers, host, appEnv, appImage, settings, collection, database, faults>>

\* Mutant: Settings() reads the file of the host, not the environment.
SettingsFromFile(w) == envFile

\* get_settings: read once by each process, from the container's environment.
ReadSettings(w) == appEnv

\* Mutant: the collection is fetched by the first call that needs it.
ImportWithoutChroma(w) ==
  /\ worker[w] = "importing"
  /\ worker' = [worker EXCEPT ![w] = "serving"]
  /\ settings' = [settings EXCEPT ![w] = ReadSettings(w)]
  /\ UNCHANGED <<containers, host, appEnv, appImage, collection, database, faults>>

\* get_or_create_collection at import: without an answer of Chroma the
\* process dies, for every route.
Import(w) ==
  /\ worker[w] = "importing"
  /\ IF service["chroma"] = "up"
       THEN /\ worker' = [worker EXCEPT ![w] = "serving"]
            /\ settings' = [settings EXCEPT ![w] = ReadSettings(w)]
            /\ collection' = TRUE
       ELSE /\ worker' = [worker EXCEPT ![w] = "off"]
            /\ UNCHANGED <<settings, collection>>
  /\ UNCHANGED <<containers, host, appEnv, appImage, database, faults>>

-----------------------------------------------------------------------------
(* alembic upgrade head, run by the operator in the app container.         *)

\* alembic/env.py imports settings and models, and nothing that needs Chroma.
BeginUpgrade ==
  /\ Running /\ service["db"] = "up"
  /\ schema < Head /\ upgrade = Unset
  /\ upgrade' = schema
  /\ UNCHANGED <<containers, host, app, schema, faults>>

\* Mutant: transaction_per_migration, each revision committed by itself.
RunRevisionCommitted ==
  /\ upgrade < Head
  /\ upgrade' = upgrade + 1
  /\ schema' = upgrade + 1
  /\ UNCHANGED <<containers, host, app, faults>>

\* Mutant: one revision more than there are.
RunRevisionPastHead ==
  /\ upgrade # Unset
  /\ upgrade' = upgrade + 1
  /\ UNCHANGED <<containers, host, app, schema, faults>>

\* The upgrade of one revision, in the transaction begun around all of them.
RunRevision ==
  /\ upgrade < Head
  /\ upgrade' = upgrade + 1
  /\ UNCHANGED <<containers, host, app, schema, faults>>

\* Mutant: a connection that is closed without a commit.
UpgradeNotCommitted ==
  /\ upgrade = Head
  /\ upgrade' = Unset
  /\ UNCHANGED <<schema, containers, host, app, faults>>

CommitUpgrade ==
  /\ upgrade = Head
  /\ schema' = Head /\ upgrade' = Unset
  /\ UNCHANGED <<containers, host, app, faults>>

-----------------------------------------------------------------------------
(* Crashes.  restart: always brings a container back, with its volume.     *)

\* An open migration is rolled back with the database it runs in.
CrashService(s) ==
  /\ Fault
  /\ service[s] = "up"
  /\ service' = [service EXCEPT ![s] = "starting"]
  /\ upgrade' = IF s = "db" THEN Unset ELSE upgrade
  /\ UNCHANGED <<compose, built, healthy, init, bucket, host, app, schema>>

CrashWorker(w) ==
  /\ Fault
  /\ worker[w] # "off"
  /\ worker' = [worker EXCEPT ![w] = "off"]
  /\ settings' = [settings EXCEPT ![w] = Unset]
  /\ UNCHANGED <<containers, host, appEnv, appImage, collection, database>>

\* The app container dies with its workers and with a migration run in it.
CrashApp ==
  /\ Fault
  /\ Running
  /\ worker' = [w \in Workers |-> "off"]
  /\ settings' = [w \in Workers |-> Unset]
  /\ upgrade' = Unset
  /\ UNCHANGED <<containers, host, appEnv, appImage, collection, schema>>

\* The system goes on serving: nothing else may be left to do.
Serve(w) == worker[w] = "serving" /\ UNCHANGED vars

Next ==
  \/ ComposeUp \/ StartInit \/ MakeBucket \/ StartApp \/ ComposeDone \/ ComposeGivesUp
  \/ EditEnv \/ \E t \in Tags : Checkout(t)
  \/ \E s \in Services : Ready(s) \/ SeeHealthy(s) \/ CrashService(s)
  \/ \E w \in Workers : Spawn(w) \/ Import(w) \/ Serve(w) \/ CrashWorker(w)
  \/ BeginUpgrade \/ RunRevision \/ CommitUpgrade
  \/ CrashApp

\* Docker and uvicorn start what is down and the operator follows the
\* deployment guide to its end; nothing forces a second deployment.
Fairness ==
  /\ \A s \in Services : WF_vars(Ready(s)) /\ WF_vars(SeeHealthy(s))
  /\ \A w \in Workers : WF_vars(Spawn(w)) /\ WF_vars(Import(w))
  /\ WF_vars(ComposeUp /\ ~Running) /\ WF_vars(StartApp) /\ WF_vars(ComposeDone)
  /\ WF_vars(StartInit) /\ WF_vars(MakeBucket)
  /\ WF_vars(BeginUpgrade) /\ WF_vars(RunRevision) /\ WF_vars(CommitUpgrade)

Spec == Init /\ [][Next]_vars /\ Fairness

-----------------------------------------------------------------------------
(* What is promised.                                                       *)

TypeOK ==
  /\ service \in [Services -> {"absent", "starting", "up"}]
  /\ compose \in 0..MaxEdits \cup {Unset}
  /\ {tag, built, appImage} \subseteq Tags /\ checkouts \in 0..MaxCheckouts
  /\ healthy \subseteq HealthChecked
  /\ init \in {"absent", "waiting", "running", "done", "failed"}
  /\ bucket \in BOOLEAN /\ collection \in BOOLEAN
  /\ envFile \in 0..MaxEdits /\ appEnv \in 0..MaxEdits \cup {Unset}
  /\ worker \in [Workers -> {"off", "importing", "serving"}]
  /\ settings \in [Workers -> 0..MaxEdits \cup {Unset}]
  /\ schema \in 0..Head /\ upgrade \in 0..Head \cup {Unset}
  /\ faults \in 0..MaxFaults

\* Postgres holds no schema, or all of it, wherever a migration breaks off.
SchemaWhole == schema \in {0, Head}

\* A worker that answers has its settings and a collection to index resumes
\* in, whatever crashed since, and no request sees a part of the schema: no
\* call finds out later that one of them is missing.
ServingIsReady ==
  \A w \in Workers :
    worker[w] = "serving" => collection /\ settings[w] # Unset /\ SchemaWhole

\* "every part of the app shares the same validated config object": all
\* workers that answer have read the same settings, also those restarted
\* after .env.prod was edited, so a token that one signs is good for all.
SettingsShared ==
  \A v, w \in Workers :
    worker[v] = "serving" /\ worker[w] = "serving" => settings[v] = settings[w]

\* The health check of MinIO is enough for the bucket: minio_init, which
\* nothing repeats, fails only when something crashes in between.
InitFailsOnlyByCrash == init = "failed" => faults > 0

\* A worker that serves is stopped by a crash, or by a deployment that brings
\* another image or a newer .env.prod than the one the worker has read: never
\* by a deployment that is repeated because minio_init failed, and never for an
\* older environment, not even in a rollback, however edits, checkouts,
\* deployments and their failures interleave.
StoppedOnlyForChange ==
  [][\A w \in Workers :
       (worker[w] = "serving" /\ worker'[w] # "serving") =>
         \/ faults' > faults
         \/ settings[w] < appEnv'
         \/ settings[w] = appEnv' /\ appImage # appImage']_vars

\* With crashes that come to an end, the deployment is complete in the end:
\* every worker answers, on the whole schema, and stays; the bucket is there
\* unless the only run of minio_init failed.
ComesUp ==
  <>[](/\ \A w \in Workers : worker[w] = "serving"
       /\ schema = Head
       /\ bucket \/ init = "failed")
=============================================================================
