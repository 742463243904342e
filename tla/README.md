# Verification of the recruitment platform

TLA+ models of the recruitment platform under `src/` (FastAPI, Postgres, Redis,
S3/MinIO, Chroma), the TLC runs that check them on small instances, and TLAPS
proofs for every instance: of the cached job listing, the job board, the resume
stores, accounts and registration, a worker's threads and connections, the rate
limits, and the start of a deployment. Paths below are relative to `src/` (`core/`, `services/`
and the like to `src/app/`); the exact lines behind each definition are in
`PROJECT.json` under `map`.

To repeat a check: `tlc -config JobListing_safety.cfg MCJobListing.tla`, with the
names of the tables below. To repeat a proof: `tlapm JobBoardProofs.tla`.

## The system

Four uvicorn workers (`Dockerfile.prod`) run the same application behind nginx.
Endpoints and dependencies are plain `def`s, so FastAPI runs each of them in a
thread of the worker's threadpool; a request has one database session, from the
engine's pool of its worker. Requests meet only in the threads and connections of
a worker and in the four stores, and there is no transaction across two stores.

| component | state it keeps | operations | correct when |
|---|---|---|---|
| cached job listing (`core/cache.py`, `routes/jobs.py`, `job_posting_repository.py`) | Redis: `jobs:version` and one JSON page per (version, limit, offset), TTL 60 s | list (read version, look up, two SELECTs, store), bump | a listing shows every change that was acknowledged before it was asked for; a page cached during a write does not outlive it; a lost bump is repaired by the TTL |
| job postings (`job_posting_service.py`, models, schemas) | table `job_postings` | create, get, patch, delete | only the owner or an admin changes a posting; a PATCH changes what it sends and no more; the salary range is ordered; a deleted posting stays away |
| candidate profile and resume (`candidate_profile_service.py`, `storage.py`) | table `candidate_profiles`, bucket | upsert, upload, signed URL | the stored key names a stored file; an upload and an edit do not undo each other |
| resume index and matching (`app/ai/`, `get_matching_candidates`) | Chroma: one embedding per candidate | index, match | only committed resumes are searchable; the index follows the profile; a re-upload replaces |
| accounts and tokens (`user_service.py`, `auth_service.py`, `security.py`, `dependencies/auth.py`) | table `users` with a unique index; tokens held by clients | register, login, authenticate | one user per email; 201 and 409 mean what they say; an expired token or inactive user is refused |
| role checks (`dependencies/rbac.py`) | none | `require_role` | refused only for a reason, 401 before 403 |
| database session and pool (`core/database.py`) | 5 + 10 connections per worker | check out, commit, close, time out | every session is closed, whatever was raised; a standstill of threads and connections ends |
| errors and middleware (`core/exceptions.py`, `main.py`, `middleware/`) | none | map exceptions to replies, add headers | every failure gets the reply of its kind |
| rate limits (`core/rate_limit.py`, `nginx.conf`) | counters in Redis | count, refuse | the limit of an address holds over all workers and around the end of a window; no attempt is refused for those under other addresses |
| start of the deployment (`docker-compose.prod.yml`, `Dockerfile.prod`, `DEPLOYMENT.md`) | containers, image, bucket | start, health check, restart, deploy again or roll back | the application ends up running; a worker that serves has what it needs, and is stopped only by a crash or for a change |
| configuration (`core/config.py`) | settings of each worker, read once | read | all workers that answer agree |
| migrations (`alembic/`) | schema | `upgrade head` | none of it or all of it is stored |
| logging, tests, tasks | - | - | - |

### What is hard about it

* **Races in one store.** Two PATCH requests of a posting, two uploads of a
  candidate, an upload and a profile edit: each loads a row, computes, and sends
  an UPDATE of *the columns that differ from the row it loaded*. No row is locked
  and no version column is compared. Two registrations of one address both find
  it free, and the unique index decides.
* **Races between stores.** A listing reads `jobs:version`, then the rows, then
  files the page under the version it read; writers commit and then bump.
* **Two statements, one answer.** Page and total come from two SELECTs under READ
  COMMITTED.
* **Partial failure.** Commit without refresh, without bump, without indexing; a
  file stored without its commit; a request that fails after its effect; a handler
  of failures that fails itself.
* **Two scarce things.** A request may hold a connection while it waits for a
  thread, and a thread while it waits for a connection.
* **Lost state.** Redis restarting empty sets `jobs:version` and the limiter's
  counters back; containers crash while a deployment or a migration runs.
* **Stale state.** The user of a request is the row it read at its start; settings
  are the environment a worker was started with.
* **Something that must happen in the end.** A page whose invalidation was lost
  must go when its TTL runs out; requests must be answered; a deployment must come
  up.

`PROJECT.json` lists each hazard at its line, with the properties that watch it.

## The modules

| module | models | about it |
|---|---|---|
| `ListingRegister` | what `GET /jobs` promises, without cache or database | abstract specification |
| `JobListing` | the cached listing, for any number of writers, readers and pages | rows abstracted to a count of committed changes; implements `ListingRegister` |
| `JobBoard` | rows, owners and bodies of the same requests | extends `JobListing`, and implements it: each of its actions is one of that module's with the rows added |
| `ResumeIndex` | profile row, resume file, embedding, matching | shares no state with the listing |
| `Directory` | what registration promises its clients | abstract specification |
| `Accounts` | registration, login, calls with a token, administration | implements `Directory` |
| `Worker` | threads, connections, exceptions and answers of one worker | the way of every request of the other modules |
| `RateLimit` | the counters of slowapi in Redis | - |
| `Startup` | containers, workers, settings, bucket, migration | - |
| `JobListingProofs`, `JobBoardProofs`, `ResumeProofs`, `AccountsProofs`, `DirectoryProofs`, `WorkerProofs`, `RateLimitProofs`, `StartupProofs` | - | theorems |
| `MCJobListing`, `MCJobBoard`, `MCResumeIndex`, `MCAccounts`, `MCWorker`, `MCRateLimit`, `MCStartup` | - | values, tables, bodies and symmetry for TLC |

Conventions of all of them. One action is one call that leaves the process: a
statement or commit in Postgres, a command in Redis, a call to S3 or Chroma.
Everything a thread does between two such calls is part of the action before or
after it, since no other request can see it. A request is a record with a program
counter `pc`; the names of its stages are those of the call it makes next. A
request may end at any point without its reply (403, 404, 422, 500, 503, a worker
that dies, a connection that breaks): what it did to a store stays done. Variables
marked *history* are written and never read by the system; properties read them.
An operator whose comment begins with "Mutant:" is a deliberate error used to see
that a property notices it; no specification uses it.

How they fit together: the listing, the board, the resume stores and accounts are
about the stores that requests of all workers share, and leave threads and
connections to `Worker`, where the same requests are sequences of threads, with
or without statements. A request that `Worker` fails (a timeout of the pool, an
exception) is a request that aborts in the others, which allow that at every step.
`Startup` is about what must be there before any of it runs.

### JobListing

`commits` counts the changes of `job_postings` that were committed; a listing
read when `n` were committed shows those `n`. `version` is `jobs:version`,
`cache` the pages in Redis.

| action | code |
|---|---|
| `BeginWrite`, `Commit`, `Refresh`, `Bump`, `Acknowledge` | the three writes of `job_posting_service.py:33-80`; delete skips the refresh; a commit may change nothing |
| `WriteAborts`, `ReadFails` | `core/exceptions.py`, a dead worker |
| `ReadVersion`, `Hit`, `Miss`, `QueryItems`, `QueryCount`, `Store`, `Deliver` | `routes/jobs.py:63-74`, `list_open`, `get_json`, `set_json` |
| `Expire` | the TTL of a page (`cache.py:21`, `32`) |
| `RedisRestart` | Redis restarting with no data (only in `LossySpec`) |

`floor` is what was acknowledged when the listing was asked for: what the
answer is judged by. In production Redis persists (`--appendonly yes`), so
`SafeSpec` and `Spec` have no `RedisRestart`; development does not persist, and
an append-only file synced once a second can lose a bump: that is `LossySpec`.
There `AckedWritesVisible` does not hold (a listing in flight is filed under a
version number that is used a second time); `EventuallyVisible` is what is left.

### JobBoard

`jobs` is the table (a row, `Unborn` or `Gone`), `session[w]` what a request
loaded and was sent. `NetChange` is what SQLAlchemy flushes: the fields sent whose
value differs from the loaded one. An UPDATE of a deleted row raises, a DELETE of
one does not, and refreshing a deleted row raises: those requests can only abort.
`openAt[n]` remembers which postings were open after `n` changes, which gives the
numbers of `JobListing` their meaning: a listing of `n` shows `openAt[n]`.
`ImplementsListing` says that `JobBoard` is `JobListing` when rows are
forgotten, so that what is proved of the listing holds of the board. Users and
roles are constants, as a request keeps the user that it read at its start (what
became of the account meanwhile is in `Accounts`); the text fields, which behave
like the fields modelled, are left out.

### ResumeIndex

`profile` is the row, `bucket` the stored keys, `index` the resume whose embedding
is in Chroma. An upload is `BeginUpload` (row read, type and size checked, key
made), `PutObject`, `CommitUpload`, `Refresh`, `IndexResume`, `Reply`; indexing
that is skipped or raises leaves `index` alone and the request goes on
(`candidate_profile_service.py:102-123`). `RemoveProfile` is outside the
application: no endpoint deletes a profile, but users and rows can be deleted in
the database, and matching has a branch for it. A match request reads any
`TopK` of the embeddings, and then the profile of each. `disturbed` records the
candidates whose index has a reason to be behind.

### Accounts and Directory

`users` is the table, `inserted` the requests whose transaction holds a flushed
and uncommitted row, `tokens` what clients hold, `now` a clock.

| action | code |
|---|---|
| `BeginRegister`, `FindEmail`, `InsertUser`, `CommitUser`, `RefreshUser` | `user_service.py`, `user_repository.py`: look up, flush, commit, refresh. An INSERT waits while another transaction has inserted the address, and is refused (503) when a row has it |
| `BeginLogin`, `FindAccount`, `IssueToken` | `auth_service.py`: look up, verify, sign. The address is used as typed, where `EmailStr` of a registration normalises it (`Normal`) |
| `BeginCall`, `RefuseExpired`, `LoadUser`, `Work` | `get_current_user`, `_check_role`, an endpoint |
| `Abort` | any failure; the session's close ends its transaction |
| `Provision`, `ChangeUser`, `RemoveUser` | external: recruiters and admins are made, changed and removed by hand |

`seen` is history: the standings (`absent`, `inactive`, `other_role`, `allowed`)
that the account of a request had while its lookup was still to come. `Directory`
knows a set of accounts and the registrations that are open: one creates at most
one account, answers 201 only if it did, and 409 only if it met another.

### Worker

`req[r]` is a request with its route, the task it is at, whether it holds a
connection, and the exception it ended with; `queue` waits for threads; `out` is
what the pool counts. A route is a sequence of tasks, each in a thread of its own:
`get_db`, `get_current_user` with the role check, the endpoint, the validation of
the result.

| action | code |
|---|---|
| `Arrive`, `StartTask`, `EndTask` | FastAPI's threadpool, in order of arrival (external), over the routes of `routes/*.py` |
| `Checkout`, `PoolTimeout` | `create_engine` in `core/database.py` |
| `Commit` | `db.commit()` gives the connection back, `db.refresh()` takes one again |
| `TaskRaises`, `RefuseBody` | exceptions of dependencies (before or after the SELECT of the user), limiter, endpoint, result and validators |
| `Close` | `finally` of `get_db`, then the handlers of `core/exceptions.py` (`Status`) |

### RateLimit

`counters` are the keys in Redis with their value and expiry; `Attempt` is a request
with its `X-Forwarded-For` header, and `Take` one run of the script of the limiter
and the comparison in the worker; `Tick` removes what
expired; `Restart` brings Redis back with any part of the counters. `counted` and
`admitted` are histories: how many attempts under an address there were before each
time, and how many of them reached the endpoint, so that those between two times
(`During`) are a difference and no sum. A window begins with an attempt, not with
a minute of the clock.

What the limit counts are *forwarded* addresses. nginx adds the address that
connected to it to the header a request arrives with (`Forwarded`, `nginx.conf:91`),
and uvicorn, which trusts every proxy, takes the first address of the result
(`RemoteAddress`, `Dockerfile.prod:92-93`). That is the address that connected when
the request came without the header, and otherwise the one the header began with.
So nothing here bounds what one connection sends, or what stands behind one address:
the properties are about the attempts that come under an address, whoever made
them. Without the forwarding all would come under nginx's (`KeyOfProxy`).

### Startup

| action | code |
|---|---|
| `ComposeUp`, `SeeHealthy`, `StartApp`, `ComposeDone`, `ComposeGivesUp` | `docker compose up` with the `depends_on` conditions of `docker-compose.prod.yml`: healthy for db, redis and minio, started for chroma |
| `Checkout` | `git checkout` of another commit, as in the rollback of `DEPLOYMENT.md` |
| `Ready`, `CrashService` | a service container, `restart: always` |
| `StartInit`, `MakeBucket` | `minio_init`, once, with no restart policy |
| `Spawn`, `Import`, `CrashWorker`, `CrashApp` | uvicorn's supervisor; `Import` reads the settings and fetches the collection of `ai/vector_store.py`, and dies without Chroma |
| `EditEnv` | an edit of `.env.prod`; a container keeps the environment it was made with |
| `BeginUpgrade`, `RunRevision`, `CommitUpgrade` | `alembic upgrade head`: three revisions in one transaction (`alembic/env.py`) |

`up -d --build` builds the image from what is checked out (`built`) and reads
`.env.prod` (`compose`); the container is replaced, with its workers, when it has
another image or another environment, and left running when both are the same. A
build of one commit is taken to give one image, as Docker's layer cache has it,
and commits to have the same migrations.

`Unset` is a number above all revisions and edits, so that the variables stay
numbers.

## The runs

Passing runs, with what they establish:

| run | properties | what they say |
|---|---|---|
| `listing_safety` | `TypeOK`, `AckedWritesVisible`, `QuietPagesExact`, `ImplementsRegister` | no listing is older than what was acknowledged when it was asked for; once every committed change was acknowledged, every page that can be hit is exact; the cache is invisible but for what `ListingRegister` allows |
| `listing_liveness` | `EventuallyVisible`, `SettledForGood` | with lost bumps and Redis restarts, every commit is in the end in every listing, for good; a change that every listing left shows stays in all of them |
| `board_rows` | `BoardTypeOK`, `AckedPatchStored`, `OnlyOwnerOrAdminChanges`, `PatchTouchesOnlyItsFields`, `RangeBrokenOnlyByRace` | who changes which row, which fields a PATCH changes, that a 200 means they are stored, and the only ways in which a stored salary range gets out of order |
| `board_listing` | `DeletedJobsNotServed`, `ImplementsListing` | an acknowledged DELETE is final in the listings; the board refines the listing |
| `resume_stores` | `ResumeTypeOK`, `ResumeStored`, `OnlyCommittedIndexed`, `AckedUploadStored`, `IndexFollowsProfile`, `EditsDoNotUndo` | which store may be ahead of which, with a failure at every step; no edit brings an old resume back and no upload an old headline |
| `accounts` | `TypeOK`, `OneUserPerEmail`, `WaitsForOneCommit`, `AnswersTrue`, `ImplementsDirectory`, `EveryRequestAnswered` | one user per address, in whatever spelling; an INSERT waits for one transaction that waits for nothing; each answer of a login or call is one that the account called for while the request was served; registration is the directory; waiting INSERTs end |
| `worker` | `TypeOK`, `ConnectionsAccounted`, `StandstillTakesAll`, `NobodyForgotten`, `EveryStepCounts`, `EveryRequestAnswered` | the pool's count is right after any exception; a standstill takes threads + connections requests; the timeout of the pool ends it; no request is left out of the queue, and every step brings its request nearer to the answer |
| `startup` | `TypeOK`, `ServingIsReady`, `SettingsShared`, `InitFailsOnlyByCrash`, `StoppedOnlyForChange`, `ComesUp` | what a worker that serves can count on (settings, the collection, a schema that is whole) through crashes, edits, rollbacks and second deployments; that only a crash, another image or a newer environment stops it; the deployment comes up when crashes end |
| `rate_limit` | `TypeOK`, `SlidingBound`, `RefusedOnlyAfterLimit` | under one address, less than twice the limit in any window's length, one limit more for each Redis restart; refusals only after more attempts under the address than the limit |

Runs that find a violation. Each is a disagreement between the code and
what is said of it, quoted under `findings`:

| run | property | what happens |
|---|---|---|
| `board_salary_race` | `SalaryRangeOrdered` | two requests that each send both bounds in order; each UPDATE holds only the bound that differs from the row it loaded. Requests that send one bound each need not even overlap: the comparison with the stored row that the schema's comment leaves to the service is not in the service |
| `resume_reupload` | `ReuploadReplaces` | a second resume that is not indexed (DOC, DOCX, no text, an error) leaves the first one matching |
| `worker_validation` | `RefusedBodyIs422` | a `ValueError` of a validator (salary range, blank title, phone) leaves the exception object in the list of errors, which cannot be encoded: the 422 handler raises and the client gets 500 |

Two exceptions that properties make are facts about the code worth knowing.
`AckedUploadStored` excuses the file name of uploads that overlapped: the
second UPDATE leaves the name out when it equals the loaded one, and the row shows
the name of one file with the key of another. `IndexFollowsProfile` excuses
`disturbed` candidates: two uploads that overlap after their commits may be
indexed in the other order.

### Bounds

Counters are capped in guards: `MaxCommits` and `MaxBumps` (changes of the table,
values of the version), `MaxFiles` and `MaxProfiles` (uuid4s handed out),
`MaxNow`, `MaxAttempts`, `MaxRestarts`, `MaxFaults`, `MaxEdits`, `MaxCheckouts`. Where a theorem
covers a property, larger numbers are the business of the proof, which has none.

* `listing_safety`: two writers, one reader, one page, two commits, three bumps.
  Two writers are what it takes for a bump to come between another writer's commit
  and bump; a reader reads again what it filed before; three bumps, for a page to
  be filed one, two and three versions late. Pages do not interact.
* `listing_liveness`: one writer, two readers (one fills a page that the other
  hits), one commit, one bump, Redis restarts without bound.
* `board_rows`: two concurrent requests on two postings (one stored, one
  created), three users (owner, rival, admin); bodies of one and of two fields,
  values and nulls, a range of both bounds, and one out of order, which the
  schema refuses; no readers. Two requests are enough for any pairwise race of
  load and commit.
* `board_listing`: two requests on one posting, one reader, two commits.
* `board_salary_race`: two requests on one posting and three salaries.
* `resume_stores`: two requests of one candidate, who is the only one a request of
  theirs can affect; three uploads (the third can meet a row that two overlapping
  ones left), two incarnations of the profile row, two file names, a matching.
  A content type that is not indexed acts as an indexing that fails, so PDF alone
  is enough; `resume_reupload` has both kinds.
* `accounts`: two requests, one member of staff, two spellings of one address, a
  token that lives one tick. Two requests are what a race takes, and the
  administrator is the third actor.
* `worker`: three requests, two threads, one connection: a standstill takes all
  three. Four routes have all kinds of tasks between them.
* `worker_validation`: one request.
* `startup`: two workers, two crashes anywhere, one edit, one checkout of another
  commit: enough for a worker that restarts after the edit beside one that did not,
  for a crash during the repair of another, and for a rollback with the same
  environment or a newer one, after a deployment that was completed or given up.
* `rate_limit`: two addresses, two workers, a limit of two in a window of two ticks,
  a clock of four ticks (a window, its end, and the next one), three attempts in
  a tick (one more than the limit), one restart.

Deadlock is checked in all runs but `rate_limit`, whose clock ends. Where requests
are made once (`Accounts`, `Worker`) a step that changes nothing is enabled only
when all were answered, so that a request which can go nowhere is still found.

### Fairness

* `JobListing`: a request that has begun takes its next step or fails (the calls
  to Redis and Postgres return or raise, and a worker that dies ends its requests),
  and a TTL runs out (`cache.py:32`). Nothing says that a client ever sends a
  request, that a bump ever succeeds (`WriteAborts` may always come first), or that
  Redis stops restarting.
* `Accounts`: a request that can take its next step takes it. A registration that
  waits for the transaction of another cannot, until that one ends.
* `Worker`: the same; the steps include the timeout of the pool, which SQLAlchemy
  has by default (30 s), and threads that are handed out in order of arrival.
* `Startup`: Docker brings containers back (`restart: always`), uvicorn its
  workers, and the operator follows the deployment guide to its end: the first
  `docker compose up`, again after it gave up, then the migration. Nothing forces a
  second deployment. Crashes are bounded by `MaxFaults`: a deployment that
  keeps crashing does not come up.

## The proofs

All of them hold for every value of the constants, under the assumptions named in
the modules (`ListingAssumption` and the like): bounds are natural numbers, place
holders such as `None` and `Null` are no values of the type they stand beside,
bodies are what the schemas let through, `Normal` is idempotent, `Requests` of
`Worker` is finite.

| module | theorem | says |
|---|---|---|
| `JobListingProofs` | `TypeCorrect` | `SafeSpec => []TypeOK` |
| | `ListingInvariantHolds` | `[]ListingInvariant`, the inductive invariant |
| | `AckedWritesAlwaysVisible`, `QuietPagesAlwaysExact` | the two safety properties |
| | `ListingImplementsRegister` | `ImplementsRegister` |
| | `LossyTypeCorrect`, `SettledHolds` | `LossySpec => []TypeOK`, and `SettledForGood`: what holds with lost bumps and restarts |
| `JobBoardProofs` | `BoardImplementsListing` | `BoardSpec => ImplementsListing` |
| | `BoardInvHolds` | `[]BoardInv`, beside `[]ListingInvariant` |
| | `BoardTypeCorrect`, `AckedPatchAlwaysStored`, `DeletedNeverServed` | the invariants of the board's runs |
| | `OnlyOwnerOrAdminEver`, `PatchTouchesOnlyItsFieldsEver`, `RangesBreakOnlyByRace` | its action properties |
| | `BoardImplementsRegister`, `BoardAckedWritesVisible` | what the listing promises its readers, of the board: the two refinements together |
| `ResumeProofs` | `ResumeInvHolds` | `[]ResumeInv` |
| | `TypeCorrect`, `ResumeAlwaysStored`, `OnlyCommittedEverIndexed`, `AckedUploadAlwaysStored`, `IndexAlwaysFollows` | every invariant of `resume_stores` |
| | `EditsNeverUndo` | its action property |
| `AccountsProofs` | `TypeCorrect`, `OneUserAlways`, `InsertsWaitForOne`, `AnswersAlwaysTrue` | the invariants of `accounts` |
| `DirectoryProofs` | `RegistrationImplementsDirectory` | `ImplementsDirectory` |
| `WorkerProofs` | `WorkerInvHolds`, `TypeCorrect`, `NoConnectionLeaks`, `StandstillIsLarge`, `NobodyIsForgotten` | the invariants of `worker` |
| | `StepsAlwaysCount` | its action property |
| `RateLimitProofs` | `TypeCorrect`, `AdmissionsBounded`, `RefusalsDeserved` | the invariants of `rate_limit` |
| `StartupProofs` | `StartupInvHolds`, `TypeCorrect`, `ServingWorkersReady`, `SettingsAlwaysShared`, `InitFailsAfterCrash` | the invariants of `startup` |
| | `SchemaAlwaysWhole` | `[]SchemaWhole`, on which `ServingWorkersReady` rests |
| | `StoppedForChange` | its action property |

**The listing.** Neither safety property is inductive. `AckedWritesVisible` speaks
of answers, and an answer may come from a page that was filed long before. What is
kept is a fact about *labels*: call a listing of `n` changes filed under version
`v` `Fresh(v, n)` when

* if `v` is the current version, then `n` covers everything acknowledged and
  everything a writer past its bump is about to acknowledge, and
* `n` covers the floor of every reader that holds `v`.

`CacheFresh` says that of every page in Redis, `ReadersFresh` of every listing a
reader is about to file. The steps that could break it are few, and each is
harmless for a reason in the code: a commit raises no floor, since commit comes
before bump and bump before reply; a bump makes `v` old, so the first half asks
nothing more of pages under `v`; a reader that begins takes the *current* version
with a floor of `acked`, which the first half covers; and a reader that queries
rows holds its version since before the query (`FreshNow`). Move the
read of the version behind the query, or the reply before the bump, and one of
these fails: those are two of the mutants. `NothingAhead` supplies that nobody
holds a version or a change that does not exist yet. Given the invariant, a step
of `JobListing` is a step of `ListingRegister` or none (`RegisterStep`).

Where bumps are lost and Redis restarts, labels mean nothing, and no part of that
argument is left but the types. `SettledForGood` does without labels: when every
listing in Redis or in a reader's hands shows a change, then all that a step can
file or hand out is one of those, or is read from rows, which have the change too.
It is the half of `EventuallyVisible` that needs no fairness; the other half, that
listings without the change run out, is the TTL's and stays with TLC.

**The board.** Every step of `JobBoard` is a step of `JobListing` or none
(`BoardStep`), so `ListingInvariant` holds of it, and `BoardInv` is proved beside
it. `Owned`: who patches or deletes was the owner of the row when it was loaded,
or is an admin, and rows keep their owner: the check at the load is still good
at the commit. `Apart`: a posting that is not committed yet is one request's alone.
`FieldsKept`: a field of the row is the one a PATCH loaded, and after its commit
the one it sent, or is in `raced`; that is why leaving equal values out of the
UPDATE loses nothing. `Finality`: since the commit of a DELETE the posting is in no
`openAt[n]`; it stays so as an UPDATE needs its row and an INSERT a new id.
`DeletedNeverServed` puts that together with the listing's floor: what is shown is
no older than the floor, and the floor no older than the DELETE.
`CommitChanges` says once what any commit does, and the preservation of each
conjunct at a commit rests on it. `RangesBreakOnlyByRace` is what holds in place of
`SalaryRangeOrdered`, which does not: a PATCH that sends both bounds sends them in
order, and by `FieldsKept` its commit leaves the row with both of them unless
another request wrote one since they were loaded.

**The resume stores.** What the stores hold is right because of what uploads under
way have already done elsewhere (`UploadsSound`): the file is stored before its key
is committed, the key committed before it is indexed, and an upload that met no
other still finds its own key and name. `OneToIndex` strengthens
`IndexFollowsProfile`: of a candidate that nothing disturbed at most one upload has
still to be indexed, and the row has its key. `EditsNeverUndo` rests on
`KeysOnce`: each key is of one upload, and of one that has yet to commit it is not
among the committed ones, so what a commit puts in the row was never there.

**Accounts.** `Typed` adds to the types what the stage of a request says of its
fields. `UniqueInv` is the strengthening of `OneUserPerEmail`: stored addresses are
normal ones, and rows and open INSERTs have different addresses: what the
unique index does between flush and commit. It also gives `InsertsWaitForOne`:
open INSERTs have different addresses, so a request waits for one transaction
only, and as no row has that one's address, its commit is not refused; what waits
never has a row inserted, so there is no circle. `Watched` is that of `AnswersTrue`: who
has yet to make its SELECT has seen what the table holds now. `DirectoryProofs`
adds `Fresh`, that the row of a registration comes with its commit, and shows each
step to be one of `Directory` or none.

**The worker.** `QueuedOnce` (who waits for a thread waits once) makes
`ConnectionsAccounted` inductive: whatever a step does to the connection of its
request it does to the count. A standstill is then counted: those that hold
threads wait for connections, those that hold connections wait for threads, and
nobody holds both.

Why every request is answered is proved but for the fairness. `StepsLeft` is a
number of at most 31 for each request, and every step of the system lowers that of
its request and changes no other's (`StepsAlwaysCount`): so a worker takes finitely
many steps. `NobodyIsForgotten` says that until all are answered some request
can move, a timeout of the pool included: the head of the queue if a thread is
free, and otherwise somebody that holds a thread. That steps which can be taken
are taken is the fairness under which TLC checks `EveryRequestAnswered`.

**The rate limits.** Neither bound is inductive by what it says of the past: it has
to know what the counter in Redis still owes. `CountersHonest`: a counter was
made by an attempt under its own address at most a window ago, and counts no more
than the attempts under that address since. Which attempts those are is decided
before the counter is touched (`FirstIsAddress`), so the argument is about `Take`. `WithinAllowance` bounds what was admitted since
*each* time within the current window, by `Allowance`. While the counter is older
than that time, everything admitted since went through it, and at least one of its
admissions, the one that made it, came before; when it is younger, the rest is of
counters that expired or were lost, each worth one limit. The attempt that made the
last expired counter is older than any window that reaches the present, which is
where the bound of *less* than twice the limit comes from. `SlidingBound` of older
windows does not change, since `NothingAfterNow`.

**The start.** `ServingAsStarted`: a worker that serves has the environment of its
container, which changes only with all of its workers, and the collection, which
stays. `MinioUp`: MinIO was up when it was seen healthy and still is while
`minio_init` runs, but for a crash. `SchemaWhole` is inductive by itself.
`EnvironmentsInOrder`: the environment of the running container is that of a
deployment under way or an older one, and neither is newer than the file. A
deployment replaces the container only when environment or image differ, so what it
replaces has an older environment, or the same one and another image
(`StoppedForChange`).

Only model-checked: liveness (`EventuallyVisible`, both `EveryRequestAnswered`,
`ComesUp`), since fairness and `ENABLED` are beyond the prover. The safety halves
of the first two are the theorems above. Every invariant and every action property
of a passing run is a theorem.

## What is not modelled

* `GET /jobs/{id}`, `GET /candidates/...` and the signed URL read one row and
  change nothing; in `Worker` they are routes of kind `read`, or `listing` where
  no token is asked for.
* Cascades from a deleted user into `job_postings` have no endpoint and are left
  out of `JobListing` (they do not bump).
* Similarity scores, embeddings, resume text, password hashes, signatures,
  validation patterns, values of configuration and of security headers, log lines:
  data no property tells apart. 4-byte salary columns: a number too large for one
  is a commit that fails.
* nginx: its own limit per connecting address, which does not see the routes of
  `RateLimit` (and which its `/health` inherits). Headers that arrive with more than
  one address: only the first of them counts.
* A second generation of migrations: the repository has one, so no code is served
  on an older schema. Downgrades are not run by the deployment.
* `pool_pre_ping`, which replaces a broken connection before it is used.
* An application that is up before Chroma: `Startup` has it (the worker dies and is
  started again); what a client sees meanwhile is nginx's.
* Tests are sequential calls, and what they assert is quoted by the properties;
  `app/tasks` is empty; logging keeps no state.

Time is abstract: a TTL or timeout is an expiry that happens sooner or later;
only `Accounts` and `RateLimit` have clocks, as an expiry is compared there.

## Plan

1. Done: `ListingRegister`, `JobListing`, `JobBoard`, `ResumeIndex`, `Directory`,
   `Accounts`, `Worker`, `RateLimit`, `Startup`, and theorems for all of them.
2. A composition of `Accounts` with `JobBoard`, where the user of a write is a row
   that changes between its load and the commit, and where an administrator
   deletes a user with their postings (`ON DELETE CASCADE`), which bumps nothing.
3. nginx in front of four workers in `Startup`: which requests fail while some of
   them restart.
