------------------------------ MODULE JobBoard ------------------------------
(***************************************************************************)
(* The job postings themselves: who may change which row, what a request   *)
(* writes of a row it loaded earlier, and what listings then show          *)
(* (app/services/job_posting_service.py, app/schemas/job_posting.py,       *)
(* app/models/job_posting.py, app/api/v1/routes/jobs.py).  It refines      *)
(* JobListing: the same requests and the same cache, with rows in place of *)
(* a count of changes.                                                     *)
(*                                                                         *)
(* A row has its owner, its status and its salary bounds.  The text        *)
(* columns behave as status does (set by a PATCH, NOT NULL) and are left   *)
(* out.  A request reads the row once, through its session, and commits    *)
(* later: the session's UPDATE holds only the columns whose new value      *)
(* differs from the loaded one, whatever the row holds by then.            *)
(***************************************************************************)
EXTENDS JobListing

CONSTANTS Jobs,          \* ids of postings (uuid4, never used twice)
          Users, Recruiters, Admins,
          Salaries,      \* values of a salary bound
          Null,          \* JSON null, SQL NULL
          Unborn,        \* in place of a row: no request has committed the id
          Gone,          \* in place of a row: it was deleted
          Creations,     \* bodies of POST /jobs: both salary bounds
          Patches,       \* bodies of PATCH: a value for each field sent
          InitialJobs    \* the table before the first request modelled

Status == {"draft", "open", "closed"}

Row == [owner : Users, status : Status,
        salary_min : Salaries \cup {Null}, salary_max : Salaries \cup {Null}]

\* What a PATCH may send, and the values its schema lets through.
Fields == {"status", "salary_min", "salary_max"}

Values(f) == (IF f = "status" THEN Status ELSE Salaries) \cup {Null}

ASSUME BoardAssumption ==
  /\ Recruiters \subseteq Users /\ Admins \subseteq Users
  /\ Salaries \subseteq Nat
  /\ Null \notin Salaries
  /\ Unborn # Gone /\ {Unborn, Gone} \cap Row = {}
  /\ InitialJobs \in [Jobs -> Row \cup {Unborn, Gone}]
  /\ Creations \subseteq [salary_min : Salaries \cup {Null}, salary_max : Salaries \cup {Null}]
  /\ \A body \in Patches : /\ DOMAIN body \subseteq Fields
                            /\ \A f \in DOMAIN body : body[f] \in Values(f)

VARIABLES jobs,          \* the table job_postings
          session,       \* session[w]: the request of w and the row it loaded
          openAt,        \* history: the open postings after n changes
          deleted,       \* history: postings whose DELETE got its 204
          goneFor        \* history: deleted, when r asked for its listing

rows == <<jobs, session, openAt, deleted>>
boardVars == <<vars, rows, goneFor>>

NoSession == [op |-> "none"]

Exists(j) == jobs[j] \notin {Unborn, Gone}

OpenJobs(table) == {j \in Jobs : /\ table[j] \notin {Unborn, Gone}
                                 /\ table[j].status = "open"}

\* Mutant: JobPostingUpdate without its validator.
SalaryUnchecked(body) == DOMAIN body \subseteq Fields

\* validate_salary_range: the bounds are compared when both were sent and
\* neither is null.  The stored row is not looked at.
SalaryAccepted(body) ==
  (/\ {"salary_min", "salary_max"} \subseteq DOMAIN body
   /\ body.salary_min # Null
   /\ body.salary_max # Null) => body.salary_min <= body.salary_max

\* Mutant: any recruiter, by role alone.
MayChangeByRole(u, row) == u \in Recruiters \cup Admins /\ row.owner \in Users

MayChange(u, row) == u = row.owner \/ u \in Admins

\* Mutant: model_dump(exclude_none=True).
NetChangeWithoutNulls(body, loaded) ==
  [f \in {g \in DOMAIN body : body[g] \notin {Null, loaded[g]}} |-> body[f]]

\* Mutant: the UPDATE holds every column of the loaded row.
WholeRow(body, loaded) ==
  [f \in DOMAIN loaded |-> IF f \in DOMAIN body THEN body[f] ELSE loaded[f]]

\* What the session flushes: the fields sent whose value is not the loaded one.
NetChange(body, loaded) ==
  [f \in {g \in DOMAIN body : body[g] # loaded[g]} |-> body[f]]

Updated(row, change) ==
  [f \in DOMAIN row |-> IF f \in DOMAIN change THEN change[f] ELSE row[f]]

BoardInit ==
  /\ Init
  /\ jobs = InitialJobs
  /\ session = [w \in Writers |-> NoSession]
  /\ openAt = [n \in 0..MaxCommits |-> IF n = 0 THEN OpenJobs(InitialJobs) ELSE {}]
  /\ deleted = {}
  /\ goneFor = [r \in Readers |-> {}]

-----------------------------------------------------------------------------
(* Requests.                                                               *)

\* POST /jobs by a recruiter or an admin; the id is a fresh uuid4.
BeginCreate(w, u, j, body) ==
  /\ BeginWrite(w)
  /\ u \in Recruiters \cup Admins
  /\ SalaryAccepted(body)
  /\ jobs[j] = Unborn
  /\ \A v \in Writers : session[v] # NoSession => session[v].job # j
  /\ session' = [session EXCEPT ![w] = [op |-> "create", user |-> u, job |-> j,
                                        body |-> body, loaded |-> Unborn,
                                        raced |-> {}]]
  /\ UNCHANGED <<jobs, openAt, deleted, goneFor>>

\* PATCH or DELETE: the row is read (else 404) and its owner checked against
\* the user (else 403).  raced is history: fields others wrote since.
BeginChange(w, u, j, op, body) ==
  /\ BeginWrite(w)
  /\ Exists(j)
  /\ MayChange(u, jobs[j])
  /\ session' = [session EXCEPT ![w] = [op |-> op, user |-> u, job |-> j,
                                        body |-> body, loaded |-> jobs[j],
                                        raced |-> {}]]
  /\ UNCHANGED <<jobs, openAt, deleted, goneFor>>

\* 404 or 403: the request ends at once and leaves nothing behind.
Refuse(w, u, j) ==
  /\ writer[w].pc = "idle"
  /\ Exists(j) => ~MayChange(u, jobs[j])
  /\ UNCHANGED boardVars

BeginPatch(w, u, j, body) ==
  /\ SalaryAccepted(body)
  /\ BeginChange(w, u, j, "patch", body)

BeginDelete(w, u, j) == BeginChange(w, u, j, "delete", <<>>)

-----------------------------------------------------------------------------
(* db.commit(): the session flushes, then commits, as one Postgres          *)
(* transaction.                                                             *)

\* jobs[j] becomes row, with its place in the histories.
Write(w, row, fields) ==
  LET j == session[w].job IN
  /\ commits' = commits + 1
  /\ jobs' = [jobs EXCEPT ![j] = row]
  /\ openAt' = [openAt EXCEPT ![commits'] = OpenJobs(jobs')]
  /\ session' = [v \in Writers |->
                   IF v # w /\ session[v] # NoSession /\ session[v].job = j
                     THEN [session[v] EXCEPT !.raced = @ \cup fields]
                     ELSE session[v]]

WriteNothing == commits' = commits /\ UNCHANGED <<jobs, openAt, session>>

CommitCreate(w) ==
  /\ session[w].op = "create"
  /\ Write(w, [owner |-> session[w].user, status |-> "draft",
               salary_min |-> session[w].body.salary_min,
               salary_max |-> session[w].body.salary_max], {})

\* Mutant: db.merge(job), which inserts the row again when it is gone.
CommitPatchByMerge(w) ==
  LET change == NetChange(session[w].body, session[w].loaded) IN
  /\ session[w].op = "patch"
  /\ \/ DOMAIN change = {} /\ WriteNothing
     \/ /\ DOMAIN change # {}
        /\ "status" \in DOMAIN change => change.status # Null
        /\ Write(w, Updated(session[w].loaded, change), DOMAIN change)

\* An UPDATE that finds no row (StaleDataError) or would put null into status
\* (NOT NULL) fails: for those requests only AbortWrite is left.
CommitPatch(w) ==
  LET change == NetChange(session[w].body, session[w].loaded) IN
  /\ session[w].op = "patch"
  /\ \/ DOMAIN change = {} /\ WriteNothing
     \/ /\ DOMAIN change # {}
        /\ Exists(session[w].job)
        /\ "status" \in DOMAIN change => change.status # Null
        /\ Write(w, Updated(jobs[session[w].job], change), DOMAIN change)

\* A DELETE that finds no row is a warning in the log: the request goes on.
CommitDelete(w) ==
  /\ session[w].op = "delete"
  /\ \/ Exists(session[w].job) /\ Write(w, Gone, {})
     \/ ~Exists(session[w].job) /\ WriteNothing

CommitJob(w) ==
  /\ Commit(w)
  /\ CommitCreate(w) \/ CommitPatch(w) \/ CommitDelete(w)
  /\ writer'[w].pc = IF session[w].op = "delete" THEN "bump" ELSE "refresh"
  /\ UNCHANGED <<deleted, goneFor>>

\* The refresh of a row that was deleted meanwhile raises: only AbortWrite.
RefreshJob(w) ==
  /\ Refresh(w)
  /\ Exists(session[w].job)
  /\ UNCHANGED <<rows, goneFor>>

\* Mutant: delete_job_posting forgets bump_list_version.
BumpUnlessDelete(w) ==
  /\ IF session[w].op = "delete"
       THEN /\ writer[w].pc = "bump"
            /\ writer' = [writer EXCEPT ![w].pc = "respond"]
            /\ UNCHANGED <<commits, version, cache, reader, acked>>
       ELSE Bump(w)
  /\ UNCHANGED <<rows, goneFor>>

BumpJobs(w) == Bump(w) /\ UNCHANGED <<rows, goneFor>>

AcknowledgeJob(w) ==
  /\ Acknowledge(w)
  /\ deleted' = IF session[w].op = "delete" THEN deleted \cup {session[w].job}
                                            ELSE deleted
  /\ session' = [session EXCEPT ![w] = NoSession]
  /\ UNCHANGED <<jobs, openAt, goneFor>>

\* Mutant: the session is not closed when a request fails.
AbortKeepsSession(w) == WriteAborts(w) /\ UNCHANGED <<rows, goneFor>>

AbortWrite(w) ==
  /\ WriteAborts(w)
  /\ session' = [session EXCEPT ![w] = NoSession]
  /\ UNCHANGED <<jobs, openAt, deleted, goneFor>>

AskForListing(r, p) ==
  /\ ReadVersion(r, p)
  /\ goneFor' = [goneFor EXCEPT ![r] = deleted]
  /\ UNCHANGED rows

ListingStep(r) ==
  /\ ReaderStep(r)
  /\ goneFor' = IF reader'[r].pc = "idle" THEN [goneFor EXCEPT ![r] = {}] ELSE goneFor
  /\ UNCHANGED rows

ExpirePage(v, p) == Expire(v, p) /\ UNCHANGED <<rows, goneFor>>

BoardNext ==
  \/ \E w \in Writers, u \in Users, j \in Jobs :
       \/ \E body \in Creations : BeginCreate(w, u, j, body)
       \/ \E body \in Patches : BeginPatch(w, u, j, body)
       \/ BeginDelete(w, u, j)
       \/ Refuse(w, u, j)
  \/ \E w \in Writers : \/ CommitJob(w) \/ RefreshJob(w) \/ BumpJobs(w)
                        \/ AcknowledgeJob(w) \/ AbortWrite(w)
  \/ \E r \in Readers, p \in Pages : AskForListing(r, p)
  \/ \E r \in Readers : ListingStep(r)
  \/ \E v \in 0..MaxBumps, p \in Pages : ExpirePage(v, p)

BoardSpec == BoardInit /\ [][BoardNext]_boardVars

-----------------------------------------------------------------------------
(* What is promised.                                                       *)

\* A request in flight is about a row it saw or is about to insert; the text
\* and shape of every variable.
BoardTypeOK ==
  /\ TypeOK
  /\ jobs \in [Jobs -> Row \cup {Unborn, Gone}]
  /\ openAt \in [0..MaxCommits -> SUBSET Jobs]
  /\ deleted \subseteq Jobs
  /\ goneFor \in [Readers -> SUBSET Jobs]
  /\ \A w \in Writers :
       /\ session[w] = NoSession <=> writer[w].pc = "idle"
       /\ session[w] # NoSession =>
            /\ session[w].op \in {"create", "patch", "delete"}
            /\ session[w].user \in Users
            /\ session[w].job \in Jobs
            /\ session[w].loaded \in Row \cup {Unborn}
            /\ session[w].raced \subseteq Fields

\* A page that shows everything open shows, once its items were read:
Shown(r) == openAt[reader[r].items]

\* A posting whose DELETE was answered is in no listing asked for afterwards,
\* cached or not, even when a PATCH that had loaded it commits after the
\* DELETE, or a second DELETE of it races the first.
DeletedJobsNotServed ==
  \A r \in Readers : reader[r].pc = "respond" => Shown(r) \cap goneFor[r] = {}

\* A stored posting is changed or deleted only by its owner or an admin, at
\* the commit of a request of theirs, and only that posting changes.
OnlyOwnerOrAdminChanges ==
  [][\A j \in Jobs :
       Exists(j) /\ jobs'[j] # jobs[j] =>
         \E w \in Writers :
           /\ writer[w].pc = "commit" /\ writer'[w].pc # "commit"
           /\ session[w].job = j
           /\ session[w].user \in {jobs[j].owner} \cup Admins]_boardVars

\* "PATCH semantics, only the fields the client sends are changed": the commit
\* of a PATCH leaves the other fields as they are in the row at that moment,
\* not as they were when the request loaded it.
PatchTouchesOnlyItsFields ==
  [][\A w \in Writers :
       (/\ session[w].op = "patch"
        /\ writer[w].pc = "commit" /\ writer'[w].pc = "refresh"
        /\ Exists(session[w].job)) =>
          \A f \in {"owner", "status", "salary_min", "salary_max"} \
                     DOMAIN session[w].body :
            jobs'[session[w].job][f] = jobs[session[w].job][f]]_boardVars

\* When a PATCH is about to be answered with 200, each value it sent, nulls
\* included, is in the row, unless another request wrote that field after the
\* row was loaded, or the row is gone.
AckedPatchStored ==
  \A w \in Writers :
    (/\ session[w].op = "patch"
     /\ writer[w].pc = "respond"
     /\ Exists(session[w].job)) =>
       \A f \in DOMAIN session[w].body :
         \/ jobs[session[w].job][f] = session[w].body[f]
         \/ f \in session[w].raced

SalaryBounds == {"salary_min", "salary_max"}

InOrder(row) ==
  Null \notin {row.salary_min, row.salary_max} => row.salary_min <= row.salary_max

\* salary_min never exceeds salary_max in a stored posting: the rule of both
\* schemas, which JobPostingUpdate leaves to the service for values of two
\* requests.
SalaryRangeOrdered == \A j \in Jobs : Exists(j) => InOrder(jobs[j])

\* A stored range gets out of order only by a PATCH of a bound: one that sent
\* the other bound too was overtaken, between its read of the row and its
\* commit, by a request that wrote a bound.
RangeBrokenOnlyByRace ==
  [][\A j \in Jobs :
       (Exists(j)' /\ ~InOrder(jobs'[j]) /\ (Exists(j) => InOrder(jobs[j]))) =>
         \E w \in Writers :
           /\ writer[w].pc = "commit" /\ writer'[w].pc # "commit"
           /\ session[w].op = "patch" /\ session[w].job = j
           /\ SalaryBounds \cap DOMAIN session[w].body # {}
           /\ SalaryBounds \subseteq DOMAIN session[w].body =>
                SalaryBounds \cap session[w].raced # {}]_boardVars

\* With rows forgotten, the job board is the JobListing that is proved about.
ImplementsListing == SafeSpec
=============================================================================
