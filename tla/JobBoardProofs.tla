--------------------------- MODULE JobBoardProofs ---------------------------
(***************************************************************************)
(* Theorems about JobBoard, for any requests, postings, users and bodies:  *)
(* it implements JobListing, so what JobListingProofs shows of listings    *)
(* holds of it; only owners and admins change a posting; what a PATCH that *)
(* was answered sent is stored; and a DELETE that was answered is final in *)
(* the listings.                                                           *)
(***************************************************************************)
EXTENDS JobBoard, JobListingProofs

Created == [op : {"create"}, user : Users, job : Jobs, body : Creations,
            loaded : {Unborn}, raced : SUBSET Fields]
Patched == [op : {"patch"}, user : Users, job : Jobs, body : Patches,
            loaded : Row, raced : SUBSET Fields]
Deleted == [op : {"delete"}, user : Users, job : Jobs, body : {<<>>},
            loaded : Row, raced : SUBSET Fields]

Rows ==
  /\ jobs \in [Jobs -> Row \cup {Unborn, Gone}]
  /\ openAt \in [0..MaxCommits -> SUBSET Jobs]
  /\ deleted \subseteq Jobs
  /\ goneFor \in [Readers -> SUBSET Jobs]

Sessions ==
  /\ session \in [Writers -> {NoSession} \cup Created \cup Patched \cup Deleted]
  /\ \A w \in Writers : session[w] = NoSession <=> writer[w].pc = "idle"

\* Who patches or deletes a posting was its owner when it was loaded, or is
\* an admin; and a posting keeps its owner.
Owned ==
  \A w \in Writers :
    session[w].op \in {"patch", "delete"} =>
      /\ session[w].user \in {session[w].loaded.owner} \cup Admins
      /\ jobs[session[w].job] # Unborn
      /\ Exists(session[w].job) => jobs[session[w].job].owner = session[w].loaded.owner

\* Until it is committed, a new posting is its creator's alone.
Apart ==
  \A v, w \in Writers :
    (/\ session[w].op = "create"
     /\ writer[w].pc = "commit") =>
       /\ jobs[session[w].job] = Unborn
       /\ session[v] # NoSession /\ session[v].job = session[w].job => v = w

\* A field of the row is the one that a PATCH loaded, and after its commit the
\* one that it sent, unless another request wrote the field since.
FieldsKept ==
  \A w \in Writers :
    (session[w].op = "patch" /\ Exists(session[w].job)) =>
      \A f \in Fields :
        \/ f \in session[w].raced
        \/ /\ writer[w].pc = "commit"
           /\ jobs[session[w].job][f] = session[w].loaded[f]
        \/ /\ writer[w].pc # "commit"
           /\ f \in DOMAIN session[w].body =>
                jobs[session[w].job][f] = session[w].body[f]

\* Since change n the posting j has been in no listing, and never will be.
GoneSince(j, n) ==
  /\ jobs[j] = Gone
  /\ \A k \in n..commits : j \notin openAt[k]

Finality ==
  /\ openAt[commits] = OpenJobs(jobs)
  /\ \A j \in deleted : GoneSince(j, acked)
  /\ \A w \in Writers :
       session[w].op = "delete" /\ writer[w].pc # "commit" =>
         GoneSince(session[w].job, writer[w].at)
  /\ \A r \in Readers : \A j \in goneFor[r] : GoneSince(j, reader[r].floor)

BoardInv == Rows /\ Sessions /\ Owned /\ Apart /\ FieldsKept /\ Finality

-----------------------------------------------------------------------------
(* The board implements the listing.                                       *)

\* Every step of the board is a step of the listing, or none.
LEMMA BoardStep ==
  ASSUME [BoardNext]_boardVars
  PROVE  [Next]_vars
<1>1. ASSUME NEW w \in Writers, NEW u \in Users, NEW j \in Jobs,
             \/ \E body \in Creations : BeginCreate(w, u, j, body)
             \/ \E body \in Patches : BeginPatch(w, u, j, body)
             \/ BeginDelete(w, u, j)
      PROVE  Next
  BY <1>1 DEF BeginCreate, BeginPatch, BeginDelete, BeginChange, Next
<1>2. ASSUME NEW w \in Writers, NEW u \in Users, NEW j \in Jobs, Refuse(w, u, j)
      PROVE  UNCHANGED vars
  BY <1>2 DEF Refuse, boardVars
<1>3. ASSUME NEW w \in Writers,
             CommitJob(w) \/ RefreshJob(w) \/ BumpJobs(w) \/ AcknowledgeJob(w) \/ AbortWrite(w)
      PROVE  Next
  BY <1>3 DEF CommitJob, RefreshJob, BumpJobs, AcknowledgeJob, AbortWrite, WriterStep, Next
<1>4. ASSUME NEW r \in Readers, NEW p \in Pages, AskForListing(r, p)
      PROVE  Next
  BY <1>4 DEF AskForListing, Next
<1>5. ASSUME NEW r \in Readers, ListingStep(r)
      PROVE  Next
  BY <1>5 DEF ListingStep, Next
<1>6. ASSUME NEW v \in 0..MaxBumps, NEW p \in Pages, ExpirePage(v, p)
      PROVE  Next
  BY <1>6 DEF ExpirePage, Next
<1>7. CASE UNCHANGED boardVars
  BY <1>7 DEF boardVars
<1> QED BY <1>1, <1>2, <1>3, <1>4, <1>5, <1>6, <1>7 DEF BoardNext

\* With rows forgotten, the job board behaves as the cached listing does.
THEOREM BoardImplementsListing == BoardSpec => ImplementsListing
<1>1. BoardInit => Init
  BY DEF BoardInit
<1> QED BY <1>1, BoardStep, PTL DEF BoardSpec, ImplementsListing, SafeSpec

\* So listings of the board are as new as what was acknowledged when they
\* were asked for.
COROLLARY BoardListingsVisible == BoardSpec => []ListingInvariant
BY BoardImplementsListing, ListingInvariantHolds, PTL DEF ImplementsListing

\* And with the cache forgotten as well, the board behaves as the register:
\* the two refinements compose.
COROLLARY BoardImplementsRegister == BoardSpec => ImplementsRegister
BY BoardImplementsListing, ListingImplementsRegister, PTL DEF ImplementsListing

\* An answered write to the rows is in every listing asked for afterwards.
COROLLARY BoardAckedWritesVisible == BoardSpec => []AckedWritesVisible
BY BoardImplementsListing, AckedWritesAlwaysVisible, PTL DEF ImplementsListing

-----------------------------------------------------------------------------
(* Rows and sessions.                                                      *)

LEMMA RowFields ==
  ASSUME NEW row \in Row
  PROVE  DOMAIN row = Fields \cup {"owner"}
BY DEF Row, Fields

LEMMA UpdatedTyped ==
  ASSUME NEW row \in Row, NEW change, DOMAIN change \subseteq Fields,
         \A f \in DOMAIN change : change[f] \in Values(f),
         "status" \in DOMAIN change => change.status # Null
  PROVE  /\ Updated(row, change) \in Row
         /\ Updated(row, change).owner = row.owner
<1> DEFINE new == Updated(row, change)
<1>1. DOMAIN new = {"owner", "status", "salary_min", "salary_max"}
  BY RowFields DEF Updated, Fields
<1>2. /\ new.owner = row.owner /\ new.status \in Status
      /\ new.salary_min \in Salaries \cup {Null}
      /\ new.salary_max \in Salaries \cup {Null}
  BY RowFields DEF Updated, Fields, Values, Row
<1>3. new = [owner |-> new.owner, status |-> new.status,
             salary_min |-> new.salary_min, salary_max |-> new.salary_max]
  BY RowFields, <1>1 DEF Updated
<1>4. row.owner \in Users
  BY DEF Row
<1> HIDE DEF new
<1>5. new \in Row
  BY <1>2, <1>3, <1>4 DEF Row
<1> QED BY <1>2, <1>5 DEF new

\* The update of a row leaves alone what the change does not name.
LEMMA UpdatedField ==
  ASSUME NEW row \in Row, NEW change, NEW f \in Fields \cup {"owner"}
  PROVE  Updated(row, change)[f] = IF f \in DOMAIN change THEN change[f] ELSE row[f]
BY RowFields DEF Updated

LEMMA NetChangeTyped ==
  ASSUME NEW body \in Patches, NEW loaded \in Row
  PROVE  LET change == NetChange(body, loaded) IN
         /\ DOMAIN change \subseteq Fields
         /\ DOMAIN change \subseteq DOMAIN body
         /\ \A f \in DOMAIN change : change[f] \in Values(f) /\ change[f] = body[f]
         /\ \A f \in DOMAIN body \ DOMAIN change : body[f] = loaded[f]
BY BoardAssumption DEF NetChange

LEMMA SessionOf ==
  ASSUME Sessions, NEW w \in Writers
  PROVE  /\ session[w].op = "create" <=> session[w] \in Created
         /\ session[w].op = "patch" <=> session[w] \in Patched
         /\ session[w].op = "delete" <=> session[w] \in Deleted
         /\ session[w] # NoSession => session[w] \in Created \cup Patched \cup Deleted
         /\ writer[w].pc # "idle" => session[w] # NoSession
         /\ session[w].op \in {"create", "patch", "delete"} => writer[w].pc # "idle"
<1>1. session[w] \in {NoSession} \cup Created \cup Patched \cup Deleted
  BY DEF Sessions
<1>2. NoSession.op = "none"
  BY DEF NoSession
<1> QED BY <1>1, <1>2 DEF Sessions, Created, Patched, Deleted

LEMMA NoRow ==
  /\ Unborn \notin Row /\ Gone \notin Row /\ Unborn # Gone
  /\ \A j \in Jobs : jobs \in [Jobs -> Row \cup {Unborn, Gone}] =>
       (Exists(j) <=> jobs[j] \in Row)
BY BoardAssumption DEF Exists

-----------------------------------------------------------------------------
(* What a commit does.                                                     *)

\* The commit of w puts row in place of the row of its session.
Changes(w, row, fields) ==
  LET s == session[w] IN
  /\ Write(w, row, fields)
  /\ fields \subseteq Fields
  /\ \/ s.op = "create" /\ row \in Row
     \/ s.op = "delete" /\ row = Gone /\ Exists(s.job)
     \/ /\ s.op = "patch" /\ Exists(s.job)
        /\ row \in Row /\ row.owner = jobs[s.job].owner
        /\ fields \subseteq DOMAIN s.body
        /\ \A f \in Fields : row[f] = IF f \in fields THEN s.body[f] ELSE jobs[s.job][f]
        /\ \A f \in DOMAIN s.body \ fields : s.body[f] = s.loaded[f]

\* The commit of w finds nothing to write.
ChangesNothing(w) ==
  LET s == session[w] IN
  /\ WriteNothing
  /\ \/ s.op = "delete" /\ ~Exists(s.job)
     \/ s.op = "patch" /\ \A f \in DOMAIN s.body : s.body[f] = s.loaded[f]

LEMMA CommitChanges ==
  ASSUME Rows, Sessions, NEW w \in Writers, CommitJob(w)
  PROVE  \/ \E row, fields : Changes(w, row, fields)
         \/ ChangesNothing(w)
<1> DEFINE s == session[w]
<1>1. CASE CommitCreate(w)
  <2> DEFINE row == [owner |-> s.user, status |-> "draft",
                     salary_min |-> s.body.salary_min, salary_max |-> s.body.salary_max]
  <2>1. s \in Created
    BY <1>1, SessionOf DEF CommitCreate
  <2>2. s.user \in Users /\ s.body \in Creations
    BY <2>1 DEF Created
  <2>3. s.body.salary_min \in Salaries \cup {Null} /\ s.body.salary_max \in Salaries \cup {Null}
    BY <2>2, BoardAssumption
  <2>4. row \in Row
    BY <2>2, <2>3 DEF Row, Status
  <2>5. Write(w, row, {}) /\ s.op = "create"
    BY <1>1 DEF CommitCreate
  <2> HIDE DEF row
  <2>6. Changes(w, row, {})
    BY <2>4, <2>5 DEF Changes
  <2> QED BY <2>6
<1>2. CASE CommitPatch(w)
  <2> DEFINE change == NetChange(s.body, s.loaded)
             old == jobs[s.job]
  <2>1. s \in Patched /\ s.op = "patch"
    BY <1>2, SessionOf DEF CommitPatch
  <2>2. s.body \in Patches /\ s.loaded \in Row /\ s.job \in Jobs
    BY <2>1 DEF Patched
  <2>3. /\ DOMAIN change \subseteq Fields
        /\ DOMAIN change \subseteq DOMAIN s.body
        /\ \A f \in DOMAIN change : change[f] \in Values(f) /\ change[f] = s.body[f]
        /\ \A f \in DOMAIN s.body \ DOMAIN change : s.body[f] = s.loaded[f]
    BY <2>2, NetChangeTyped
  <2>4. \/ DOMAIN change = {} /\ WriteNothing
        \/ /\ DOMAIN change # {}
           /\ Exists(s.job)
           /\ "status" \in DOMAIN change => change.status # Null
           /\ Write(w, Updated(old, change), DOMAIN change)
    BY <1>2 DEF CommitPatch
  <2> HIDE DEF change
  <2>5. CASE DOMAIN change = {} /\ WriteNothing
    BY <2>1, <2>3, <2>5 DEF ChangesNothing
  <2>6. CASE /\ Exists(s.job)
             /\ "status" \in DOMAIN change => change.status # Null
             /\ Write(w, Updated(old, change), DOMAIN change)
    <3>1. old \in Row
      BY <2>2, <2>6, NoRow DEF Rows
    <3>2. Updated(old, change) \in Row /\ Updated(old, change).owner = old.owner
      BY <2>3, <2>6, <3>1, UpdatedTyped
    <3>3. \A f \in Fields : Updated(old, change)[f] =
                             IF f \in DOMAIN change THEN s.body[f] ELSE old[f]
      BY <2>3, <3>1, UpdatedField
    <3>4. Changes(w, Updated(old, change), DOMAIN change)
      BY <2>1, <2>3, <2>6, <3>2, <3>3 DEF Changes
    <3> QED BY <3>4
  <2> QED BY <2>4, <2>5, <2>6
<1>3. CASE CommitDelete(w)
  <2>1. CASE Exists(s.job) /\ Write(w, Gone, {})
    <3>1. Changes(w, Gone, {})
      BY <1>3, <2>1 DEF CommitDelete, Changes
    <3> QED BY <3>1
  <2>2. CASE ~Exists(s.job) /\ WriteNothing
    BY <1>3, <2>2 DEF CommitDelete, ChangesNothing
  <2> QED BY <1>3, <2>1, <2>2 DEF CommitDelete
<1> QED BY <1>1, <1>2, <1>3 DEF CommitJob

\* The request that commits moves on; no other request does.
LEMMA CommitMoves ==
  ASSUME TypeOK, NEW w \in Writers, CommitJob(w)
  PROVE  /\ writer[w].pc = "commit" /\ writer'[w].pc \in {"refresh", "bump"}
         /\ writer'[w].at = commits'
         /\ \A v \in Writers \ {w} : writer'[v] = writer[v]
         /\ commits' \in {commits, commits + 1} /\ commits' \in 0..MaxCommits
         /\ UNCHANGED <<acked, reader, deleted, goneFor>>
<1>1. Commit(w) /\ UNCHANGED <<deleted, goneFor>>
  BY DEF CommitJob
<1>2. PICK next \in {"refresh", "bump"} :
        writer' = [writer EXCEPT ![w] = [pc |-> next, at |-> commits']]
  BY <1>1 DEF Commit
<1>3. writer' = [v \in Writers |-> IF v = w THEN [pc |-> next, at |-> commits'] ELSE writer[v]]
  BY <1>2 DEF TypeOK
<1>4. writer[w].pc = "commit" /\ UNCHANGED <<acked, reader>>
  BY <1>1 DEF Commit
<1>5. commits' \in {commits, commits + 1} /\ commits' \in 0..MaxCommits
  BY <1>1, ListingAssumption DEF Commit, TypeOK
<1> QED BY <1>1, <1>3, <1>4, <1>5

\* A change replaces one row, and the sessions of others note its fields.
LEMMA Changed ==
  ASSUME TypeOK, Rows, Sessions, NEW w \in Writers, NEW row, NEW fields,
         CommitJob(w), Changes(w, row, fields)
  PROVE  /\ session[w].job \in Jobs
         /\ commits' = commits + 1 /\ commits' \in 0..MaxCommits
         /\ jobs' = [j \in Jobs |-> IF j = session[w].job THEN row ELSE jobs[j]]
         /\ openAt' = [n \in 0..MaxCommits |-> IF n = commits' THEN OpenJobs(jobs')
                                                             ELSE openAt[n]]
         /\ Rows'
         /\ session'[w] = session[w]
         /\ \A v \in Writers :
              /\ session[v] = NoSession => session'[v] = NoSession
              /\ session[v] # NoSession =>
                   /\ session'[v] # NoSession
                   /\ session'[v].op = session[v].op
                   /\ session'[v].user = session[v].user
                   /\ session'[v].job = session[v].job
                   /\ session'[v].body = session[v].body
                   /\ session'[v].loaded = session[v].loaded
                   /\ session[v].raced \subseteq session'[v].raced
                   /\ v # w /\ session[v].job = session[w].job =>
                        fields \subseteq session'[v].raced
         /\ Sessions'
<1> DEFINE s == session[w]
<1>1. s \in Created \cup Patched \cup Deleted
  BY SessionOf DEF Changes
<1>2. s.job \in Jobs
  BY <1>1 DEF Created, Patched, Deleted
<1>3. /\ commits' = commits + 1
      /\ jobs' = [jobs EXCEPT ![s.job] = row]
      /\ openAt' = [openAt EXCEPT ![commits'] = OpenJobs(jobs')]
      /\ session' = [v \in Writers |->
                       IF v # w /\ session[v] # NoSession /\ session[v].job = s.job
                         THEN [session[v] EXCEPT !.raced = @ \cup fields]
                         ELSE session[v]]
  BY DEF Changes, Write
<1>4. /\ commits' \in 0..MaxCommits /\ writer[w].pc = "commit"
      /\ writer'[w].pc \in {"refresh", "bump"}
      /\ \A v \in Writers \ {w} : writer'[v] = writer[v]
      /\ UNCHANGED <<deleted, goneFor>>
  BY CommitMoves
<1>5. jobs' = [j \in Jobs |-> IF j = s.job THEN row ELSE jobs[j]]
  BY <1>3 DEF Rows
<1>6. openAt' = [n \in 0..MaxCommits |-> IF n = commits' THEN OpenJobs(jobs') ELSE openAt[n]]
  BY <1>3 DEF Rows
<1>7. row \in Row \cup {Gone} /\ fields \subseteq Fields
  BY DEF Changes
<1>8. jobs' \in [Jobs -> Row \cup {Unborn, Gone}]
  BY <1>5, <1>7 DEF Rows
<1>9. OpenJobs(jobs') \subseteq Jobs
  BY DEF OpenJobs
<1>10. Rows'
  BY <1>4, <1>6, <1>8, <1>9 DEF Rows
<1>11. session'[w] = session[w]
  BY <1>3
<1>12. ASSUME NEW v \in Writers, session[v] # NoSession
       PROVE  /\ session'[v] \in Created \cup Patched \cup Deleted
              /\ session'[v].op = session[v].op
              /\ session'[v].user = session[v].user
              /\ session'[v].job = session[v].job
              /\ session'[v].body = session[v].body
              /\ session'[v].loaded = session[v].loaded
              /\ session[v].raced \subseteq session'[v].raced
              /\ v # w /\ session[v].job = s.job => fields \subseteq session'[v].raced
  <2>1. session[v] \in Created \cup Patched \cup Deleted
    BY <1>12, SessionOf
  <2>2. CASE v # w /\ session[v].job = s.job
    <3>1. session'[v] = [session[v] EXCEPT !.raced = @ \cup fields]
      BY <1>3, <1>12, <2>2
    <3> QED BY <1>7, <2>1, <3>1 DEF Created, Patched, Deleted
  <2>3. CASE ~(v # w /\ session[v].job = s.job)
    BY <1>3, <2>1, <2>3
  <2> QED BY <2>2, <2>3
<1>13. \A v \in Writers : session[v] = NoSession => session'[v] = NoSession
  BY <1>3
<1>14. NoSession \notin Created \cup Patched \cup Deleted
  BY DEF NoSession, Created, Patched, Deleted
<1>15. \A v \in Writers : session'[v] = NoSession <=> session[v] = NoSession
  BY <1>12, <1>13, <1>14
<1>16. session' \in [Writers -> {NoSession} \cup Created \cup Patched \cup Deleted]
  BY <1>3, <1>12, <1>13
<1>17. Sessions'
  <2>1. ASSUME NEW v \in Writers
        PROVE  session'[v] = NoSession <=> writer'[v].pc = "idle"
    BY <1>4, <1>15 DEF Sessions
  <2> QED BY <1>16, <2>1, Zenon DEF Sessions
<1>18. /\ s.job \in Jobs /\ commits' = commits + 1
       /\ \A v \in Writers : session[v] # NoSession => session'[v] # NoSession
  BY <1>2, <1>3, <1>15
<1> QED BY <1>4, <1>5, <1>6, <1>10, <1>11, <1>12, <1>13, <1>17, <1>18, Zenon

\* What a change never does: a posting that is gone stays gone.
LEMMA ChangeIsOfLive ==
  ASSUME Rows, Sessions, Apart, NEW w \in Writers, NEW row, NEW fields,
         CommitJob(w), Changes(w, row, fields)
  PROVE  jobs[session[w].job] # Gone
<1>1. writer[w].pc = "commit"
  BY DEF CommitJob, Commit
<1>2. CASE session[w].op = "create"
  <2>1. jobs[session[w].job] = Unborn
    BY <1>1, <1>2 DEF Apart
  <2> QED BY <2>1, NoRow
<1>3. CASE Exists(session[w].job)
  BY <1>3 DEF Exists
<1> QED BY <1>2, <1>3 DEF Changes

-----------------------------------------------------------------------------
(* A commit preserves the invariant.                                       *)

LEMMA CommitOwned ==
  ASSUME TypeOK, BoardInv, NEW w \in Writers, NEW row, NEW fields,
         CommitJob(w), Changes(w, row, fields)
  PROVE  Owned'
<1> DEFINE s == session[w]
<1> USE DEF BoardInv
<1> SUFFICES ASSUME NEW v \in Writers, session'[v].op \in {"patch", "delete"}
             PROVE  /\ session'[v].user \in {session'[v].loaded.owner} \cup Admins
                    /\ jobs'[session'[v].job] # Unborn
                    /\ Exists(session[v].job)' =>
                         jobs'[session'[v].job].owner = session'[v].loaded.owner
  BY DEF Owned
<1>1. session[v] # NoSession
  BY Changed DEF NoSession
<1>2. /\ session'[v].op = session[v].op /\ session'[v].user = session[v].user
      /\ session'[v].job = session[v].job /\ session'[v].loaded = session[v].loaded
  BY <1>1, Changed
<1>3. session[v].job \in Jobs
  BY <1>1, SessionOf DEF Created, Patched, Deleted
<1>4. /\ session[v].user \in {session[v].loaded.owner} \cup Admins
      /\ jobs[session[v].job] # Unborn
      /\ Exists(session[v].job) => jobs[session[v].job].owner = session[v].loaded.owner
  BY <1>2 DEF Owned
<1>5. jobs'[session[v].job] = IF session[v].job = s.job THEN row ELSE jobs[session[v].job]
  BY <1>3, Changed
<1>6. CASE session[v].job # s.job
  BY <1>2, <1>4, <1>5, <1>6 DEF Exists
<1>7. CASE session[v].job = s.job /\ s.op = "create"
  <2>1. writer[w].pc = "commit"
    BY CommitMoves
  <2>2. v = w
    BY <1>1, <1>7, <2>1 DEF Apart
  <2> QED BY <1>2, <1>7, <2>2
<1>8. CASE session[v].job = s.job /\ s.op # "create"
  <2>1. \/ row = Gone
        \/ row \in Row /\ Exists(s.job) /\ row.owner = jobs[s.job].owner
    BY <1>8 DEF Changes
  <2> QED BY <1>2, <1>4, <1>5, <1>8, <2>1, NoRow DEF Exists
<1> QED BY <1>6, <1>7, <1>8

LEMMA CommitApart ==
  ASSUME TypeOK, BoardInv, NEW w \in Writers, NEW row, NEW fields,
         CommitJob(w), Changes(w, row, fields)
  PROVE  Apart'
<1> USE DEF BoardInv
<1> SUFFICES ASSUME NEW v \in Writers, NEW u \in Writers,
                    session'[u].op = "create", writer'[u].pc = "commit"
             PROVE  /\ jobs'[session'[u].job] = Unborn
                    /\ session'[v] # NoSession /\ session'[v].job = session'[u].job => v = u
  BY DEF Apart
<1>1. u # w /\ writer[u].pc = "commit" /\ writer[w].pc = "commit"
  BY CommitMoves
<1>2. session[u] # NoSession
  BY Changed DEF NoSession
<1>3. session[u].op = "create" /\ session'[u].job = session[u].job
  BY <1>2, Changed
<1>4. session[u].job \in Jobs
  BY <1>2, SessionOf DEF Created, Patched, Deleted
<1>5. session[w] # NoSession
  BY <1>1, SessionOf
<1>6. session[w].job # session[u].job /\ jobs[session[u].job] = Unborn
  BY <1>1, <1>3, <1>5 DEF Apart
<1>7. jobs'[session[u].job] = Unborn
  BY <1>4, <1>6, Changed
<1>8. ASSUME session'[v] # NoSession, session'[v].job = session'[u].job
      PROVE  v = u
  <2>1. session[v] # NoSession /\ session'[v].job = session[v].job
    BY <1>8, Changed
  <2> QED BY <1>1, <1>3, <1>8, <2>1 DEF Apart
<1> QED BY <1>3, <1>7, <1>8

LEMMA CommitFields ==
  ASSUME TypeOK, BoardInv, NEW w \in Writers, NEW row, NEW fields,
         CommitJob(w), Changes(w, row, fields)
  PROVE  FieldsKept'
<1> DEFINE s == session[w]
<1> USE DEF BoardInv
<1> SUFFICES ASSUME NEW v \in Writers, session'[v].op = "patch",
                    Exists(session[v].job)', NEW f \in Fields
             PROVE  \/ f \in session'[v].raced
                    \/ /\ writer'[v].pc = "commit"
                       /\ jobs'[session'[v].job][f] = session'[v].loaded[f]
                    \/ /\ writer'[v].pc # "commit"
                       /\ f \in DOMAIN session'[v].body =>
                            jobs'[session'[v].job][f] = session'[v].body[f]
  BY DEF FieldsKept
<1>1. session[v] # NoSession
  BY Changed DEF NoSession
<1>2. /\ session'[v].op = session[v].op /\ session'[v].body = session[v].body
      /\ session'[v].job = session[v].job /\ session'[v].loaded = session[v].loaded
      /\ session[v].raced \subseteq session'[v].raced
      /\ v # w /\ session[v].job = s.job => fields \subseteq session'[v].raced
  BY <1>1, Changed
<1>3. session[v].job \in Jobs
  BY <1>1, SessionOf DEF Created, Patched, Deleted
<1>4. jobs'[session[v].job] = IF session[v].job = s.job THEN row ELSE jobs[session[v].job]
  BY <1>3, Changed
<1>5. writer[w].pc = "commit" /\ writer'[w].pc # "commit"
  BY CommitMoves
<1>6. ASSUME Exists(session[v].job)
      PROVE  \/ f \in session[v].raced
             \/ /\ writer[v].pc = "commit"
                /\ jobs[session[v].job][f] = session[v].loaded[f]
             \/ /\ writer[v].pc # "commit"
                /\ f \in DOMAIN session[v].body =>
                     jobs[session[v].job][f] = session[v].body[f]
  BY <1>2, <1>6 DEF FieldsKept
<1>7. CASE session[v].job # s.job
  <2>1. v # w /\ writer'[v] = writer[v]
    BY <1>7, CommitMoves
  <2>2. Exists(session[v].job)
    BY <1>2, <1>4, <1>7 DEF Exists
  <2> QED BY <1>2, <1>4, <1>6, <1>7, <2>1, <2>2
<1>8. CASE session[v].job = s.job /\ v # w
  <2>1. writer'[v] = writer[v]
    BY <1>8, CommitMoves
  <2>2. s.op # "create"
    BY <1>1, <1>5, <1>8 DEF Apart
  <2>3. row # Gone
    BY <1>2, <1>4, <1>8 DEF Exists
  <2>4. Exists(s.job) /\ (f \notin fields => row[f] = jobs[s.job][f])
    BY <2>2, <2>3 DEF Changes
  <2> QED BY <1>2, <1>4, <1>6, <1>8, <2>1, <2>4
<1>9. CASE v = w
  <2>1. /\ Exists(s.job)
        /\ row[f] = IF f \in fields THEN s.body[f] ELSE jobs[s.job][f]
        /\ f \in DOMAIN s.body \ fields => s.body[f] = s.loaded[f]
    BY <1>2, <1>9 DEF Changes
  <2> QED BY <1>2, <1>4, <1>5, <1>6, <1>9, <2>1
<1> QED BY <1>7, <1>8, <1>9

\* What was in no listing since change n stays in none.
LEMMA CommitGone ==
  ASSUME TypeOK, BoardInv, NEW w \in Writers, NEW row, NEW fields,
         CommitJob(w), Changes(w, row, fields),
         NEW j \in Jobs, NEW n \in 0..MaxCommits, GoneSince(j, n)
  PROVE  GoneSince(j, n)'
<1> USE DEF BoardInv
<1>1. j # session[w].job /\ jobs[j] = Gone
  BY ChangeIsOfLive DEF GoneSince
<1>2. jobs'[j] = Gone
  BY <1>1, Changed
<1>3. j \notin OpenJobs(jobs')
  BY <1>2 DEF OpenJobs
<1>4. commits' = commits + 1 /\ commits \in Nat
  BY Changed, ListingAssumption DEF TypeOK
<1>5. ASSUME NEW k \in n..commits'
      PROVE  j \notin openAt'[k]
  <2>1. k \in 0..MaxCommits
    BY <1>4, <1>5, Changed, ListingAssumption
  <2>2. CASE k = commits'
    BY <1>3, <2>1, <2>2, Changed
  <2>3. CASE k # commits'
    <3>1. k \in n..commits
      BY <1>4, <2>3
    <3>2. j \notin openAt[k]
      BY <3>1 DEF GoneSince
    <3> QED BY <2>1, <2>3, <3>2, Changed
  <2> QED BY <2>2, <2>3
<1> QED BY <1>2, <1>5 DEF GoneSince

LEMMA CommitFinality ==
  ASSUME TypeOK, BoardInv, NEW w \in Writers, NEW row, NEW fields,
         CommitJob(w), Changes(w, row, fields)
  PROVE  Finality'
<1> DEFINE s == session[w]
<1> USE DEF BoardInv
<1>1. /\ writer[w].pc = "commit" /\ writer'[w].at = commits'
      /\ \A v \in Writers \ {w} : writer'[v] = writer[v]
      /\ UNCHANGED <<acked, reader, deleted, goneFor>>
  BY CommitMoves
<1>2. openAt'[commits'] = OpenJobs(jobs')
  BY Changed
<1>3. ASSUME NEW j \in deleted'
      PROVE  GoneSince(j, acked)'
  <2>1. j \in Jobs /\ acked \in 0..MaxCommits /\ GoneSince(j, acked)
    BY <1>1, <1>3 DEF Rows, TypeOK, Finality
  <2>2. PICK n \in 0..MaxCommits : n = acked
    BY <2>1
  <2>3. GoneSince(j, n)'
    BY <2>1, <2>2, CommitGone
  <2> QED BY <1>1, <2>2, <2>3 DEF GoneSince
<1>4. ASSUME NEW v \in Writers, session'[v].op = "delete", writer'[v].pc # "commit"
      PROVE  GoneSince(session[v].job, writer[v].at)'
  <2>1. session[v] # NoSession
    BY <1>4, Changed DEF NoSession
  <2>2. session[v].op = "delete" /\ session'[v].job = session[v].job
    BY <1>4, <2>1, Changed
  <2>3. PICK j \in Jobs : j = session[v].job
    BY <2>1, SessionOf DEF Created, Patched, Deleted
  <2>4. CASE v = w
    <3>1. row = Gone
      BY <2>2, <2>4 DEF Changes
    <3>2. jobs'[j] = Gone
      BY <2>3, <2>4, <3>1, Changed
    <3>3. j \notin OpenJobs(jobs')
      BY <3>2 DEF OpenJobs
    <3>4. commits' \in Nat
      BY CommitMoves
    <3>5. \A k \in commits'..commits' : k = commits'
      BY <3>4
    <3> QED BY <1>1, <1>2, <2>2, <2>3, <2>4, <3>2, <3>3, <3>5 DEF GoneSince
  <2>5. CASE v # w
    <3>1. writer'[v] = writer[v]
      BY <1>1, <2>5
    <3>2. PICK n \in 0..MaxCommits : n = writer[v].at
      BY DEF TypeOK, WriteState
    <3>3. GoneSince(j, n)
      BY <1>4, <2>2, <2>3, <3>1, <3>2 DEF Finality
    <3>4. GoneSince(j, n)'
      BY <3>3, CommitGone
    <3> QED BY <2>2, <2>3, <3>1, <3>2, <3>4 DEF GoneSince
  <2> QED BY <2>4, <2>5
<1>5. ASSUME NEW r \in Readers, NEW j \in goneFor'[r]
      PROVE  GoneSince(j, reader[r].floor)'
  <2>1. j \in Jobs /\ reader[r].floor \in 0..MaxCommits /\ GoneSince(j, reader[r].floor)
    BY <1>1, <1>5 DEF Rows, TypeOK, ReadState, Finality
  <2>2. PICK n \in 0..MaxCommits : n = reader[r].floor
    BY <2>1
  <2>3. GoneSince(j, n)'
    BY <2>1, <2>2, CommitGone
  <2> QED BY <1>1, <2>2, <2>3 DEF GoneSince
<1> QED BY <1>2, <1>3, <1>4, <1>5 DEF Finality

\* A commit that writes nothing: a DELETE of a posting already deleted, a
\* PATCH of the values that it loaded.
LEMMA CommitNothing ==
  ASSUME TypeOK, BoardInv, NEW w \in Writers, CommitJob(w), ChangesNothing(w)
  PROVE  BoardInv'
<1> DEFINE s == session[w]
<1> USE DEF BoardInv
<1>1. /\ writer[w].pc = "commit" /\ writer'[w].at = commits'
      /\ writer'[w].pc \in {"refresh", "bump"}
      /\ \A v \in Writers \ {w} : writer'[v] = writer[v]
      /\ UNCHANGED <<acked, reader, deleted, goneFor>>
  BY CommitMoves
<1>2. UNCHANGED <<jobs, openAt, session, commits>>
  BY DEF ChangesNothing, WriteNothing
<1>3. s.op \in {"patch", "delete"}
  BY DEF ChangesNothing
<1>4. Rows'
  BY <1>1, <1>2 DEF Rows
<1>5. \A v \in Writers : writer'[v].pc = "idle" <=> writer[v].pc = "idle"
  BY <1>1
<1>6. Sessions'
  BY <1>2, <1>5 DEF Sessions
<1>7. Owned'
  BY <1>2 DEF Owned, Exists
<1>8. Apart'
  BY <1>1, <1>2 DEF Apart
<1>9. FieldsKept'
  <2> SUFFICES ASSUME NEW v \in Writers, session[v].op = "patch", Exists(session[v].job),
                      NEW f \in Fields
               PROVE  \/ f \in session[v].raced
                      \/ /\ writer'[v].pc = "commit"
                         /\ jobs[session[v].job][f] = session[v].loaded[f]
                      \/ /\ writer'[v].pc # "commit"
                         /\ f \in DOMAIN session[v].body =>
                              jobs[session[v].job][f] = session[v].body[f]
    BY <1>2 DEF FieldsKept, Exists
  <2>1. \/ f \in session[v].raced
        \/ /\ writer[v].pc = "commit"
           /\ jobs[session[v].job][f] = session[v].loaded[f]
        \/ /\ writer[v].pc # "commit"
           /\ f \in DOMAIN session[v].body =>
                jobs[session[v].job][f] = session[v].body[f]
    BY DEF FieldsKept
  <2>2. CASE v # w
    BY <1>1, <2>1, <2>2
  <2>3. CASE v = w
    BY <1>1, <2>1, <2>3 DEF ChangesNothing
  <2> QED BY <2>2, <2>3
<1>10. Finality'
  <2>1. openAt'[commits'] = OpenJobs(jobs')
    BY <1>2 DEF Finality, OpenJobs
  <2>2. \A j \in deleted' : GoneSince(j, acked)'
    BY <1>1, <1>2 DEF Finality, GoneSince
  <2>3. \A r \in Readers : \A j \in goneFor'[r] : GoneSince(j, reader[r].floor)'
    BY <1>1, <1>2 DEF Finality, GoneSince
  <2>4. ASSUME NEW v \in Writers, session'[v].op = "delete", writer'[v].pc # "commit"
        PROVE  GoneSince(session[v].job, writer[v].at)'
    <3>1. CASE v # w
      BY <1>1, <1>2, <2>4, <3>1 DEF Finality, GoneSince
    <3>2. CASE v = w
      <4>1. ~Exists(s.job) /\ s.job \in Jobs /\ jobs[s.job] # Unborn
        <5>1. s \in Deleted
          BY <1>2, <2>4, <3>2, SessionOf
        <5>2. s.job \in Jobs /\ s.op = "delete"
          BY <5>1 DEF Deleted
        <5> QED BY <5>2 DEF ChangesNothing, Owned
      <4>2. jobs[s.job] = Gone
        BY <4>1 DEF Exists
      <4>3. s.job \notin openAt[commits]
        BY <4>2 DEF Finality, OpenJobs
      <4>4. commits \in Nat
        BY DEF TypeOK
      <4>5. \A k \in commits..commits : k = commits
        BY <4>4
      <4> QED BY <1>1, <1>2, <3>2, <4>2, <4>3, <4>5 DEF GoneSince
    <3> QED BY <3>1, <3>2
  <2> QED BY <2>1, <2>2, <2>3, <2>4 DEF Finality
<1> QED BY <1>4, <1>6, <1>7, <1>8, <1>9, <1>10

LEMMA CommitPreserves ==
  ASSUME TypeOK, BoardInv, NEW w \in Writers, CommitJob(w)
  PROVE  BoardInv'
<1>1. Rows /\ Sessions
  BY DEF BoardInv
<1>2. CASE ChangesNothing(w)
  BY <1>2, CommitNothing
<1>3. ASSUME NEW row, NEW fields, Changes(w, row, fields)
      PROVE  BoardInv'
  <2>1. Rows' /\ Sessions'
    BY <1>1, <1>3, Changed
  <2>2. Owned' /\ Apart' /\ FieldsKept' /\ Finality'
    BY <1>3, CommitOwned, CommitApart, CommitFields, CommitFinality
  <2> QED BY <2>1, <2>2 DEF BoardInv
<1> QED BY <1>1, <1>2, <1>3, CommitChanges

-----------------------------------------------------------------------------
(* The other steps preserve it.                                            *)

\* w begins with a posting of its own, or with the row that it read.
Begins(w, j, new) ==
  /\ session' = [session EXCEPT ![w] = new]
  /\ new.job = j
  /\ \/ /\ new.op = "create" /\ jobs[j] = Unborn
        /\ \A v \in Writers : session[v] # NoSession => session[v].job # j
     \/ /\ new.op \in {"patch", "delete"} /\ Exists(j)
        /\ new.loaded = jobs[j] /\ new.user \in {jobs[j].owner} \cup Admins

LEMMA BeginPreserves ==
  ASSUME TypeOK, BoardInv, NEW w \in Writers, NEW u \in Users, NEW j \in Jobs,
         \/ \E body \in Creations : BeginCreate(w, u, j, body)
         \/ \E body \in Patches : BeginPatch(w, u, j, body)
         \/ BeginDelete(w, u, j)
  PROVE  BoardInv'
<1> USE DEF BoardInv
<1>1. PICK new \in Created \cup Patched \cup Deleted : Begins(w, j, new)
  <2>1. ASSUME NEW body \in Creations, BeginCreate(w, u, j, body)
        PROVE  \E new \in Created : Begins(w, j, new)
    <3> DEFINE new == [op |-> "create", user |-> u, job |-> j, body |-> body,
                       loaded |-> Unborn, raced |-> {}]
    <3>1. new \in Created /\ new.job = j /\ new.op = "create"
      BY DEF Created
    <3>2. /\ session' = [session EXCEPT ![w] = new]
          /\ jobs[j] = Unborn
          /\ \A v \in Writers : session[v] # NoSession => session[v].job # j
      BY <2>1 DEF BeginCreate
    <3> HIDE DEF new
    <3>3. Begins(w, j, new)
      BY <3>1, <3>2 DEF Begins
    <3> QED BY <3>1, <3>3
  <2>2. ASSUME NEW op \in {"patch", "delete"}, NEW body, BeginChange(w, u, j, op, body),
               op = "patch" => body \in Patches, op = "delete" => body = <<>>
        PROVE  \E new \in Patched \cup Deleted : Begins(w, j, new)
    <3> DEFINE new == [op |-> op, user |-> u, job |-> j, body |-> body,
                       loaded |-> jobs[j], raced |-> {}]
    <3>1. session' = [session EXCEPT ![w] = new] /\ Exists(j) /\ u \in {jobs[j].owner} \cup Admins
      BY <2>2 DEF BeginChange, MayChange
    <3>2. jobs[j] \in Row
      BY <3>1, NoRow DEF Rows
    <3>3. new \in Patched \cup Deleted
      BY <2>2, <3>2 DEF Patched, Deleted
    <3>4. new.job = j /\ new.op \in {"patch", "delete"} /\ new.loaded = jobs[j] /\ new.user = u
      OBVIOUS
    <3> HIDE DEF new
    <3>5. Begins(w, j, new)
      BY <3>1, <3>4 DEF Begins
    <3> QED BY <3>3, <3>5
  <2>3. ASSUME NEW body \in Patches, BeginPatch(w, u, j, body)
        PROVE  \E new \in Patched \cup Deleted : Begins(w, j, new)
    <3>1. BeginChange(w, u, j, "patch", body)
      BY <2>3 DEF BeginPatch
    <3> QED BY <2>2, <2>3, <3>1
  <2>4. ASSUME BeginDelete(w, u, j)
        PROVE  \E new \in Patched \cup Deleted : Begins(w, j, new)
    <3>1. BeginChange(w, u, j, "delete", <<>>)
      BY <2>4 DEF BeginDelete
    <3> QED BY <2>2, <3>1
  <2> QED BY <2>1, <2>3, <2>4
<1>2. BeginWrite(w) /\ UNCHANGED <<jobs, openAt, deleted, goneFor>>
  BY DEF BeginCreate, BeginPatch, BeginDelete, BeginChange
<1>3. /\ writer[w].pc = "idle" /\ writer'[w].pc = "commit"
      /\ \A v \in Writers \ {w} : writer'[v] = writer[v]
      /\ UNCHANGED <<commits, acked, reader>>
  BY <1>2 DEF BeginWrite, TypeOK, WriteState
<1>4. session' = [v \in Writers |-> IF v = w THEN new ELSE session[v]]
  BY <1>1 DEF Sessions, Begins
<1>5. Rows'
  BY <1>2 DEF Rows
<1>6. new # NoSession
  BY DEF NoSession, Created, Patched, Deleted
<1>7. Sessions'
  <2>1. session' \in [Writers -> {NoSession} \cup Created \cup Patched \cup Deleted]
    BY <1>4 DEF Sessions
  <2>2. \A v \in Writers : session'[v] = NoSession <=> writer'[v].pc = "idle"
    BY <1>3, <1>4, <1>6 DEF Sessions
  <2> QED BY <2>1, <2>2, Zenon DEF Sessions
<1>8. Owned'
  <2> SUFFICES ASSUME NEW v \in Writers, session'[v].op \in {"patch", "delete"}
               PROVE  /\ session'[v].user \in {session'[v].loaded.owner} \cup Admins
                      /\ jobs[session'[v].job] # Unborn
                      /\ Exists(session'[v].job) =>
                           jobs[session'[v].job].owner = session'[v].loaded.owner
    BY <1>2 DEF Owned, Exists
  <2>1. CASE v = w
    BY <1>1, <1>4, <2>1 DEF Exists, Begins
  <2>2. CASE v # w
    BY <1>4, <2>2 DEF Owned
  <2> QED BY <2>1, <2>2
<1>9. Apart'
  <2> SUFFICES ASSUME NEW v \in Writers, NEW x \in Writers,
                      session'[x].op = "create", writer'[x].pc = "commit"
               PROVE  /\ jobs[session'[x].job] = Unborn
                      /\ session'[v] # NoSession /\ session'[v].job = session'[x].job => v = x
    BY <1>2 DEF Apart
  <2>1. CASE x = w
    BY <1>1, <1>4, <2>1 DEF Begins
  <2>2. CASE x # w
    <3>1. session[x].op = "create" /\ writer[x].pc = "commit" /\ session'[x] = session[x]
      BY <1>3, <1>4, <2>2
    <3>2. jobs[session[x].job] = Unborn /\ session[x] # NoSession
      BY <3>1, SessionOf DEF Apart
    <3>3. CASE v = w
      BY <1>1, <1>4, <3>1, <3>2, <3>3 DEF Exists, Begins
    <3>4. CASE v # w
      BY <1>4, <3>1, <3>4 DEF Apart
    <3> QED BY <3>1, <3>2, <3>3, <3>4
  <2> QED BY <2>1, <2>2
<1>10. FieldsKept'
  <2> SUFFICES ASSUME NEW v \in Writers, session'[v].op = "patch", Exists(session'[v].job),
                      NEW f \in Fields
               PROVE  \/ f \in session'[v].raced
                      \/ /\ writer'[v].pc = "commit"
                         /\ jobs[session'[v].job][f] = session'[v].loaded[f]
                      \/ /\ writer'[v].pc # "commit"
                         /\ f \in DOMAIN session'[v].body =>
                              jobs[session'[v].job][f] = session'[v].body[f]
    BY <1>2 DEF FieldsKept, Exists
  <2>1. CASE v = w
    BY <1>1, <1>3, <1>4, <2>1 DEF Begins
  <2>2. CASE v # w
    <3>1. session'[v] = session[v] /\ writer'[v] = writer[v]
      BY <1>3, <1>4, <2>2
    <3> QED BY <3>1 DEF FieldsKept
  <2> QED BY <2>1, <2>2
<1>11. Finality'
  <2>1. openAt'[commits'] = OpenJobs(jobs')
    BY <1>2, <1>3 DEF Finality, OpenJobs
  <2>2. \A i \in deleted' : GoneSince(i, acked)'
    BY <1>2, <1>3 DEF Finality, GoneSince
  <2>3. \A r \in Readers : \A i \in goneFor'[r] : GoneSince(i, reader[r].floor)'
    BY <1>2, <1>3 DEF Finality, GoneSince
  <2>4. ASSUME NEW v \in Writers, session'[v].op = "delete", writer'[v].pc # "commit"
        PROVE  GoneSince(session[v].job, writer[v].at)'
    <3>1. session'[v] = session[v] /\ writer'[v] = writer[v]
      BY <1>3, <1>4, <2>4
    <3> QED BY <1>2, <1>3, <2>4, <3>1 DEF Finality, GoneSince
  <2> QED BY <2>1, <2>2, <2>3, <2>4 DEF Finality
<1> QED BY <1>5, <1>7, <1>8, <1>9, <1>10, <1>11

LEMMA GoneLater ==
  ASSUME NEW j, NEW n \in Nat, NEW m \in Nat, n <= m, commits \in Nat, GoneSince(j, n)
  PROVE  GoneSince(j, m)
<1>1. \A k \in m..commits : k \in n..commits
  OBVIOUS
<1> QED BY <1>1 DEF GoneSince

\* A request ends, with its reply or without.
LEMMA EndPreserves ==
  ASSUME TypeOK, BoardInv, NEW w \in Writers, AcknowledgeJob(w) \/ AbortWrite(w)
  PROVE  BoardInv'
<1> USE DEF BoardInv
<1>1. /\ session' = [session EXCEPT ![w] = NoSession]
      /\ writer' = [writer EXCEPT ![w] = NoWrite]
      /\ UNCHANGED <<jobs, openAt, goneFor, commits, reader>>
  BY DEF AcknowledgeJob, AbortWrite, Acknowledge, WriteAborts
<1>2. /\ session' = [v \in Writers |-> IF v = w THEN NoSession ELSE session[v]]
      /\ writer' = [v \in Writers |-> IF v = w THEN NoWrite ELSE writer[v]]
  BY <1>1 DEF Sessions, TypeOK
<1>3. deleted' \subseteq Jobs /\ \A j \in deleted' : GoneSince(j, acked)'
  <2>1. CASE AbortWrite(w)
    BY <1>1, <2>1 DEF AbortWrite, WriteAborts, Finality, GoneSince, Rows
  <2>2. CASE AcknowledgeJob(w)
    <3>1. /\ writer[w].pc = "respond"
          /\ acked' = IF writer[w].at > acked THEN writer[w].at ELSE acked
          /\ deleted' = IF session[w].op = "delete" THEN deleted \cup {session[w].job}
                                                    ELSE deleted
      BY <2>2 DEF AcknowledgeJob, Acknowledge
    <3>2. acked \in Nat /\ writer[w].at \in Nat /\ commits \in Nat
      BY ListingAssumption DEF TypeOK, WriteState
    <3>3. acked' \in Nat /\ acked <= acked' /\ writer[w].at <= acked'
      BY <3>1, <3>2
    <3>4. PICK a \in Nat : a = acked'
      BY <3>3
    <3>5. ASSUME NEW j \in deleted
          PROVE  GoneSince(j, a)
      BY <3>2, <3>3, <3>4, GoneLater DEF Finality
    <3>6. session[w].op = "delete" => GoneSince(session[w].job, a) /\ session[w].job \in Jobs
      BY <3>1, <3>2, <3>3, <3>4, GoneLater, SessionOf DEF Finality, Deleted
    <3>7. \A j \in deleted' : GoneSince(j, a) /\ j \in Jobs
      BY <3>1, <3>5, <3>6 DEF Rows
    <3> QED BY <1>1, <3>4, <3>7 DEF GoneSince
  <2> QED BY <2>1, <2>2
<1>4. NoWrite.pc = "idle" /\ NoSession.op = "none"
  BY DEF NoWrite, NoSession
<1>5. Rows'
  BY <1>1, <1>3 DEF Rows
<1>6. Sessions'
  <2>1. session' \in [Writers -> {NoSession} \cup Created \cup Patched \cup Deleted]
    BY <1>2 DEF Sessions
  <2>2. \A v \in Writers : session'[v] = NoSession <=> writer'[v].pc = "idle"
    BY <1>2, <1>4 DEF Sessions
  <2> QED BY <2>1, <2>2, Zenon DEF Sessions
<1>7. \A v \in Writers : session'[v].op # "none" => session'[v] = session[v] /\ writer'[v] = writer[v]
  BY <1>2, <1>4
<1>8. Owned'
  BY <1>1, <1>7 DEF Owned, Exists
<1>9. Apart'
  BY <1>1, <1>2, <1>4 DEF Apart
<1>10. FieldsKept'
  <2> SUFFICES ASSUME NEW v \in Writers, session'[v].op = "patch", Exists(session'[v].job),
                      NEW f \in Fields
               PROVE  \/ f \in session'[v].raced
                      \/ /\ writer'[v].pc = "commit"
                         /\ jobs[session'[v].job][f] = session'[v].loaded[f]
                      \/ /\ writer'[v].pc # "commit"
                         /\ f \in DOMAIN session'[v].body =>
                              jobs[session'[v].job][f] = session'[v].body[f]
    BY <1>1 DEF FieldsKept, Exists
  <2> QED BY <1>7 DEF FieldsKept
<1>11. Finality'
  <2>1. openAt'[commits'] = OpenJobs(jobs')
    BY <1>1 DEF Finality, OpenJobs
  <2>2. \A r \in Readers : \A j \in goneFor'[r] : GoneSince(j, reader[r].floor)'
    BY <1>1 DEF Finality, GoneSince
  <2>3. ASSUME NEW v \in Writers, session'[v].op = "delete", writer'[v].pc # "commit"
        PROVE  GoneSince(session[v].job, writer[v].at)'
    BY <1>1, <1>7, <2>3 DEF Finality, GoneSince
  <2> QED BY <1>3, <2>1, <2>2, <2>3 DEF Finality
<1> QED BY <1>5, <1>6, <1>8, <1>9, <1>10, <1>11

\* A request goes on after its commit, without touching a row.
LEMMA MovePreserves ==
  ASSUME TypeOK, BoardInv, NEW w \in Writers, RefreshJob(w) \/ BumpJobs(w)
  PROVE  BoardInv'
<1> USE DEF BoardInv
<1>1. /\ writer' = [writer EXCEPT ![w].pc = IF writer[w].pc = "refresh" THEN "bump" ELSE "respond"]
      /\ writer[w].pc \in {"refresh", "bump"}
      /\ UNCHANGED <<rows, goneFor, commits, reader, acked>>
  BY DEF RefreshJob, BumpJobs, Refresh, Bump
<1>2. \A v \in Writers : /\ writer'[v].at = writer[v].at
                         /\ writer'[v].pc = "idle" <=> writer[v].pc = "idle"
                         /\ writer'[v].pc = "commit" <=> writer[v].pc = "commit"
  BY <1>1 DEF TypeOK, WriteState
<1>3. UNCHANGED <<jobs, session, openAt, deleted>>
  BY <1>1 DEF rows
<1>4. Rows'
  BY <1>1, <1>3 DEF Rows
<1>5. Sessions'
  BY <1>2, <1>3 DEF Sessions
<1>6. Owned'
  BY <1>3 DEF Owned, Exists
<1>7. Apart'
  BY <1>2, <1>3 DEF Apart
<1>8. FieldsKept'
  BY <1>2, <1>3 DEF FieldsKept, Exists
<1>9. Finality'
  BY <1>1, <1>2, <1>3 DEF Finality, GoneSince, OpenJobs
<1> QED BY <1>4, <1>5, <1>6, <1>7, <1>8, <1>9

\* A listing request takes a step.
LEMMA ListingPreserves ==
  ASSUME TypeOK, BoardInv, NEW r \in Readers,
         (\E p \in Pages : AskForListing(r, p)) \/ ListingStep(r)
  PROVE  BoardInv'
<1> USE DEF BoardInv
<1>1. UNCHANGED <<jobs, session, openAt, deleted, writer, commits, acked>>
  BY DEF AskForListing, ListingStep, ReadVersion, ReaderStep, Hit, Miss, QueryItems, QueryCount,
         Store, Deliver, ReadFails, rows
<1>2. ASSUME NEW q \in Readers, NEW j \in goneFor'[q]
      PROVE  j \in Jobs /\ GoneSince(j, reader[q].floor)'
  <2>1. ASSUME NEW p \in Pages, AskForListing(r, p)
        PROVE  j \in Jobs /\ GoneSince(j, reader'[q].floor)
    <3>1. /\ goneFor' = [goneFor EXCEPT ![r] = deleted]
          /\ reader' = [reader EXCEPT ![r] = [pc |-> "lookup", ver |-> version, page |-> p,
                                              items |-> 0, total |-> 0, floor |-> acked]]
      BY <2>1 DEF AskForListing, ReadVersion
    <3>2. CASE q = r
      <4>1. j \in deleted /\ reader'[q].floor = acked
        BY <1>2, <3>1, <3>2 DEF Rows, TypeOK
      <4> QED BY <4>1 DEF Finality, Rows
    <3>3. CASE q # r
      <4>1. j \in goneFor[q] /\ reader'[q] = reader[q]
        BY <1>2, <3>1, <3>3 DEF Rows, TypeOK
      <4> QED BY <4>1 DEF Finality, Rows
    <3> QED BY <3>2, <3>3
  <2>2. CASE ListingStep(r)
    <3>1. goneFor' = IF reader'[r].pc = "idle" THEN [goneFor EXCEPT ![r] = {}] ELSE goneFor
      BY <2>2 DEF ListingStep
    <3>2. j \in goneFor[q] /\ (q = r => reader'[r].pc # "idle")
      BY <1>2, <3>1 DEF Rows
    <3>3. \/ reader'[q].floor = reader[q].floor
          \/ q = r /\ reader'[r].pc = "idle"
      <4>1. reader \in [Readers -> ReadState]
        BY DEF TypeOK
      <4>2. CASE Hit(r)
        BY <4>1, <4>2 DEF Hit, ReadState
      <4>3. CASE Miss(r) \/ QueryItems(r) \/ QueryCount(r) \/ Store(r)
        BY <4>1, <4>3 DEF Miss, QueryItems, QueryCount, Store, ReadState
      <4>4. CASE Deliver(r) \/ ReadFails(r)
        BY <4>1, <4>4 DEF Deliver, ReadFails, IdleReader
      <4> QED BY <2>2, <4>2, <4>3, <4>4 DEF ListingStep, ReaderStep
    <3>4. reader'[q].floor = reader[q].floor
      BY <3>2, <3>3
    <3> QED BY <1>1, <3>2, <3>4 DEF Finality, Rows, GoneSince
  <2> QED BY <1>1, <2>1, <2>2 DEF GoneSince
<1>3. goneFor' \in [Readers -> SUBSET Jobs]
  <2>1. goneFor' \in [Readers -> SUBSET Jobs]
    BY DEF AskForListing, ListingStep, Rows
  <2> QED BY <2>1
<1>4. Rows'
  BY <1>1, <1>3 DEF Rows
<1>5. Sessions' /\ Owned' /\ Apart'
  BY <1>1 DEF Sessions, Owned, Apart, Exists
<1>6. FieldsKept'
  BY <1>1 DEF FieldsKept, Exists
<1>7. Finality'
  BY <1>1, <1>2 DEF Finality, GoneSince, OpenJobs
<1> QED BY <1>4, <1>5, <1>6, <1>7

\* Every step preserves the invariant.
LEMMA BoardInvStep ==
  ASSUME TypeOK, BoardInv, [BoardNext]_boardVars
  PROVE  BoardInv'
<1>1. ASSUME NEW w \in Writers, NEW u \in Users, NEW j \in Jobs,
             \/ \E body \in Creations : BeginCreate(w, u, j, body)
             \/ \E body \in Patches : BeginPatch(w, u, j, body)
             \/ BeginDelete(w, u, j)
      PROVE  BoardInv'
  BY <1>1, BeginPreserves
<1>2. ASSUME NEW w \in Writers,
             CommitJob(w) \/ RefreshJob(w) \/ BumpJobs(w) \/ AcknowledgeJob(w) \/ AbortWrite(w)
      PROVE  BoardInv'
  BY <1>2, CommitPreserves, MovePreserves, EndPreserves
<1>3. ASSUME NEW r \in Readers, (\E p \in Pages : AskForListing(r, p)) \/ ListingStep(r)
      PROVE  BoardInv'
  BY <1>3, ListingPreserves
<1>4. ASSUME UNCHANGED <<rows, goneFor, writer, commits, reader, acked>>
      PROVE  BoardInv'
  <2>1. UNCHANGED <<jobs, session, openAt, deleted, goneFor, writer, commits, reader, acked>>
    BY <1>4 DEF rows
  <2>2. Rows' /\ Sessions' /\ Owned' /\ Apart'
    BY <2>1 DEF BoardInv, Rows, Sessions, Owned, Apart, Exists
  <2>3. FieldsKept'
    BY <2>1 DEF BoardInv, FieldsKept, Exists
  <2>4. Finality'
    BY <2>1 DEF BoardInv, Finality, GoneSince, OpenJobs
  <2> QED BY <2>2, <2>3, <2>4 DEF BoardInv
<1>5. ASSUME NEW v \in 0..MaxBumps, NEW p \in Pages, ExpirePage(v, p)
      PROVE  BoardInv'
  BY <1>4, <1>5 DEF ExpirePage, Expire
<1>6. ASSUME NEW w \in Writers, NEW u \in Users, NEW j \in Jobs, Refuse(w, u, j)
      PROVE  BoardInv'
  BY <1>4, <1>6 DEF Refuse, boardVars, vars
<1>7. CASE UNCHANGED boardVars
  BY <1>4, <1>7 DEF boardVars, vars
<1> QED BY <1>1, <1>2, <1>3, <1>5, <1>6, <1>7 DEF BoardNext

LEMMA BoardInvInit ==
  ASSUME BoardInit
  PROVE  BoardInv
<1>1. /\ jobs = InitialJobs
      /\ session = [w \in Writers |-> NoSession]
      /\ openAt = [n \in 0..MaxCommits |-> IF n = 0 THEN OpenJobs(InitialJobs) ELSE {}]
      /\ deleted = {} /\ goneFor = [r \in Readers |-> {}]
      /\ commits = 0 /\ writer = [w \in Writers |-> NoWrite]
  BY DEF BoardInit, Init
<1>2. NoSession.op = "none" /\ NoWrite.pc = "idle"
  BY DEF NoSession, NoWrite
<1>3. OpenJobs(InitialJobs) \subseteq Jobs
  BY DEF OpenJobs
<1>4. Rows
  BY <1>1, <1>3, BoardAssumption DEF Rows
<1>5. Sessions
  BY <1>1, <1>2 DEF Sessions
<1>6. Owned /\ Apart /\ FieldsKept
  BY <1>1, <1>2 DEF Owned, Apart, FieldsKept
<1>7. Finality
  BY <1>1, <1>2, ListingAssumption DEF Finality
<1> QED BY <1>4, <1>5, <1>6, <1>7 DEF BoardInv

\* The rows, the requests in flight about them and the histories of what was
\* deleted fit together in every state, beside the invariant of the listing.
THEOREM BoardInvHolds == BoardSpec => [](ListingInvariant /\ BoardInv)
<1>1. TypeOK /\ BoardInv /\ [BoardNext]_boardVars => BoardInv'
  BY BoardInvStep
<1>2. ListingInvariant => TypeOK
  BY DEF ListingInvariant
<1> QED BY <1>1, <1>2, BoardInvInit, BoardListingsVisible, PTL DEF BoardSpec

\* The variables of the board have their types, and a request in flight is
\* about one posting, for any number of requests.
THEOREM BoardTypeCorrect == BoardSpec => []BoardTypeOK
<1>1. ListingInvariant /\ BoardInv => BoardTypeOK
  <2> SUFFICES ASSUME ListingInvariant, BoardInv
               PROVE  BoardTypeOK
    OBVIOUS
  <2>1. TypeOK /\ Rows /\ Sessions
    BY DEF ListingInvariant, BoardInv
  <2>2. ASSUME NEW w \in Writers, session[w] # NoSession
        PROVE  /\ session[w].op \in {"create", "patch", "delete"}
               /\ session[w].user \in Users
               /\ session[w].job \in Jobs
               /\ session[w].loaded \in Row \cup {Unborn}
               /\ session[w].raced \subseteq Fields
    BY <2>1, <2>2, SessionOf DEF Created, Patched, Deleted
  <2>3. \A w \in Writers : session[w] = NoSession <=> writer[w].pc = "idle"
    BY <2>1 DEF Sessions
  <2> QED BY <2>1, <2>2, <2>3 DEF BoardTypeOK, Rows
<1> QED BY <1>1, BoardInvHolds, PTL

\* A PATCH answered with 200 is in the row, whatever ran beside it.
THEOREM AckedPatchAlwaysStored == BoardSpec => []AckedPatchStored
<1>1. BoardInv => AckedPatchStored
  <2> SUFFICES ASSUME BoardInv, NEW w \in Writers, session[w].op = "patch",
                      writer[w].pc = "respond", Exists(session[w].job),
                      NEW f \in DOMAIN session[w].body
               PROVE  \/ jobs[session[w].job][f] = session[w].body[f]
                      \/ f \in session[w].raced
    BY DEF AckedPatchStored
  <2>1. session[w] \in Patched
    BY SessionOf DEF BoardInv
  <2>2. f \in Fields
    BY <2>1, BoardAssumption DEF Patched
  <2> QED BY <2>2 DEF BoardInv, FieldsKept
<1> QED BY <1>1, BoardInvHolds, PTL

\* A posting whose DELETE was answered is in no listing asked for afterwards.
THEOREM DeletedNeverServed == BoardSpec => []DeletedJobsNotServed
<1>1. ListingInvariant /\ BoardInv => DeletedJobsNotServed
  <2> SUFFICES ASSUME ListingInvariant, BoardInv, NEW r \in Readers, reader[r].pc = "respond",
                      NEW j \in goneFor[r]
               PROVE  j \notin openAt[reader[r].items]
    BY DEF DeletedJobsNotServed, Shown
  <2>1. /\ reader[r].floor <= reader[r].items
        /\ reader[r].items <= reader[r].total /\ reader[r].total <= commits
    BY DEF ListingInvariant, ReadersFresh
  <2>2. /\ reader[r].floor \in Nat /\ reader[r].items \in Nat
        /\ reader[r].total \in Nat /\ commits \in Nat
    BY ListingAssumption DEF ListingInvariant, TypeOK, ReadState
  <2>3. reader[r].items \in reader[r].floor..commits
    BY <2>1, <2>2
  <2> QED BY <2>3 DEF BoardInv, Finality, GoneSince
<1> QED BY <1>1, BoardInvHolds, PTL

\* What one row becomes is what the commit of one request makes it.
LEMMA RowChanges ==
  ASSUME TypeOK, BoardInv, [BoardNext]_boardVars, NEW j \in Jobs, jobs'[j] # jobs[j]
  PROVE  \E w \in Writers : CommitJob(w) /\ session[w].job = j
                            /\ \E row, fields : Changes(w, row, fields)
<1>1. ASSUME NEW w \in Writers, CommitJob(w)
      PROVE  session[w].job = j /\ \E row, fields : Changes(w, row, fields)
  <2>1. ~ChangesNothing(w)
    BY DEF ChangesNothing, WriteNothing
  <2>2. PICK row, fields : Changes(w, row, fields)
    BY <1>1, <2>1, CommitChanges DEF BoardInv
  <2>3. session[w].job = j
    BY <1>1, <2>2, Changed DEF BoardInv
  <2> QED BY <2>2, <2>3
<1>2. ASSUME UNCHANGED jobs
      PROVE  FALSE
  BY <1>2
<1>3. PICK w \in Writers : CommitJob(w)
  BY <1>2 DEF BoardNext, boardVars, rows, BeginCreate, BeginPatch, BeginDelete, BeginChange, Refuse,
              RefreshJob, BumpJobs, AcknowledgeJob, AbortWrite, AskForListing, ListingStep, ExpirePage
<1> QED BY <1>1, <1>3

\* Only its owner and the admins change a posting.
THEOREM OnlyOwnerOrAdminEver == BoardSpec => OnlyOwnerOrAdminChanges
<1>1. TypeOK /\ BoardInv /\ [BoardNext]_boardVars =>
        [\A j \in Jobs :
           Exists(j) /\ jobs'[j] # jobs[j] =>
             \E w \in Writers :
               /\ writer[w].pc = "commit" /\ writer'[w].pc # "commit"
               /\ session[w].job = j
               /\ session[w].user \in {jobs[j].owner} \cup Admins]_boardVars
  <2> SUFFICES ASSUME TypeOK, BoardInv, [BoardNext]_boardVars,
                      NEW j \in Jobs, Exists(j), jobs'[j] # jobs[j]
               PROVE  \E w \in Writers :
                        /\ writer[w].pc = "commit" /\ writer'[w].pc # "commit"
                        /\ session[w].job = j
                        /\ session[w].user \in {jobs[j].owner} \cup Admins
    OBVIOUS
  <2>1. PICK w \in Writers : CommitJob(w) /\ session[w].job = j
                            /\ \E row, fields : Changes(w, row, fields)
    BY RowChanges
  <2>2. writer[w].pc = "commit" /\ writer'[w].pc # "commit"
    BY <2>1, CommitMoves
  <2>3. session[w].op # "create"
    BY <2>1, <2>2 DEF BoardInv, Apart, Exists
  <2>4. session[w].op \in {"patch", "delete"}
    BY <2>1, <2>3 DEF Changes
  <2>5. session[w].user \in {jobs[j].owner} \cup Admins
    BY <2>1, <2>4 DEF BoardInv, Owned
  <2> QED BY <2>1, <2>2, <2>5
<1>2. ListingInvariant => TypeOK
  BY DEF ListingInvariant
<1> QED BY <1>1, <1>2, BoardInvHolds, PTL DEF BoardSpec, OnlyOwnerOrAdminChanges

\* A PATCH leaves the fields that it did not send as they are in the row.
THEOREM PatchTouchesOnlyItsFieldsEver == BoardSpec => PatchTouchesOnlyItsFields
<1>1. TypeOK /\ BoardInv /\ [BoardNext]_boardVars =>
        [\A w \in Writers :
           (/\ session[w].op = "patch"
            /\ writer[w].pc = "commit" /\ writer'[w].pc = "refresh"
            /\ Exists(session[w].job)) =>
              \A f \in {"owner", "status", "salary_min", "salary_max"} \
                         DOMAIN session[w].body :
                jobs'[session[w].job][f] = jobs[session[w].job][f]]_boardVars
  <2> SUFFICES ASSUME TypeOK, BoardInv, [BoardNext]_boardVars,
                      NEW w \in Writers, session[w].op = "patch",
                      writer[w].pc = "commit", writer'[w].pc = "refresh", Exists(session[w].job),
                      NEW f \in {"owner", "status", "salary_min", "salary_max"} \
                                   DOMAIN session[w].body,
                      jobs'[session[w].job] # jobs[session[w].job]
               PROVE  jobs'[session[w].job][f] = jobs[session[w].job][f]
    OBVIOUS
  <2>1. session[w].job \in Jobs
    BY SessionOf DEF BoardInv, Patched
  <2>2. PICK v \in Writers : CommitJob(v) /\ session[v].job = session[w].job
                            /\ \E row, fields : Changes(v, row, fields)
    BY <2>1, RowChanges
  <2>3. v = w
    BY <2>2, CommitMoves
  <2>4. PICK row, fields : Changes(w, row, fields)
    BY <2>2, <2>3
  <2>5. jobs'[session[w].job] = row
    BY <2>1, <2>2, <2>3, <2>4, Changed DEF BoardInv
  <2>6. row[f] = jobs[session[w].job][f]
    BY <2>4 DEF Changes, Fields
  <2> QED BY <2>5, <2>6
<1>2. ListingInvariant => TypeOK
  BY DEF ListingInvariant
<1> QED BY <1>1, <1>2, BoardInvHolds, PTL DEF BoardSpec, PatchTouchesOnlyItsFields

-----------------------------------------------------------------------------
(* Salary ranges.                                                          *)

\* The body of a request in flight was accepted by its schema.
AcceptedBodies ==
  \A w \in Writers :
    session[w].op \in {"create", "patch"} => SalaryAccepted(session[w].body)

LEMMA AcceptedInit ==
  ASSUME BoardInit
  PROVE  AcceptedBodies
BY DEF BoardInit, AcceptedBodies, NoSession

LEMMA AcceptedStep ==
  ASSUME TypeOK, BoardInv, AcceptedBodies, [BoardNext]_boardVars
  PROVE  AcceptedBodies'
<1>1. ASSUME NEW w \in Writers,
             \A v \in Writers \ {w} : session'[v] = session[v],
             session'[w].op \in {"create", "patch"} => SalaryAccepted(session'[w].body)
      PROVE  AcceptedBodies'
  BY <1>1 DEF AcceptedBodies, SalaryAccepted
<1>2. ASSUME UNCHANGED session
      PROVE  AcceptedBodies'
  BY <1>2 DEF AcceptedBodies, SalaryAccepted
<1>3. ASSUME NEW w \in Writers, NEW new, session' = [session EXCEPT ![w] = new],
             new.op \in {"create", "patch"} => SalaryAccepted(new.body)
      PROVE  AcceptedBodies'
  <2>1. session'[w] = new /\ \A v \in Writers \ {w} : session'[v] = session[v]
    BY <1>3 DEF BoardInv, Sessions
  <2> QED BY <1>1, <1>3, <2>1
<1>4. ASSUME NEW w \in Writers, NEW u \in Users, NEW j \in Jobs,
             NEW body \in Creations, BeginCreate(w, u, j, body)
      PROVE  AcceptedBodies'
  <2> DEFINE new == [op |-> "create", user |-> u, job |-> j, body |-> body,
                     loaded |-> Unborn, raced |-> {}]
  <2>1. session' = [session EXCEPT ![w] = new] /\ SalaryAccepted(body) /\ new.body = body
    BY <1>4 DEF BeginCreate
  <2> HIDE DEF new
  <2> QED BY <1>3, <2>1
<1>5. ASSUME NEW w \in Writers, NEW u \in Users, NEW j \in Jobs, NEW op, NEW body,
             BeginChange(w, u, j, op, body),
             op = "delete" \/ SalaryAccepted(body)
      PROVE  AcceptedBodies'
  <2> DEFINE new == [op |-> op, user |-> u, job |-> j, body |-> body,
                     loaded |-> jobs[j], raced |-> {}]
  <2>1. session' = [session EXCEPT ![w] = new] /\ new.body = body /\ new.op = op
    BY <1>5 DEF BeginChange
  <2> HIDE DEF new
  <2> QED BY <1>3, <1>5, <2>1
<1>6. ASSUME NEW w \in Writers, CommitJob(w)
      PROVE  AcceptedBodies'
  <2>1. CASE ChangesNothing(w)
    BY <1>2, <2>1 DEF ChangesNothing, WriteNothing
  <2>2. ASSUME NEW row, NEW fields, Changes(w, row, fields)
        PROVE  AcceptedBodies'
    <3>1. \A v \in Writers :
            \/ session'[v] = session[v]
            \/ session'[v].op = session[v].op /\ session'[v].body = session[v].body
      BY <1>6, <2>2, Changed DEF BoardInv
    <3> QED BY <3>1 DEF AcceptedBodies, SalaryAccepted
  <2> QED BY <1>6, <2>1, <2>2, CommitChanges DEF BoardInv
<1>7. ASSUME NEW w \in Writers, AcknowledgeJob(w) \/ AbortWrite(w)
      PROVE  AcceptedBodies'
  BY <1>3, <1>7 DEF AcknowledgeJob, AbortWrite, NoSession
<1>8. ASSUME NEW w \in Writers, RefreshJob(w) \/ BumpJobs(w)
      PROVE  AcceptedBodies'
  BY <1>2, <1>8 DEF RefreshJob, BumpJobs, rows
<1>9. ASSUME NEW r \in Readers, (\E p \in Pages : AskForListing(r, p)) \/ ListingStep(r)
      PROVE  AcceptedBodies'
  BY <1>2, <1>9 DEF AskForListing, ListingStep, rows
<1>10. ASSUME NEW v \in 0..MaxBumps, NEW p \in Pages, ExpirePage(v, p)
       PROVE  AcceptedBodies'
  BY <1>2, <1>10 DEF ExpirePage, rows
<1>11. ASSUME NEW w \in Writers, NEW u \in Users, NEW j \in Jobs, Refuse(w, u, j)
       PROVE  AcceptedBodies'
  BY <1>2, <1>11 DEF Refuse, boardVars, rows
<1>12. CASE UNCHANGED boardVars
  BY <1>2, <1>12 DEF boardVars, rows
<1> QED BY <1>4, <1>5, <1>6, <1>7, <1>8, <1>9, <1>10, <1>11, <1>12
        DEF BoardNext, BeginPatch, BeginDelete

LEMMA AcceptedHolds == BoardSpec => [](TypeOK /\ BoardInv /\ AcceptedBodies)
<1>1. BoardInit => AcceptedBodies
  BY AcceptedInit
<1>2. TypeOK /\ BoardInv /\ AcceptedBodies /\ [BoardNext]_boardVars => AcceptedBodies'
  BY AcceptedStep
<1>3. ListingInvariant => TypeOK
  BY DEF ListingInvariant
<1> QED BY <1>1, <1>2, <1>3, BoardInvHolds, PTL DEF BoardSpec

\* A new posting is in order, as its schema wants it.
LEMMA CreatedInOrder ==
  ASSUME Rows, Sessions, AcceptedBodies, NEW w \in Writers, CommitJob(w),
         session[w].op = "create"
  PROVE  InOrder(jobs'[session[w].job])
<1> DEFINE s == session[w]
           row == [owner |-> s.user, status |-> "draft",
                   salary_min |-> s.body.salary_min, salary_max |-> s.body.salary_max]
<1>1. s \in Created
  BY SessionOf
<1>2. s.job \in Jobs /\ s.body \in Creations
  BY <1>1 DEF Created
<1>3. DOMAIN s.body = SalaryBounds
  BY <1>2, BoardAssumption DEF SalaryBounds
<1>4. CommitCreate(w)
  BY DEF CommitJob, CommitPatch, CommitDelete
<1>5. jobs' = [jobs EXCEPT ![s.job] = row]
  BY <1>4 DEF CommitCreate, Write
<1>6. jobs'[s.job] = row
  BY <1>2, <1>5 DEF Rows
<1>7. SalaryAccepted(s.body)
  BY DEF AcceptedBodies
<1>8. InOrder(row)
  BY <1>3, <1>7 DEF InOrder, SalaryAccepted, SalaryBounds
<1> QED BY <1>6, <1>8

\* A PATCH of both bounds that nobody overtook leaves them as it sent them.
LEMMA PatchedInOrder ==
  ASSUME TypeOK, BoardInv, AcceptedBodies, NEW w \in Writers, NEW row, NEW fields,
         CommitJob(w), Changes(w, row, fields), session[w].op = "patch",
         InOrder(jobs[session[w].job]), ~InOrder(row)
  PROVE  /\ SalaryBounds \cap DOMAIN session[w].body # {}
         /\ SalaryBounds \subseteq DOMAIN session[w].body =>
              SalaryBounds \cap session[w].raced # {}
<1> DEFINE s == session[w]
           old == jobs[s.job]
<1>1. /\ Exists(s.job) /\ fields \subseteq DOMAIN s.body
      /\ \A f \in Fields : row[f] = IF f \in fields THEN s.body[f] ELSE old[f]
      /\ \A f \in DOMAIN s.body \ fields : s.body[f] = s.loaded[f]
  BY DEF Changes
<1>2. SalaryBounds \subseteq Fields
  BY DEF SalaryBounds, Fields
<1>3. ASSUME SalaryBounds \cap DOMAIN s.body = {}
      PROVE  FALSE
  <2>1. row.salary_min = old.salary_min /\ row.salary_max = old.salary_max
    BY <1>1, <1>2, <1>3 DEF SalaryBounds
  <2> QED BY <2>1 DEF InOrder
<1>4. ASSUME SalaryBounds \subseteq DOMAIN s.body, SalaryBounds \cap s.raced = {}
      PROVE  FALSE
  <2>1. writer[w].pc = "commit"
    BY CommitMoves
  <2>2. \A f \in SalaryBounds : old[f] = s.loaded[f]
    BY <1>1, <1>2, <1>4, <2>1 DEF BoardInv, FieldsKept
  <2>3. \A f \in SalaryBounds : row[f] = s.body[f]
    BY <1>1, <1>2, <1>4, <2>2
  <2>4. SalaryAccepted(s.body)
    BY DEF AcceptedBodies
  <2> QED BY <1>4, <2>3, <2>4 DEF InOrder, SalaryAccepted, SalaryBounds
<1> QED BY <1>3, <1>4

\* The schemas' check keeps ranges in order but for two cases, which the
\* service does not look at: a PATCH of one bound, and one that was overtaken.
THEOREM RangesBreakOnlyByRace == BoardSpec => RangeBrokenOnlyByRace
<1>1. TypeOK /\ BoardInv /\ AcceptedBodies /\ [BoardNext]_boardVars =>
        [\A j \in Jobs :
           (Exists(j)' /\ ~InOrder(jobs'[j]) /\ (Exists(j) => InOrder(jobs[j]))) =>
             \E w \in Writers :
               /\ writer[w].pc = "commit" /\ writer'[w].pc # "commit"
               /\ session[w].op = "patch" /\ session[w].job = j
               /\ SalaryBounds \cap DOMAIN session[w].body # {}
               /\ SalaryBounds \subseteq DOMAIN session[w].body =>
                    SalaryBounds \cap session[w].raced # {}]_boardVars
  <2> SUFFICES ASSUME TypeOK, BoardInv, AcceptedBodies, [BoardNext]_boardVars,
                      NEW j \in Jobs, Exists(j)', ~InOrder(jobs'[j]),
                      Exists(j) => InOrder(jobs[j])
               PROVE  \E w \in Writers :
                        /\ writer[w].pc = "commit" /\ writer'[w].pc # "commit"
                        /\ session[w].op = "patch" /\ session[w].job = j
                        /\ SalaryBounds \cap DOMAIN session[w].body # {}
                        /\ SalaryBounds \subseteq DOMAIN session[w].body =>
                             SalaryBounds \cap session[w].raced # {}
    OBVIOUS
  <2>1. jobs'[j] # jobs[j]
    BY DEF Exists
  <2>2. PICK w \in Writers : CommitJob(w) /\ session[w].job = j
                            /\ \E row, fields : Changes(w, row, fields)
    BY <2>1, RowChanges
  <2>3. PICK row, fields : Changes(w, row, fields)
    BY <2>2
  <2>4. writer[w].pc = "commit" /\ writer'[w].pc # "commit"
    BY <2>2, CommitMoves
  <2>5. jobs'[j] = row
    BY <2>2, <2>3, Changed DEF BoardInv
  <2>6. session[w].op # "create"
    BY <2>2, CreatedInOrder DEF BoardInv
  <2>7. row # Gone
    BY <2>5 DEF Exists
  <2>8. session[w].op = "patch" /\ Exists(j)
    BY <2>2, <2>3, <2>6, <2>7 DEF Changes
  <2>9. /\ SalaryBounds \cap DOMAIN session[w].body # {}
        /\ SalaryBounds \subseteq DOMAIN session[w].body =>
             SalaryBounds \cap session[w].raced # {}
    BY <2>2, <2>3, <2>5, <2>8, PatchedInOrder
  <2> QED BY <2>2, <2>4, <2>8, <2>9
<1> QED BY <1>1, AcceptedHolds, PTL DEF BoardSpec, RangeBrokenOnlyByRace
=============================================================================
