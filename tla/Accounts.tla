------------------------------ MODULE Accounts ------------------------------
(***************************************************************************)
(* Accounts and tokens: racing registrations, login, and calls made with a *)
(* token while its account changes (app/services/user_service.py,          *)
(* auth_service.py, app/core/security.py, app/repositories/                *)
(* user_repository.py, app/api/v1/routes/auth.py and the two dependencies  *)
(* in app/api/v1/dependencies).                                            *)
(*                                                                         *)
(* A request is one HTTP request and is made once.  Its session is a       *)
(* transaction of its own under READ COMMITTED: a registration's row is    *)
(* seen by others at its commit, but its entry in the unique index of      *)
(* email makes other inserts of that email wait from the flush on.         *)
(***************************************************************************)
EXTENDS Naturals

CONSTANTS Requests,
          Staff,        \* users provisioned outside the application
          Emails,
          Normal,       \* Normal[e]: the address EmailStr makes of e
          Allowed,      \* roles of the protected route that is called
          Granted,      \* roles that administrators give
          Lifetime,     \* of a token, in ticks
          MaxNow,       \* bound of the clock
          None

\* A registration's row gets a uuid4 of its own: the request stands for it.
Ids == Requests \cup Staff

Roles == {"admin", "recruiter", "candidate"}

Row == [email : Emails, role : Roles, is_active : BOOLEAN]

ASSUME AccountsAssumption ==
  /\ Normal \in [Emails -> Emails]
  /\ \A e \in Emails : Normal[Normal[e]] = Normal[e]
  /\ Allowed \subseteq Roles /\ Granted \subseteq Roles
  /\ Lifetime \in Nat /\ MaxNow \in Nat
  /\ None \notin Row \cup Ids
  /\ Requests \cap Staff = {}

VARIABLES users,     \* the table users: a row or None for each id
          hired,     \* staff provisioned so far
          inserted,  \* requests whose transaction holds a flushed, open INSERT
          tokens,    \* tokens that clients hold
          now,
          req        \* the requests

vars == <<users, hired, inserted, tokens, now, req>>

\* seen is history: the standings of the account while the request watched.
NoRequest == [op |-> "none", pc |-> "idle", email |-> None, id |-> None,
              exp |-> 0, answer |-> "none", seen |-> {}]

Rows(table) == {table[i] : i \in {j \in Ids : table[j] # None}}

OrNone(rows) == IF rows = {} THEN {None} ELSE rows

\* get_by_email.  With two rows of one email scalar_one_or_none would raise.
ByEmail(table, e) == OrNone({row \in Rows(table) : row.email = e})

\* What the SELECT of request q returns: by primary key, or by email.
Selected(table, q) == IF q.op = "call" THEN {table[q.id]} ELSE ByEmail(table, q.email)

\* What an account entitles to, whatever the code makes of it.
Standing(row) ==
  CASE row = None -> "absent"
    [] row # None /\ ~row.is_active -> "inactive"
    [] row # None /\ row.is_active /\ row.role \in Allowed -> "allowed"
    [] OTHER -> "other_role"

\* A request watches the table until its SELECT, a registration to its answer.
Watching(q) == q.pc = "select" \/ (q.op = "register" /\ q.pc # "done")

Seen(table, q) == {Standing(row) : row \in Selected(table, q)}

Seeing(requests, table) ==
  [r \in Requests |-> IF Watching(requests[r])
                        THEN [requests[r] EXCEPT !.seen = @ \cup Seen(table, requests[r])]
                        ELSE requests[r]]

Init ==
  /\ users = [i \in Ids |-> None] /\ hired = {}
  /\ inserted = {} /\ tokens = {} /\ now = 0
  /\ req = [r \in Requests |-> NoRequest]

Begin(r, q) ==
  /\ req[r] = NoRequest
  /\ req' = [req EXCEPT ![r] = [q EXCEPT !.pc = "select", !.seen = Seen(users, q)]]
  /\ UNCHANGED <<users, hired, inserted, tokens, now>>

\* The session is closed, which ends its transaction, and the reply is sent.
Answer(r, a) ==
  /\ inserted' = inserted \ {r}
  /\ req' = [req EXCEPT ![r].pc = "done", ![r].answer = a]

-----------------------------------------------------------------------------
(* POST /auth/register                                                     *)

\* Mutant: email: str in UserCreate, so the address is stored as it was sent.
BeginRegisterVerbatim(r, e) ==
  Begin(r, [NoRequest EXCEPT !.op = "register", !.email = e])

BeginRegister(r, e) ==
  Begin(r, [NoRequest EXCEPT !.op = "register", !.email = Normal[e]])

\* get_by_email: 409 when the address is taken by a committed row.
FindEmail(r) ==
  /\ req[r].op = "register" /\ req[r].pc = "select"
  /\ IF ByEmail(users, req[r].email) = {None}
       THEN /\ req' = [req EXCEPT ![r].pc = "flush"]
            /\ UNCHANGED inserted
       ELSE Answer(r, "conflict")
  /\ UNCHANGED <<users, hired, tokens, now>>

\* Mutant: the column without unique=True, trusting get_by_email.
NoUniqueIndex(r) == TRUE

\* The unique index: an INSERT of an address waits for an open transaction
\* that inserted it, and is refused when a committed row has it.
NotRefused(r) == ByEmail(users, req[r].email) = {None}

NoneOpen(r) == \A s \in inserted : req[s].email # req[r].email

\* db.flush() of the new row; a refused INSERT is an IntegrityError, 503.
InsertUser(r) ==
  /\ req[r].pc = "flush"
  /\ NoneOpen(r)
  /\ IF NotRefused(r)
       THEN /\ inserted' = inserted \cup {r}
            /\ req' = [req EXCEPT ![r].pc = "commit"]
       ELSE Answer(r, "failed")
  /\ UNCHANGED <<users, hired, tokens, now>>

\* Mutant: register_user ends without db.commit(), and close rolls back.
UserNotCommitted(r) ==
  /\ req[r].pc = "commit"
  /\ Answer(r, "created")
  /\ UNCHANGED <<users, hired, tokens, now>>

\* db.commit(): role and is_active are the model's, never the client's.
CommitUser(r) ==
  /\ req[r].pc = "commit"
  /\ users' = [users EXCEPT ![r] = [email |-> req[r].email, role |-> "candidate",
                                 is_active |-> TRUE]]
  /\ inserted' = inserted \ {r}
  /\ req' = Seeing([req EXCEPT ![r].pc = "refresh"], users')
  /\ UNCHANGED <<hired, tokens, now>>

\* db.refresh() raises when the row is gone: 503 for a stored user.
RefreshUser(r) ==
  /\ req[r].pc = "refresh"
  /\ Answer(r, IF users[r] = None THEN "failed" ELSE "created")
  /\ UNCHANGED <<users, hired, tokens, now>>

-----------------------------------------------------------------------------
(* POST /auth/login                                                        *)

\* The address is looked up as it was typed: OAuth2PasswordRequestForm has a
\* plain string where UserCreate has an EmailStr.
BeginLogin(r, e) == Begin(r, [NoRequest EXCEPT !.op = "login", !.email = e])

\* Mutant: inactive accounts may log in.
CanLogInInactive(row) == row # None

CanLogIn(row) == row # None /\ row.is_active

\* get_by_email; an unknown address and an inactive account look the same.
FindAccount(r) ==
  /\ req[r].op = "login" /\ req[r].pc = "select"
  /\ \/ \E i \in Ids :
          /\ CanLogIn(users[i]) /\ users[i].email = req[r].email
          /\ req' = [req EXCEPT ![r].pc = "verify", ![r].id = i]
          /\ UNCHANGED inserted
     \/ /\ \E row \in ByEmail(users, req[r].email) : ~CanLogIn(row)
        /\ Answer(r, "unauthorized")
  /\ UNCHANGED <<users, hired, tokens, now>>

\* verify_password takes its time on the row as loaded: right or wrong.
IssueToken(r) ==
  /\ req[r].pc = "verify"
  /\ \/ /\ tokens' = tokens \cup {[sub |-> req[r].id, exp |-> now + Lifetime]}
        /\ Answer(r, "token")
     \/ UNCHANGED tokens /\ Answer(r, "wrong_password")
  /\ UNCHANGED <<users, hired, now>>

-----------------------------------------------------------------------------
(* A call of a protected route: get_current_user, then _check_role.        *)

\* decode_access_token: PyJWT refuses a token from its expiry on.
BeginCall(r, t) ==
  Begin(r, [NoRequest EXCEPT !.op = "call", !.id = t.sub, !.exp = t.exp])

RefuseExpired(r) ==
  /\ req[r].op = "call" /\ req[r].pc = "select"
  /\ req[r].exp <= now
  /\ Answer(r, "unauthorized")
  /\ UNCHANGED <<users, hired, tokens, now>>

\* Mutant: the bearer of a token that verifies is let in without its row.
AnyBearer(row) == "ok"

\* 401 for no row or an inactive one, 403 for a role the route does not allow.
Verdict(row) ==
  IF row = None \/ ~row.is_active THEN "unauthorized"
  ELSE IF row.role \notin Allowed THEN "forbidden"
  ELSE "ok"

\* The user is read once and stays the request's user to its end.
LoadUser(r) ==
  /\ req[r].op = "call" /\ req[r].pc = "select"
  /\ req[r].exp > now
  /\ IF Verdict(users[req[r].id]) = "ok"
       THEN req' = [req EXCEPT ![r].pc = "work"] /\ UNCHANGED inserted
       ELSE Answer(r, Verdict(users[req[r].id]))
  /\ UNCHANGED <<users, hired, tokens, now>>

Work(r) ==
  /\ req[r].pc = "work"
  /\ Answer(r, "ok")
  /\ UNCHANGED <<users, hired, tokens, now>>

-----------------------------------------------------------------------------
(* Failures, and what happens outside the application.                     *)

\* Mutant: the session of a request that failed is not closed.
AbortWithoutClose(r) ==
  /\ req[r].pc \notin {"idle", "done"}
  /\ req' = [req EXCEPT ![r].pc = "done", ![r].answer = "failed"]
  /\ UNCHANGED <<users, hired, inserted, tokens, now>>

\* A statement that raises, a worker that dies: an open transaction is
\* rolled back by get_db's close, or by Postgres when the connection breaks.
Abort(r) ==
  /\ req[r].pc \notin {"idle", "done"}
  /\ Answer(r, "failed")
  /\ UNCHANGED <<users, hired, tokens, now>>

\* The table changes outside a request: pending lookups see the new table.
Administer(table) ==
  /\ users' = table
  /\ req' = Seeing(req, table)
  /\ UNCHANGED <<inserted, tokens, now>>

\* Recruiters and admins are provisioned by hand, under the same index.
Provision(i, e, role) ==
  /\ i \notin hired /\ hired' = hired \cup {i}
  /\ ByEmail(users, e) = {None}
  /\ \A s \in inserted : req[s].email # e
  /\ Normal[e] = e
  /\ Administer([users EXCEPT ![i] = [email |-> e, role |-> role, is_active |-> TRUE]])

ChangeUser(i, role, active) ==
  /\ users[i] # None
  /\ Administer([users EXCEPT ![i].role = role, ![i].is_active = active])
  /\ UNCHANGED hired

RemoveUser(i) ==
  /\ users[i] # None
  /\ Administer([users EXCEPT ![i] = None])
  /\ UNCHANGED hired

Tick ==
  /\ now < MaxNow
  /\ now' = now + 1
  /\ UNCHANGED <<users, hired, inserted, tokens, req>>

\* Nothing is left to answer; new requests would be others of their kind.
AllAnswered ==
  /\ \A r \in Requests : req[r].pc = "done"
  /\ UNCHANGED vars

-----------------------------------------------------------------------------

Step(r) ==
  \/ FindEmail(r) \/ InsertUser(r) \/ CommitUser(r) \/ RefreshUser(r)
  \/ FindAccount(r) \/ IssueToken(r)
  \/ RefuseExpired(r) \/ LoadUser(r) \/ Work(r)

Next ==
  \/ \E r \in Requests, e \in Emails : BeginRegister(r, e) \/ BeginLogin(r, e)
  \/ \E r \in Requests, t \in tokens : BeginCall(r, t)
  \/ \E r \in Requests : Step(r) \/ Abort(r)
  \/ \E i \in Staff, e \in Emails, role \in Granted : Provision(i, e, role)
  \/ \E i \in Ids : \/ \E role \in Granted, b \in BOOLEAN : ChangeUser(i, role, b)
                    \/ RemoveUser(i)
  \/ Tick
  \/ AllAnswered

\* A request that can take its next step takes it.
Spec == Init /\ [][Next]_vars /\ \A r \in Requests : WF_vars(Step(r))

-----------------------------------------------------------------------------
(* What is promised.                                                       *)

Standings == {"absent", "inactive", "other_role", "allowed"}

Request == [op : {"none", "register", "login", "call"},
            pc : {"idle", "select", "flush", "commit", "refresh", "verify", "work", "done"},
            email : Emails \cup {None},
            id : Ids \cup {None},
            exp : Nat,
            answer : {"none", "created", "conflict", "token", "ok", "wrong_password",
                      "unauthorized", "forbidden", "failed"},
            seen : SUBSET Standings]

TypeOK ==
  /\ users \in [Ids -> Row \cup {None}]
  /\ hired \subseteq Staff
  /\ \A i \in Staff : users[i] # None => i \in hired
  /\ inserted = {r \in Requests : req[r].pc = "commit"}
  /\ tokens \subseteq [sub : Ids, exp : 0..(MaxNow + Lifetime)]
  /\ now \in 0..MaxNow
  /\ req \in [Requests -> Request]

\* However registrations, provisioning and removals interleave, an address
\* has at most one user, in whatever spelling the clients sent it: what
\* scalar_one_or_none in get_by_email relies on.
OneUserPerEmail ==
  \A i, j \in Ids :
    (users[i] # None /\ users[j] # None /\ Normal[users[i].email] = Normal[users[j].email])
      => i = j

\* An INSERT that waits does so for one other transaction, however many
\* registrations of the address there are, and not for ever: that one's
\* request is still being served, waits for nobody, and no row has come
\* between its INSERT and its commit that would refuse it.
WaitsForOneCommit ==
  \A r \in Requests :
    (req[r].pc = "flush" /\ ~NoneOpen(r)) =>
      \E s \in Requests \ {r} :
        /\ {t \in inserted : req[t].email = req[r].email} = {s}
        /\ req[s].pc = "commit" /\ NotRefused(s)

\* The answer of a login or of a call is the one that some state of the
\* account, between the arrival of the request and its answer, called for:
\* a token only for an account that was active, work only for an active
\* account with an allowed role, and a refusal only for a reason.  The token
\* itself, which may be older than a change of the account, decides nothing
\* but whether it has expired.
AnswersTrue ==
  \A r \in Requests :
    LET q == req[r] IN
    /\ q.pc = "verify" \/ q.answer = "token" => q.seen \cap {"allowed", "other_role"} # {}
    /\ q.pc = "work" \/ q.answer = "ok" => "allowed" \in q.seen
    /\ q.answer = "forbidden" => "other_role" \in q.seen
    /\ q.answer = "unauthorized" =>
         \/ q.op = "call" /\ q.exp <= now
         \/ q.seen \cap {"absent", "inactive"} # {}

\* An INSERT that waits for another transaction, and every other request, is
\* answered in the end: transactions of failed requests are closed.
EveryRequestAnswered ==
  \A r \in Requests : req[r].pc # "idle" ~> req[r].pc = "done"

\* Registration implements the directory: with rows, index and transactions
\* hidden, 201 and 409 mean what Directory says.
Asked(q) ==
  CASE q.op # "register" -> [pc |-> "idle"]
    [] q.op = "register" /\ q.pc = "done" -> [pc |-> "done", answer |-> q.answer]
    [] OTHER -> [pc |-> "open", email |-> q.email,
                 made |-> q.pc = "refresh", met |-> q.seen # {"absent"}]

Registrations == [r \in Requests |-> Asked(req[r])]

Listed(table) == {[email |-> row.email, role |-> row.role] : row \in Rows(table)}

D == INSTANCE Directory WITH accounts <- Listed(users), ask <- Registrations

ImplementsDirectory == D!Spec
=============================================================================
