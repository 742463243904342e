--------------------------- MODULE AccountsProofs ---------------------------
(***************************************************************************)
(* Theorems about Accounts, for any requests, staff, addresses and roles.  *)
(*                                                                         *)
(* One user per email: an address that is stored is a normal one, and the  *)
(* unique index keeps the addresses of rows and of open INSERTs apart.     *)
(*                                                                         *)
(* True answers: until a request has made its SELECT, it has seen what the *)
(* SELECT would return, for each change of the table is seen by those that *)
(* watch.                                                                  *)
(***************************************************************************)
EXTENDS Accounts, TLAPS

\* What the stage of a request says of its fields.
Stages ==
  \A r \in Requests :
    LET q == req[r] IN
    /\ q.pc \in {"flush", "commit", "refresh"} => q.op = "register"
    /\ q.op = "register" => q.email \in Emails /\ Normal[q.email] = q.email
    /\ q.pc = "verify" => q.op = "login" /\ q.id \in Ids
    /\ q.pc = "work" => q.op = "call"
    /\ q.op = "call" => q.id \in Ids
    /\ q.op = "login" => q.email \in Emails

Typed == TypeOK /\ Stages

StoredNormal ==
  \A i \in Ids : users[i] # None => Normal[users[i].email] = users[i].email

StoredOnce ==
  \A i, j \in Ids :
    users[i] # None /\ users[j] # None /\ users[i].email = users[j].email => i = j

OpenApart ==
  \A r \in Requests :
    req[r].pc = "commit" =>
      /\ \A i \in Ids : users[i] # None => users[i].email # req[r].email
      /\ \A s \in Requests :
           req[s].pc = "commit" /\ req[s].email = req[r].email => s = r

UniqueInv == StoredNormal /\ StoredOnce /\ OpenApart

\* Who watches has seen what the table holds.
Watched ==
  \A r \in Requests : Watching(req[r]) => Seen(users, req[r]) \subseteq req[r].seen

-----------------------------------------------------------------------------
(* Rows, standings, and watching.                                          *)

LEMMA NoRow ==
  ASSUME NEW table, NEW e, ByEmail(table, e) = {None},
         NEW i \in Ids, table[i] # None
  PROVE  table[i].email # e
<1> DEFINE rows == {row \in Rows(table) : row.email = e}
<1> SUFFICES ASSUME table[i].email = e
             PROVE  FALSE
  OBVIOUS
<1>1. table[i] \in rows
  BY DEF Rows
<1>2. OrNone(rows) = rows
  BY <1>1 DEF OrNone
<1>3. rows = {None}
  BY <1>2 DEF ByEmail
<1> QED BY <1>1, <1>3

LEMMA NoRowFound ==
  ASSUME NEW table, NEW e, \A i \in Ids : table[i] # None => table[i].email # e
  PROVE  ByEmail(table, e) = {None}
<1>1. {row \in Rows(table) : row.email = e} = {}
  BY DEF Rows
<1> QED BY <1>1 DEF ByEmail, OrNone

LEMMA RowSelected ==
  ASSUME NEW table, NEW q, q.op # "call",
         NEW i \in Ids, table[i] # None, table[i].email = q.email
  PROVE  table[i] \in Selected(table, q)
<1> DEFINE rows == {row \in Rows(table) : row.email = q.email}
<1>1. table[i] \in rows
  BY DEF Rows
<1>2. OrNone(rows) = rows
  BY <1>1 DEF OrNone
<1> QED BY <1>1, <1>2 DEF Selected, ByEmail

LEMMA StandingTyped ==
  ASSUME NEW row
  PROVE  Standing(row) \in Standings
BY DEF Standing, Standings

LEMMA SeenTyped ==
  ASSUME NEW table, NEW q
  PROVE  Seen(table, q) \subseteq Standings
BY StandingTyped DEF Seen

\* Seen looks at what was asked for, and not at the progress made.
LEMMA SeenAsAsked ==
  ASSUME NEW table, NEW p, NEW q,
         p.op = q.op, p.email = q.email, p.id = q.id
  PROVE  Seen(table, p) = Seen(table, q)
BY DEF Seen, Selected

LEMMA SeeingAdds ==
  ASSUME NEW table, NEW requests \in [Requests -> Request], NEW r \in Requests
  PROVE  LET p == requests[r]
             q == Seeing(requests, table)[r] IN
         /\ q \in Request
         /\ q.op = p.op /\ q.pc = p.pc /\ q.email = p.email /\ q.id = p.id
         /\ q.exp = p.exp /\ q.answer = p.answer
         /\ p.seen \subseteq q.seen
         /\ Watching(p) => Seen(table, p) \subseteq q.seen
<1>1. Seen(table, requests[r]) \subseteq Standings
  BY SeenTyped
<1> DEFINE S == Seen(table, requests[r])
<1>2. Seeing(requests, table)[r] =
        IF Watching(requests[r]) THEN [requests[r] EXCEPT !.seen = @ \cup S]
                                 ELSE requests[r]
  BY DEF Seeing
<1>3. requests[r] \in Request
  OBVIOUS
<1> HIDE DEF S
<1>4. S \subseteq Standings
  BY <1>1 DEF S
<1>5. CASE Watching(requests[r])
  BY <1>2, <1>3, <1>4, <1>5 DEF Request, S
<1>6. CASE ~Watching(requests[r])
  BY <1>2, <1>3, <1>6
<1> QED BY <1>5, <1>6

LEMMA SeeingTyped ==
  ASSUME NEW table, NEW requests \in [Requests -> Request]
  PROVE  Seeing(requests, table) \in [Requests -> Request]
<1>1. \A r \in Requests : Seeing(requests, table)[r] \in Request
  BY SeeingAdds
<1>2. Seeing(requests, table) = [r \in Requests |-> Seeing(requests, table)[r]]
  BY DEF Seeing
<1> QED BY <1>1, <1>2

-----------------------------------------------------------------------------
(* Types and stages.                                                       *)

LEMMA InitTyped == Init => Typed
<1> SUFFICES ASSUME Init
             PROVE  Typed
  OBVIOUS
<1>1. NoRequest \in Request
  BY DEF NoRequest, Request, Standings
<1>2. \A r \in Requests : req[r] = NoRequest
  BY DEF Init
<1>3. TypeOK
  BY <1>1, <1>2, AccountsAssumption DEF Init, TypeOK, NoRequest, Ids
<1>4. \A r \in Requests : req[r].op = "none" /\ req[r].pc = "idle"
  <2>1. NoRequest.op = "none" /\ NoRequest.pc = "idle"
    BY DEF NoRequest
  <2> QED BY <1>2, <2>1
<1>5. Stages
  BY <1>4 DEF Stages
<1> QED BY <1>3, <1>5 DEF Typed

\* A request that begins, with op, email, id and exp in place.
LEMMA BeginTyped ==
  ASSUME Typed, NEW r \in Requests, NEW q \in Request, q.pc = "idle",
         q.op = "register" => q.email \in Emails /\ Normal[q.email] = q.email,
         q.op = "login" => q.email \in Emails,
         q.op = "call" => q.id \in Ids,
         Begin(r, q)
  PROVE  Typed'
<1> DEFINE p == [q EXCEPT !.pc = "select", !.seen = Seen(users, q)]
<1>1. p \in Request
  BY SeenTyped DEF Request
<1>2. p.pc = "select" /\ p.op = q.op /\ p.email = q.email /\ p.id = q.id
  BY DEF Request
<1>3. req' = [req EXCEPT ![r] = p] /\ req[r] = NoRequest
  BY DEF Begin
<1> HIDE DEF p
<1>4. req' \in [Requests -> Request]
  BY <1>1, <1>3 DEF Typed, TypeOK
<1>5. \A s \in Requests : req'[s] = IF s = r THEN p ELSE req[s]
  BY <1>3 DEF Typed, TypeOK
<1>6. {s \in Requests : req'[s].pc = "commit"} = {s \in Requests : req[s].pc = "commit"}
  BY <1>2, <1>3, <1>5 DEF NoRequest
<1>7. TypeOK'
  BY <1>4, <1>6 DEF Begin, Typed, TypeOK
<1>8. Stages'
  BY <1>2, <1>5 DEF Typed, Stages
<1> QED BY <1>7, <1>8 DEF Typed

\* A request that goes on to another stage, perhaps with an account found.
LEMMA StageTyped ==
  ASSUME Typed, NEW r \in Requests, NEW q \in Request,
         q.op = req[r].op, q.email = req[r].email,
         q.pc \in {"flush", "commit", "refresh"} => q.op = "register",
         q.pc = "verify" => q.op = "login" /\ q.id \in Ids,
         q.pc = "work" => q.op = "call",
         q.op = "call" => q.id \in Ids,
         req' = [req EXCEPT ![r] = q],
         inserted' = IF q.pc = "commit" THEN inserted \cup {r} ELSE inserted \ {r},
         UNCHANGED <<users, hired, now>>,
         tokens' \subseteq [sub : Ids, exp : 0..(MaxNow + Lifetime)]
  PROVE  Typed'
<1>1. \A s \in Requests : req'[s] = IF s = r THEN q ELSE req[s]
  BY DEF Typed, TypeOK
<1>2. req' \in [Requests -> Request]
  BY DEF Typed, TypeOK
<1>3. inserted' = {s \in Requests : req'[s].pc = "commit"}
  BY <1>1 DEF Typed, TypeOK
<1>4. Stages'
  BY <1>1 DEF Typed, Stages
<1> QED BY <1>2, <1>3, <1>4 DEF Typed, TypeOK

LEMMA AnswerTyped ==
  ASSUME Typed, NEW r \in Requests,
         NEW a \in {"created", "conflict", "token", "ok", "wrong_password",
                    "unauthorized", "forbidden", "failed"},
         Answer(r, a), UNCHANGED <<users, hired, now>>,
         tokens' \subseteq [sub : Ids, exp : 0..(MaxNow + Lifetime)]
  PROVE  Typed'
<1> DEFINE q == [req[r] EXCEPT !.pc = "done", !.answer = a]
<1>1. req[r] \in Request
  BY DEF Typed, TypeOK
<1>2. q \in Request /\ q.pc = "done" /\ q.op = req[r].op
        /\ q.email = req[r].email /\ q.id = req[r].id
  BY <1>1 DEF Request
<1>3. req' = [req EXCEPT ![r] = q]
  BY DEF Answer, Typed, TypeOK
<1>4. q.op = "call" => q.id \in Ids
  BY <1>2 DEF Typed, Stages
<1> HIDE DEF q
<1> QED BY <1>2, <1>3, <1>4, StageTyped DEF Answer

\* The table changes, and those who watch see it.
LEMMA TableTyped ==
  ASSUME Typed, NEW requests \in [Requests -> Request],
         users' \in [Ids -> Row \cup {None}],
         hired' \subseteq Staff, \A i \in Staff : users'[i] # None => i \in hired',
         req' = Seeing(requests, users'),
         \A s \in Requests : /\ requests[s].op = req[s].op
                             /\ requests[s].email = req[s].email
                             /\ requests[s].id = req[s].id
                             /\ \/ requests[s].pc = req[s].pc
                                \/ /\ requests[s].pc = "refresh"
                                   /\ req[s].pc = "commit",
         inserted' = {s \in Requests : requests[s].pc = "commit"},
         UNCHANGED <<tokens, now>>
  PROVE  Typed'
<1>1. req' \in [Requests -> Request]
  BY SeeingTyped
<1>2. \A s \in Requests : /\ req'[s].op = requests[s].op /\ req'[s].pc = requests[s].pc
                          /\ req'[s].email = requests[s].email /\ req'[s].id = requests[s].id
  BY SeeingAdds
<1>3. TypeOK'
  BY <1>1, <1>2 DEF Typed, TypeOK
<1>4. Stages'
  BY <1>2 DEF Typed, Stages
<1> QED BY <1>3, <1>4 DEF Typed

LEMMA TableChangeTyped ==
  ASSUME Typed, NEW table \in [Ids -> Row \cup {None}], Administer(table),
         hired' \subseteq Staff, \A i \in Staff : table[i] # None => i \in hired'
  PROVE  Typed'
<1>1. users' = table /\ req' = Seeing(req, users') /\ UNCHANGED <<inserted, tokens, now>>
  BY DEF Administer
<1>2. req \in [Requests -> Request] /\ inserted = {s \in Requests : req[s].pc = "commit"}
  BY DEF Typed, TypeOK
<1>3. /\ users' \in [Ids -> Row \cup {None}]
      /\ \A i \in Staff : users'[i] # None => i \in hired'
      /\ inserted' = {s \in Requests : req[s].pc = "commit"}
  BY <1>1, <1>2
<1> QED BY <1>1, <1>2, <1>3, TableTyped

LEMMA NextTyped == Typed /\ [Next]_vars => Typed'
<1> SUFFICES ASSUME Typed, [Next]_vars
             PROVE  Typed'
  OBVIOUS
<1> USE AccountsAssumption
<1>0. NoRequest \in Request /\ NoRequest.pc = "idle" /\ NoRequest.op = "none"
  BY DEF NoRequest, Request, Standings
<1>1. ASSUME NEW r \in Requests, NEW e \in Emails, BeginRegister(r, e)
      PROVE  Typed'
  <2> DEFINE q == [NoRequest EXCEPT !.op = "register", !.email = Normal[e]]
  <2>1. q \in Request /\ q.pc = "idle" /\ q.op = "register" /\ q.email = Normal[e]
    BY <1>0 DEF Request
  <2>2. Begin(r, q)
    BY <1>1 DEF BeginRegister
  <2> HIDE DEF q
  <2> QED BY <2>1, <2>2, BeginTyped
<1>2. ASSUME NEW r \in Requests, NEW e \in Emails, BeginLogin(r, e)
      PROVE  Typed'
  <2> DEFINE q == [NoRequest EXCEPT !.op = "login", !.email = e]
  <2>1. q \in Request /\ q.pc = "idle" /\ q.op = "login" /\ q.email = e
    BY <1>0 DEF Request
  <2>2. Begin(r, q)
    BY <1>2 DEF BeginLogin
  <2> HIDE DEF q
  <2> QED BY <2>1, <2>2, BeginTyped
<1>3. ASSUME NEW r \in Requests, NEW t \in tokens, BeginCall(r, t)
      PROVE  Typed'
  <2> DEFINE q == [NoRequest EXCEPT !.op = "call", !.id = t.sub, !.exp = t.exp]
  <2>0. t.sub \in Ids /\ t.exp \in Nat
    BY DEF Typed, TypeOK
  <2>1. q \in Request /\ q.pc = "idle" /\ q.op = "call" /\ q.id \in Ids
    BY <1>0, <2>0 DEF Request
  <2>2. Begin(r, q)
    BY <1>3 DEF BeginCall
  <2> HIDE DEF q
  <2> QED BY <2>1, <2>2, BeginTyped
<1>4. ASSUME NEW r \in Requests, Step(r)
      PROVE  Typed'
  <2>0. req[r] \in Request /\ req \in [Requests -> Request]
          /\ tokens \subseteq [sub : Ids, exp : 0..(MaxNow + Lifetime)]
    BY DEF Typed, TypeOK
  <2>1. CASE FindEmail(r)
    <3>1. CASE req' = [req EXCEPT ![r].pc = "flush"] /\ UNCHANGED inserted
      <4> DEFINE q == [req[r] EXCEPT !.pc = "flush"]
      <4>1. q \in Request /\ q.pc = "flush" /\ q.op = "register"
              /\ q.email = req[r].email /\ q.op = req[r].op
        BY <2>0, <2>1 DEF Request, FindEmail
      <4>2. req' = [req EXCEPT ![r] = q]
        BY <3>1, <2>0
      <4>3. inserted' = inserted \ {r}
        BY <2>1, <3>1 DEF FindEmail, Typed, TypeOK
      <4> HIDE DEF q
      <4> QED BY <2>0, <2>1, <4>1, <4>2, <4>3, StageTyped DEF FindEmail
    <3>2. CASE Answer(r, "conflict")
      BY <2>0, <2>1, <3>2, AnswerTyped DEF FindEmail
    <3> QED BY <2>1, <3>1, <3>2 DEF FindEmail
  <2>2. CASE InsertUser(r)
    <3>1. CASE req' = [req EXCEPT ![r].pc = "commit"] /\ inserted' = inserted \cup {r}
      <4> DEFINE q == [req[r] EXCEPT !.pc = "commit"]
      <4>1. q \in Request /\ q.pc = "commit" /\ q.op = req[r].op /\ q.email = req[r].email
        BY <2>0 DEF Request
      <4>2. req' = [req EXCEPT ![r] = q]
        BY <3>1, <2>0
      <4>3. req[r].op = "register"
        BY <2>2 DEF InsertUser, Typed, Stages
      <4> HIDE DEF q
      <4>4. UNCHANGED <<users, hired, tokens, now>>
        BY <2>2 DEF InsertUser
      <4>5. inserted' = IF q.pc = "commit" THEN inserted \cup {r} ELSE inserted \ {r}
        BY <3>1, <4>1
      <4> QED BY <2>0, <4>1, <4>2, <4>3, <4>4, <4>5, StageTyped
    <3>2. CASE Answer(r, "failed")
      BY <2>0, <2>2, <3>2, AnswerTyped DEF InsertUser
    <3> QED BY <2>2, <3>1, <3>2 DEF InsertUser
  <2>3. CASE CommitUser(r)
    <3> DEFINE requests == [req EXCEPT ![r].pc = "refresh"]
               row == [email |-> req[r].email, role |-> "candidate", is_active |-> TRUE]
    <3>1. requests \in [Requests -> Request]
      BY <2>0 DEF Request
    <3>2. \A s \in Requests :
            /\ requests[s].op = req[s].op /\ requests[s].email = req[s].email
            /\ requests[s].id = req[s].id
            /\ requests[s].pc = IF s = r THEN "refresh" ELSE req[s].pc
      BY <2>0 DEF Request
    <3>3. row \in Row
      <4>1. req[r].email \in Emails
        BY <2>3 DEF CommitUser, Typed, Stages
      <4> QED BY <4>1 DEF Row, Roles
    <3>4. users' = [users EXCEPT ![r] = row] /\ req' = Seeing(requests, users')
      BY <2>3 DEF CommitUser
    <3> HIDE DEF row, requests
    <3>5. users' \in [Ids -> Row \cup {None}]
      BY <3>3, <3>4 DEF Typed, TypeOK
    <3>6. \A i \in Staff : users'[i] # None => i \in hired
      BY <3>4 DEF Typed, TypeOK, Ids
    <3>7. inserted' = {s \in Requests : requests[s].pc = "commit"}
      BY <2>3, <3>2 DEF CommitUser, Typed, TypeOK
    <3>8. UNCHANGED <<hired, tokens, now>> /\ hired \subseteq Staff /\ req[r].pc = "commit"
      BY <2>3 DEF CommitUser, Typed, TypeOK
    <3>9. \A s \in Requests : \/ requests[s].pc = req[s].pc
                             \/ /\ requests[s].pc = "refresh"
                                /\ req[s].pc = "commit"
      BY <3>2, <3>8
    <3>10. hired' \subseteq Staff /\ \A i \in Staff : users'[i] # None => i \in hired'
      BY <3>6, <3>8
    <3> QED BY <3>1, <3>2, <3>4, <3>5, <3>7, <3>8, <3>9, <3>10, TableTyped
  <2>4. CASE RefreshUser(r)
    BY <2>0, <2>4, AnswerTyped DEF RefreshUser
  <2>5. CASE FindAccount(r)
    <3>1. ASSUME NEW i \in Ids,
                 req' = [req EXCEPT ![r].pc = "verify", ![r].id = i],
                 UNCHANGED inserted
          PROVE  Typed'
      <4> DEFINE q == [req[r] EXCEPT !.pc = "verify", !.id = i]
      <4>1. q \in Request /\ q.pc = "verify" /\ q.op = req[r].op /\ q.op = "login"
              /\ q.email = req[r].email /\ q.id = i
        BY <2>0, <2>5 DEF Request, FindAccount
      <4>2. req' = [req EXCEPT ![r] = q]
        BY <3>1, <2>0
      <4>3. inserted' = inserted \ {r}
        BY <2>5, <3>1 DEF FindAccount, Typed, TypeOK
      <4> HIDE DEF q
      <4> QED BY <2>0, <2>5, <4>1, <4>2, <4>3, StageTyped DEF FindAccount
    <3>2. CASE Answer(r, "unauthorized")
      BY <2>0, <2>5, <3>2, AnswerTyped DEF FindAccount
    <3> QED BY <2>5, <3>1, <3>2 DEF FindAccount
  <2>6. CASE IssueToken(r)
    <3>1. req[r].id \in Ids /\ now + Lifetime \in 0..(MaxNow + Lifetime)
      BY <2>6 DEF IssueToken, Typed, Stages, TypeOK
    <3>2. tokens' \subseteq [sub : Ids, exp : 0..(MaxNow + Lifetime)]
      BY <2>0, <2>6, <3>1 DEF IssueToken
    <3> QED BY <2>6, <3>2, AnswerTyped DEF IssueToken
  <2>7. CASE RefuseExpired(r)
    BY <2>0, <2>7, AnswerTyped DEF RefuseExpired
  <2>8. CASE LoadUser(r)
    <3>1. CASE req' = [req EXCEPT ![r].pc = "work"] /\ UNCHANGED inserted
      <4> DEFINE q == [req[r] EXCEPT !.pc = "work"]
      <4>1. q \in Request /\ q.pc = "work" /\ q.op = req[r].op /\ q.op = "call"
              /\ q.email = req[r].email /\ q.id = req[r].id
        BY <2>0, <2>8 DEF Request, LoadUser
      <4>2. req' = [req EXCEPT ![r] = q]
        BY <3>1, <2>0
      <4>3. inserted' = inserted \ {r}
        BY <2>8, <3>1 DEF LoadUser, Typed, TypeOK
      <4>4. req[r].id \in Ids
        BY <2>8 DEF LoadUser, Typed, Stages
      <4> HIDE DEF q
      <4> QED BY <2>0, <2>8, <4>1, <4>2, <4>3, <4>4, StageTyped DEF LoadUser
    <3>2. CASE Answer(r, Verdict(users[req[r].id])) /\ Verdict(users[req[r].id]) # "ok"
      <4>1. Verdict(users[req[r].id]) \in {"unauthorized", "forbidden"}
        BY <3>2 DEF Verdict
      <4> QED BY <2>0, <2>8, <3>2, <4>1, AnswerTyped DEF LoadUser
    <3> QED BY <2>8, <3>1, <3>2 DEF LoadUser
  <2>9. CASE Work(r)
    BY <2>0, <2>9, AnswerTyped DEF Work
  <2> QED BY <1>4, <2>1, <2>2, <2>3, <2>4, <2>5, <2>6, <2>7, <2>8, <2>9 DEF Step
<1>5. ASSUME NEW r \in Requests, Abort(r)
      PROVE  Typed'
  BY <1>5, AnswerTyped DEF Abort, Typed, TypeOK
<1>6. ASSUME NEW i \in Staff, NEW e \in Emails, NEW role \in Granted, Provision(i, e, role)
      PROVE  Typed'
  <2> DEFINE row == [email |-> e, role |-> role, is_active |-> TRUE]
  <2>1. row \in Row
    BY DEF Row
  <2> HIDE DEF row
  <2>2. [users EXCEPT ![i] = row] \in [Ids -> Row \cup {None}]
    BY <2>1 DEF Typed, TypeOK
  <2>3. \A j \in Staff : [users EXCEPT ![i] = row][j] # None => j \in hired \cup {i}
    BY DEF Typed, TypeOK, Ids
  <2>4. Administer([users EXCEPT ![i] = row]) /\ hired' = hired \cup {i} /\ hired' \subseteq Staff
    BY <1>6 DEF Provision, Typed, TypeOK, row
  <2> QED BY <2>2, <2>3, <2>4, TableChangeTyped
<1>7. ASSUME NEW i \in Ids, NEW role \in Granted, NEW b \in BOOLEAN, ChangeUser(i, role, b)
      PROVE  Typed'
  <2>1. users[i] \in Row
    BY <1>7 DEF ChangeUser, Typed, TypeOK
  <2> DEFINE row == [users[i] EXCEPT !.role = role, !.is_active = b]
  <2>2. row \in Row
    BY <2>1 DEF Row
  <2>3. [users EXCEPT ![i].role = role, ![i].is_active = b] = [users EXCEPT ![i] = row]
    BY DEF Typed, TypeOK
  <2> HIDE DEF row
  <2>4. [users EXCEPT ![i] = row] \in [Ids -> Row \cup {None}]
    BY <2>2 DEF Typed, TypeOK
  <2>5. \A j \in Staff : [users EXCEPT ![i] = row][j] # None => j \in hired
    BY <1>7 DEF ChangeUser, Typed, TypeOK, Ids
  <2>6. Administer([users EXCEPT ![i] = row]) /\ hired' = hired /\ hired \subseteq Staff
    BY <1>7, <2>3 DEF ChangeUser, Typed, TypeOK
  <2> QED BY <2>4, <2>5, <2>6, TableChangeTyped
<1>8. ASSUME NEW i \in Ids, RemoveUser(i)
      PROVE  Typed'
  <2>1. [users EXCEPT ![i] = None] \in [Ids -> Row \cup {None}]
    BY DEF Typed, TypeOK
  <2>2. \A j \in Staff : [users EXCEPT ![i] = None][j] # None => j \in hired
    BY DEF Typed, TypeOK, Ids
  <2>3. Administer([users EXCEPT ![i] = None]) /\ hired' = hired /\ hired \subseteq Staff
    BY <1>8 DEF RemoveUser, Typed, TypeOK
  <2> QED BY <2>1, <2>2, <2>3, TableChangeTyped
<1>9. CASE Tick
  BY <1>9 DEF Tick, Typed, TypeOK, Stages
<1>10. CASE AllAnswered \/ UNCHANGED vars
  BY <1>10 DEF AllAnswered, vars, Typed, TypeOK, Stages
<1> QED
  BY <1>1, <1>2, <1>3, <1>4, <1>5, <1>6, <1>7, <1>8, <1>9, <1>10 DEF Next

\* TypeOK holds in every state of the accounts: the stage of a request, the
\* rows, the tokens and the open INSERTs always fit each other.
THEOREM TypeCorrect == Spec => []TypeOK
<1>1. Typed => TypeOK
  BY DEF Typed
<1> QED BY <1>1, InitTyped, NextTyped, PTL DEF Spec

-----------------------------------------------------------------------------
(* One user per email.                                                     *)

\* Rows that go or keep their address, and no new open INSERT.
LEMMA UniqueKept ==
  ASSUME UniqueInv,
         \A i \in Ids : users'[i] # None =>
                          users[i] # None /\ users'[i].email = users[i].email,
         \A s \in Requests : req'[s].pc = "commit" =>
                               req[s].pc = "commit" /\ req'[s].email = req[s].email
  PROVE  UniqueInv'
BY DEF UniqueInv, StoredNormal, StoredOnce, OpenApart

LEMMA AnswerUnique ==
  ASSUME Typed, UniqueInv, NEW r \in Requests, NEW a, Answer(r, a), UNCHANGED users
  PROVE  UniqueInv'
<1>1. \A s \in Requests : req'[s] = IF s = r THEN [req[r] EXCEPT !.pc = "done", !.answer = a]
                                             ELSE req[s]
  BY DEF Answer, Typed, TypeOK
<1>2. [req[r] EXCEPT !.pc = "done", !.answer = a].pc = "done"
  BY DEF Typed, TypeOK, Request
<1> QED BY <1>1, <1>2, UniqueKept

LEMMA BeginUnique ==
  ASSUME Typed, UniqueInv, NEW r \in Requests, NEW q \in Request, Begin(r, q)
  PROVE  UniqueInv'
<1> DEFINE p == [q EXCEPT !.pc = "select", !.seen = Seen(users, q)]
<1>1. p.pc = "select"
  BY DEF Request
<1>2. req' = [req EXCEPT ![r] = p] /\ UNCHANGED users
  BY DEF Begin
<1> HIDE DEF p
<1>3. \A s \in Requests : req'[s] = IF s = r THEN p ELSE req[s]
  BY <1>2 DEF Typed, TypeOK
<1> QED BY <1>1, <1>2, <1>3, UniqueKept

\* A change of the table does not touch the stage of a request.
LEMMA AdministerKeeps ==
  ASSUME Typed, NEW table, Administer(table)
  PROVE  \A s \in Requests : req'[s].pc = req[s].pc /\ req'[s].email = req[s].email
BY SeeingAdds DEF Administer, Typed, TypeOK

\* A row under an address that no row and no open INSERT has.
LEMMA RowAdded ==
  ASSUME Typed, UniqueInv, NEW i \in Ids, NEW row \in Row,
         Normal[row.email] = row.email,
         \A j \in Ids : users[j] # None => users[j].email # row.email,
         users' = [users EXCEPT ![i] = row],
         \A s \in Requests : req'[s].pc = "commit" =>
                               /\ req[s].pc = "commit" /\ req'[s].email = req[s].email
                               /\ req[s].email # row.email
  PROVE  UniqueInv'
<1>1. \A j \in Ids : users'[j] = IF j = i THEN row ELSE users[j]
  BY DEF Typed, TypeOK
<1>2. StoredNormal' /\ StoredOnce'
  BY <1>1 DEF UniqueInv, StoredNormal, StoredOnce
<1>3. OpenApart'
  BY <1>1 DEF UniqueInv, OpenApart
<1> QED BY <1>2, <1>3 DEF UniqueInv

LEMMA UniqueStep == Typed /\ UniqueInv /\ [Next]_vars => UniqueInv'
<1> SUFFICES ASSUME Typed, UniqueInv, [Next]_vars
             PROVE  UniqueInv'
  OBVIOUS
<1> USE AccountsAssumption
<1>0. NoRequest \in Request
  BY DEF NoRequest, Request, Standings
<1>1. ASSUME NEW r \in Requests, NEW e \in Emails, BeginRegister(r, e)
      PROVE  UniqueInv'
  <2>1. [NoRequest EXCEPT !.op = "register", !.email = Normal[e]] \in Request
    BY <1>0 DEF Request
  <2> QED BY <1>1, <2>1, BeginUnique DEF BeginRegister
<1>2. ASSUME NEW r \in Requests, NEW e \in Emails, BeginLogin(r, e)
      PROVE  UniqueInv'
  <2>1. [NoRequest EXCEPT !.op = "login", !.email = e] \in Request
    BY <1>0 DEF Request
  <2> QED BY <1>2, <2>1, BeginUnique DEF BeginLogin
<1>3. ASSUME NEW r \in Requests, NEW t \in tokens, BeginCall(r, t)
      PROVE  UniqueInv'
  <2>1. t.sub \in Ids /\ t.exp \in Nat
    BY DEF Typed, TypeOK
  <2>2. [NoRequest EXCEPT !.op = "call", !.id = t.sub, !.exp = t.exp] \in Request
    BY <1>0, <2>1 DEF Request
  <2> QED BY <1>3, <2>2, BeginUnique DEF BeginCall
<1>4. ASSUME NEW r \in Requests, NEW pc \in {"flush", "refresh", "work", "verify"},
             NEW q \in Request, q.pc = pc, req' = [req EXCEPT ![r] = q], UNCHANGED users
      PROVE  UniqueInv'
  <2>1. \A s \in Requests : req'[s] = IF s = r THEN q ELSE req[s]
    BY <1>4 DEF Typed, TypeOK
  <2> QED BY <1>4, <2>1, UniqueKept
<1>5. ASSUME NEW r \in Requests, Step(r)
      PROVE  UniqueInv'
  <2>0. req[r] \in Request /\ req \in [Requests -> Request]
    BY DEF Typed, TypeOK
  <2>1. CASE FindEmail(r)
    <3>1. CASE req' = [req EXCEPT ![r].pc = "flush"]
      <4>1. [req[r] EXCEPT !.pc = "flush"] \in Request
              /\ [req[r] EXCEPT !.pc = "flush"].pc = "flush"
        BY <2>0 DEF Request
      <4> QED BY <1>4, <2>0, <2>1, <3>1, <4>1 DEF FindEmail
    <3> QED BY <2>1, <3>1, AnswerUnique DEF FindEmail
  <2>2. CASE InsertUser(r)
    <3>1. CASE NotRefused(r) /\ req' = [req EXCEPT ![r].pc = "commit"]
      <4>1. \A s \in Requests : /\ req'[s].pc = IF s = r THEN "commit" ELSE req[s].pc
                                /\ req'[s].email = req[s].email
        BY <2>0, <3>1 DEF Request
      <4>2. \A i \in Ids : users[i] # None => users[i].email # req[r].email
        BY <3>1, NoRow DEF NotRefused
      <4>3. \A s \in Requests : req[s].pc = "commit" => req[s].email # req[r].email
        BY <2>2 DEF InsertUser, NoneOpen, Typed, TypeOK
      <4>4. UNCHANGED users
        BY <2>2 DEF InsertUser
      <4> QED BY <4>1, <4>2, <4>3, <4>4 DEF UniqueInv, StoredNormal, StoredOnce, OpenApart
    <3> QED BY <2>2, <3>1, AnswerUnique DEF InsertUser
  <2>3. CASE CommitUser(r)
    <3> DEFINE requests == [req EXCEPT ![r].pc = "refresh"]
               row == [email |-> req[r].email, role |-> "candidate", is_active |-> TRUE]
    <3>1. \A s \in Requests : /\ requests[s].pc = IF s = r THEN "refresh" ELSE req[s].pc
                              /\ requests[s].email = req[s].email
      BY <2>0 DEF Request
    <3>2. requests \in [Requests -> Request]
      BY <2>0 DEF Request
    <3>3. req[r].email \in Emails /\ Normal[req[r].email] = req[r].email
            /\ req[r].pc = "commit"
      BY <2>3 DEF CommitUser, Typed, Stages
    <3>4. row \in Row /\ row.email = req[r].email
      BY <3>3 DEF Row, Roles
    <3>5. users' = [users EXCEPT ![r] = row] /\ req' = Seeing(requests, users') /\ r \in Ids
      BY <2>3 DEF CommitUser, Ids
    <3> HIDE DEF requests, row
    <3>6. \A s \in Requests : req'[s].pc = requests[s].pc /\ req'[s].email = requests[s].email
      BY <3>2, <3>5, SeeingAdds
    <3>7. \A s \in Requests : req'[s].pc = "commit" =>
            /\ req[s].pc = "commit" /\ req'[s].email = req[s].email
            /\ req[s].email # row.email
      BY <3>1, <3>3, <3>4, <3>6 DEF UniqueInv, OpenApart
    <3>8. \A j \in Ids : users[j] # None => users[j].email # row.email
      BY <3>3, <3>4 DEF UniqueInv, OpenApart
    <3> QED BY <3>3, <3>4, <3>5, <3>7, <3>8, RowAdded, ZenonT(30)
  <2>4. CASE FindAccount(r)
    <3>1. ASSUME NEW i \in Ids, req' = [req EXCEPT ![r].pc = "verify", ![r].id = i]
          PROVE  UniqueInv'
      <4> DEFINE q == [req[r] EXCEPT !.pc = "verify", !.id = i]
      <4>1. q \in Request /\ q.pc = "verify"
        BY <2>0 DEF Request
      <4>2. req' = [req EXCEPT ![r] = q]
        BY <2>0, <3>1
      <4> HIDE DEF q
      <4> QED BY <1>4, <2>4, <4>1, <4>2 DEF FindAccount
    <3> QED BY <2>4, <3>1, AnswerUnique DEF FindAccount
  <2>5. CASE LoadUser(r)
    <3>1. CASE req' = [req EXCEPT ![r].pc = "work"]
      <4>1. [req[r] EXCEPT !.pc = "work"] \in Request
              /\ [req[r] EXCEPT !.pc = "work"].pc = "work"
        BY <2>0 DEF Request
      <4> QED BY <1>4, <2>0, <2>5, <3>1, <4>1 DEF LoadUser
    <3> QED BY <2>5, <3>1, AnswerUnique DEF LoadUser
  <2>6. CASE RefreshUser(r) \/ IssueToken(r) \/ RefuseExpired(r) \/ Work(r)
    BY <2>6, AnswerUnique DEF RefreshUser, IssueToken, RefuseExpired, Work
  <2> QED BY <1>5, <2>1, <2>2, <2>3, <2>4, <2>5, <2>6 DEF Step
<1>6. ASSUME NEW r \in Requests, Abort(r)
      PROVE  UniqueInv'
  BY <1>6, AnswerUnique DEF Abort
<1>7. ASSUME NEW i \in Staff, NEW e \in Emails, NEW role \in Granted, Provision(i, e, role)
      PROVE  UniqueInv'
  <2> DEFINE row == [email |-> e, role |-> role, is_active |-> TRUE]
  <2>1. row \in Row /\ row.email = e /\ i \in Ids
    BY DEF Row, Ids
  <2>2. Administer([users EXCEPT ![i] = row])
    BY <1>7 DEF Provision
  <2> HIDE DEF row
  <2>3. users' = [users EXCEPT ![i] = row]
    BY <2>2 DEF Administer
  <2>4. \A j \in Ids : users[j] # None => users[j].email # e
    BY <1>7, NoRow DEF Provision
  <2>5. Normal[e] = e /\ \A s \in Requests : req[s].pc = "commit" => req[s].email # e
    BY <1>7 DEF Provision, Typed, TypeOK
  <2>6. \A s \in Requests : req'[s].pc = req[s].pc /\ req'[s].email = req[s].email
    BY <2>2, AdministerKeeps
  <2>7. \A s \in Requests : req'[s].pc = "commit" =>
          req[s].pc = "commit" /\ req'[s].email = req[s].email /\ req[s].email # row.email
    BY <2>1, <2>5, <2>6
  <2>8. Normal[row.email] = row.email
          /\ \A j \in Ids : users[j] # None => users[j].email # row.email
    BY <2>1, <2>4, <2>5
  <2> QED BY <2>1, <2>3, <2>7, <2>8, RowAdded
<1>8. ASSUME NEW i \in Ids, NEW role \in Granted, NEW b \in BOOLEAN, ChangeUser(i, role, b)
      PROVE  UniqueInv'
  <2>1. \A s \in Requests : req'[s].pc = req[s].pc /\ req'[s].email = req[s].email
    BY <1>8, AdministerKeeps DEF ChangeUser
  <2>2. users[i] \in Row /\ [users[i] EXCEPT !.role = role, !.is_active = b].email = users[i].email
    BY <1>8 DEF ChangeUser, Typed, TypeOK, Row
  <2>3. \A j \in Ids : users'[j] = IF j = i THEN [users[i] EXCEPT !.role = role, !.is_active = b]
                                            ELSE users[j]
    BY <1>8 DEF ChangeUser, Administer, Typed, TypeOK
  <2>4. \A j \in Ids : users'[j] # None => users[j] # None /\ users'[j].email = users[j].email
    BY <1>8, <2>2, <2>3 DEF ChangeUser
  <2> QED BY <2>1, <2>4, UniqueKept
<1>9. ASSUME NEW i \in Ids, RemoveUser(i)
      PROVE  UniqueInv'
  <2>1. \A s \in Requests : req'[s].pc = req[s].pc /\ req'[s].email = req[s].email
    BY <1>9, AdministerKeeps DEF RemoveUser
  <2>2. \A j \in Ids : users'[j] # None => users[j] # None /\ users'[j].email = users[j].email
    BY <1>9 DEF RemoveUser, Administer, Typed, TypeOK
  <2> QED BY <2>1, <2>2, UniqueKept
<1>10. CASE Tick \/ AllAnswered \/ UNCHANGED vars
  BY <1>10, UniqueKept DEF Tick, AllAnswered, vars
<1> QED
  BY <1>1, <1>2, <1>3, <1>5, <1>6, <1>7, <1>8, <1>9, <1>10 DEF Next

\* An address has at most one user, in whatever spelling it was sent, however
\* many registrations, provisionings and removals are at work: what
\* scalar_one_or_none in get_by_email relies on.
THEOREM OneUserAlways == Spec => []OneUserPerEmail
<1>1. Init => UniqueInv
  BY DEF Init, UniqueInv, StoredNormal, StoredOnce, OpenApart, NoRequest
<1>2. UniqueInv => OneUserPerEmail
  BY DEF UniqueInv, StoredNormal, StoredOnce, OneUserPerEmail
<1> QED BY <1>1, <1>2, InitTyped, NextTyped, UniqueStep, PTL DEF Spec

\* An INSERT that waits for another transaction waits for a single one, whose
\* commit neither waits nor is refused: the unique index lets nobody else in,
\* and get_db closes the session of a request that failed.
THEOREM InsertsWaitForOne == Spec => []WaitsForOneCommit
<1>1. Init => UniqueInv
  BY DEF Init, UniqueInv, StoredNormal, StoredOnce, OpenApart, NoRequest
<1>2. Typed /\ UniqueInv => WaitsForOneCommit
  <2> SUFFICES ASSUME Typed, UniqueInv, NEW r \in Requests, req[r].pc = "flush", ~NoneOpen(r)
               PROVE  \E s \in Requests \ {r} :
                        /\ {t \in inserted : req[t].email = req[r].email} = {s}
                        /\ req[s].pc = "commit" /\ NotRefused(s)
    BY DEF WaitsForOneCommit
  <2>1. inserted = {t \in Requests : req[t].pc = "commit"}
    BY DEF Typed, TypeOK
  <2>2. PICK s \in inserted : req[s].email = req[r].email
    BY DEF NoneOpen
  <2>3. s \in Requests \ {r} /\ req[s].pc = "commit"
    BY <2>1, <2>2
  <2>4. {t \in inserted : req[t].email = req[r].email} = {s}
    BY <2>1, <2>2, <2>3 DEF UniqueInv, OpenApart
  <2>5. NotRefused(s)
    BY <2>3, NoRowFound DEF UniqueInv, OpenApart, NotRefused
  <2> QED BY <2>3, <2>4, <2>5
<1> QED BY <1>1, <1>2, InitTyped, NextTyped, UniqueStep, PTL DEF Spec

-----------------------------------------------------------------------------
(* True answers.                                                           *)

\* The answer of q is true at time t: AnswersTrue for one request.
Truthful(q, t) ==
  /\ q.pc = "verify" \/ q.answer = "token" => q.seen \cap {"allowed", "other_role"} # {}
  /\ q.pc = "work" \/ q.answer = "ok" => "allowed" \in q.seen
  /\ q.answer = "forbidden" => "other_role" \in q.seen
  /\ q.answer = "unauthorized" => \/ q.op = "call" /\ q.exp <= t
                                  \/ q.seen \cap {"absent", "inactive"} # {}

LEMMA AnswersTruthful == AnswersTrue <=> \A r \in Requests : Truthful(req[r], now)
BY DEF AnswersTrue, Truthful

TrueInv == Watched /\ AnswersTrue

\* Seeing more, later, keeps an answer true.
LEMMA TruthGrows ==
  ASSUME NEW p \in Request, NEW q \in Request, NEW s \in Nat, NEW t \in Nat, s <= t,
         Truthful(p, s), p.op = q.op, p.exp = q.exp, p.answer = q.answer,
         q.pc \in {"verify", "work"} => q.pc = p.pc, p.seen \subseteq q.seen
  PROVE  Truthful(q, t)
BY DEF Truthful, Request

\* One request moves on, and the table stays.
LEMMA MoveTrue ==
  ASSUME Typed, TrueInv, NEW r \in Requests, NEW q \in Request,
         req' = [req EXCEPT ![r] = q], UNCHANGED <<users, now>>,
         Watching(q) => Seen(users, q) \subseteq q.seen,
         Truthful(q, now)
  PROVE  TrueInv'
<1>1. \A s \in Requests : req'[s] = IF s = r THEN q ELSE req[s]
  BY DEF Typed, TypeOK
<1>2. \A s \in Requests : Watching(req'[s]) => Seen(users, req'[s]) \subseteq req'[s].seen
  BY <1>1 DEF TrueInv, Watched
<1>3. Watched'
  BY <1>2 DEF Watched
<1>4. \A s \in Requests : Truthful(req'[s], now)
  BY <1>1, AnswersTruthful DEF TrueInv
<1>5. AnswersTrue'
  BY <1>4 DEF AnswersTrue, Truthful
<1> QED BY <1>3, <1>5 DEF TrueInv

\* A registration goes on to its next stage.
LEMMA StageTrue ==
  ASSUME Typed, TrueInv, NEW r \in Requests, NEW pc \in {"flush", "commit"},
         Watching(req[r]), req' = [req EXCEPT ![r].pc = pc], UNCHANGED <<users, now>>
  PROVE  TrueInv'
<1> DEFINE q == [req[r] EXCEPT !.pc = pc]
<1>1. req[r] \in Request /\ now \in Nat
  BY AccountsAssumption DEF Typed, TypeOK
<1>2. /\ q \in Request /\ q.pc = pc /\ q.op = req[r].op /\ q.email = req[r].email
      /\ q.id = req[r].id /\ q.exp = req[r].exp /\ q.answer = req[r].answer
      /\ q.seen = req[r].seen
  BY <1>1 DEF Request
<1>3. req' = [req EXCEPT ![r] = q]
  BY DEF Typed, TypeOK
<1> HIDE DEF q
<1>4. Seen(users, q) \subseteq q.seen
  BY <1>2, SeenAsAsked DEF TrueInv, Watched
<1>5. Truthful(q, now)
  BY <1>1, <1>2, AnswersTruthful, TruthGrows DEF TrueInv
<1> QED BY <1>2, <1>3, <1>4, <1>5, MoveTrue

\* A request is answered, with an answer that is true.
LEMMA AnswerTrue ==
  ASSUME Typed, TrueInv, NEW r \in Requests,
         NEW a \in {"created", "conflict", "token", "ok", "wrong_password",
                    "unauthorized", "forbidden", "failed"},
         Answer(r, a), UNCHANGED <<users, now>>,
         a = "token" => req[r].seen \cap {"allowed", "other_role"} # {},
         a = "ok" => "allowed" \in req[r].seen,
         a = "forbidden" => "other_role" \in req[r].seen,
         a = "unauthorized" => \/ req[r].op = "call" /\ req[r].exp <= now
                               \/ req[r].seen \cap {"absent", "inactive"} # {}
  PROVE  TrueInv'
<1> DEFINE q == [req[r] EXCEPT !.pc = "done", !.answer = a]
<1>1. /\ q \in Request /\ q.pc = "done" /\ q.answer = a
      /\ q.op = req[r].op /\ q.exp = req[r].exp /\ q.seen = req[r].seen
  BY ZenonT(30) DEF Typed, TypeOK, Request
<1>2. req' = [req EXCEPT ![r] = q]
  BY DEF Answer, Typed, TypeOK
<1> HIDE DEF q
<1>3. ~Watching(q)
  BY <1>1 DEF Watching
<1>4. Truthful(q, now)
  BY <1>1 DEF Truthful
<1> QED BY <1>1, <1>2, <1>3, <1>4, MoveTrue

LEMMA BeginTrue ==
  ASSUME Typed, TrueInv, NEW r \in Requests, NEW q \in Request, q.answer = "none", Begin(r, q)
  PROVE  TrueInv'
<1> DEFINE p == [q EXCEPT !.pc = "select", !.seen = Seen(users, q)]
<1>1. /\ p \in Request /\ p.pc = "select" /\ p.answer = "none" /\ p.seen = Seen(users, q)
      /\ p.op = q.op /\ p.email = q.email /\ p.id = q.id
  BY SeenTyped DEF Request
<1>2. req' = [req EXCEPT ![r] = p] /\ UNCHANGED <<users, now>>
  BY DEF Begin
<1> HIDE DEF p
<1>3. Seen(users, p) \subseteq p.seen
  BY <1>1, SeenAsAsked
<1>4. Truthful(p, now)
  BY <1>1 DEF Truthful
<1> QED BY <1>1, <1>2, <1>3, <1>4, MoveTrue

\* The table changes, and those who watch see it.
LEMMA TableTrue ==
  ASSUME Typed, TrueInv, NEW requests \in [Requests -> Request],
         req' = Seeing(requests, users'), UNCHANGED now,
         \A s \in Requests : /\ requests[s].op = req[s].op /\ requests[s].exp = req[s].exp
                             /\ requests[s].answer = req[s].answer
                             /\ requests[s].seen = req[s].seen
                             /\ requests[s].pc \in {"verify", "work"} =>
                                  requests[s].pc = req[s].pc
  PROVE  TrueInv'
<1>0. now \in Nat /\ \A s \in Requests : req[s] \in Request
  BY AccountsAssumption DEF Typed, TypeOK
<1>1. ASSUME NEW s \in Requests
      PROVE  /\ Truthful(req'[s], now)
             /\ Watching(req'[s]) => Seen(users', req'[s]) \subseteq req'[s].seen
  <2> DEFINE p == requests[s]
             q == req'[s]
  <2>1. /\ q \in Request /\ q.op = p.op /\ q.pc = p.pc /\ q.email = p.email /\ q.id = p.id
        /\ q.exp = p.exp /\ q.answer = p.answer /\ p.seen \subseteq q.seen
        /\ Watching(p) => Seen(users', p) \subseteq q.seen
    BY SeeingAdds
  <2>2. Truthful(req[s], now)
    BY AnswersTruthful DEF TrueInv
  <2> HIDE DEF q
  <2>3. Truthful(q, now)
    <3>1. /\ req[s].op = q.op /\ req[s].exp = q.exp /\ req[s].answer = q.answer
          /\ q.pc \in {"verify", "work"} => q.pc = req[s].pc
          /\ req[s].seen \subseteq q.seen
      BY <2>1
    <3> QED BY <1>0, <2>1, <2>2, <3>1, TruthGrows
  <2>4. Watching(q) => Seen(users', q) \subseteq q.seen
    <3>1. Watching(q) <=> Watching(p)
      BY <2>1 DEF Watching
    <3>2. Seen(users', q) = Seen(users', p)
      BY <2>1, SeenAsAsked
    <3> QED BY <2>1, <3>1, <3>2
  <2> QED BY <2>3, <2>4 DEF q
<1>2. Watched'
  BY <1>1 DEF Watched
<1>3. AnswersTrue'
  BY <1>1 DEF AnswersTrue, Truthful
<1> QED BY <1>2, <1>3 DEF TrueInv

LEMMA AdministerTrue ==
  ASSUME Typed, TrueInv, NEW table, Administer(table)
  PROVE  TrueInv'
<1>1. req' = Seeing(req, users') /\ UNCHANGED now /\ req \in [Requests -> Request]
  BY DEF Administer, Typed, TypeOK
<1> QED BY <1>1, TableTrue

\* What a request that waits for its SELECT will be told, it has seen.
LEMMA SelectedSeen ==
  ASSUME TrueInv, NEW r \in Requests, req[r].pc = "select",
         NEW row \in Selected(users, req[r])
  PROVE  Standing(row) \in req[r].seen
BY DEF TrueInv, Watched, Watching, Seen

LEMMA TrueStep == Typed /\ TrueInv /\ [Next]_vars => TrueInv'
<1> SUFFICES ASSUME Typed, TrueInv, [Next]_vars
             PROVE  TrueInv'
  OBVIOUS
<1>0. NoRequest \in Request /\ NoRequest.answer = "none"
  BY DEF NoRequest, Request, Standings
<1>1. ASSUME NEW r \in Requests, NEW e \in Emails, BeginRegister(r, e)
      PROVE  TrueInv'
  <2> DEFINE q == [NoRequest EXCEPT !.op = "register", !.email = Normal[e]]
  <2>1. q \in Request /\ q.answer = "none"
    BY <1>0, AccountsAssumption DEF Request
  <2> QED BY <1>1, <2>1, BeginTrue DEF BeginRegister
<1>2. ASSUME NEW r \in Requests, NEW e \in Emails, BeginLogin(r, e)
      PROVE  TrueInv'
  <2> DEFINE q == [NoRequest EXCEPT !.op = "login", !.email = e]
  <2>1. q \in Request /\ q.answer = "none"
    BY <1>0 DEF Request
  <2> QED BY <1>2, <2>1, BeginTrue DEF BeginLogin
<1>3. ASSUME NEW r \in Requests, NEW t \in tokens, BeginCall(r, t)
      PROVE  TrueInv'
  <2> DEFINE q == [NoRequest EXCEPT !.op = "call", !.id = t.sub, !.exp = t.exp]
  <2>1. t.sub \in Ids /\ t.exp \in Nat
    BY AccountsAssumption DEF Typed, TypeOK
  <2>2. q \in Request /\ q.answer = "none"
    BY <1>0, <2>1 DEF Request
  <2> QED BY <1>3, <2>2, BeginTrue DEF BeginCall
<1>4. ASSUME NEW r \in Requests, Step(r)
      PROVE  TrueInv'
  <2>0. req[r] \in Request /\ req \in [Requests -> Request] /\ Truthful(req[r], now)
    BY AnswersTruthful DEF Typed, TypeOK, TrueInv
  <2>1. CASE FindEmail(r)
    <3>1. Watching(req[r])
      BY <2>1 DEF FindEmail, Watching
    <3> QED BY <2>1, <3>1, StageTrue, AnswerTrue DEF FindEmail
  <2>2. CASE InsertUser(r)
    <3>1. Watching(req[r])
      BY <2>2 DEF InsertUser, Watching, Typed, Stages
    <3> QED BY <2>2, <3>1, StageTrue, AnswerTrue DEF InsertUser
  <2>3. CASE CommitUser(r)
    <3> DEFINE requests == [req EXCEPT ![r].pc = "refresh"]
    <3>1. requests \in [Requests -> Request]
      BY <2>0 DEF Request
    <3>2. \A s \in Requests : /\ requests[s].op = req[s].op /\ requests[s].exp = req[s].exp
                              /\ requests[s].answer = req[s].answer
                              /\ requests[s].seen = req[s].seen
                              /\ requests[s].pc \in {"verify", "work"} =>
                                   requests[s].pc = req[s].pc
      BY <2>0 DEF Request
    <3>3. req' = Seeing(requests, users') /\ UNCHANGED now
      BY <2>3 DEF CommitUser
    <3> HIDE DEF requests
    <3> QED BY <3>1, <3>2, <3>3, TableTrue
  <2>4. CASE RefreshUser(r)
    BY <2>4, AnswerTrue DEF RefreshUser
  <2>5. CASE FindAccount(r)
    <3>1. ASSUME NEW i \in Ids, CanLogIn(users[i]), users[i].email = req[r].email,
                 req' = [req EXCEPT ![r].pc = "verify", ![r].id = i]
          PROVE  TrueInv'
      <4> DEFINE q == [req[r] EXCEPT !.pc = "verify", !.id = i]
      <4>1. /\ q \in Request /\ q.pc = "verify" /\ q.op = "login" /\ q.answer = req[r].answer
            /\ q.seen = req[r].seen /\ q.exp = req[r].exp /\ req[r].op = "login"
        BY <2>0, <2>5 DEF Request, FindAccount
      <4>2. req' = [req EXCEPT ![r] = q]
        BY <2>0, <3>1
      <4> HIDE DEF q
      <4>3. Standing(users[i]) \in req[r].seen
        BY <2>5, <3>1, RowSelected, SelectedSeen DEF CanLogIn, FindAccount
      <4>4. Standing(users[i]) \in {"allowed", "other_role"}
        BY <3>1 DEF CanLogIn, Standing
      <4>5. Truthful(q, now)
        BY <2>0, <4>1, <4>3, <4>4 DEF Truthful
      <4>6. ~Watching(q)
        BY <4>1 DEF Watching
      <4>7. UNCHANGED <<users, now>>
        BY <2>5 DEF FindAccount
      <4> QED BY <4>1, <4>2, <4>5, <4>6, <4>7, MoveTrue
    <3>2. ASSUME NEW row \in ByEmail(users, req[r].email), ~CanLogIn(row),
                 Answer(r, "unauthorized")
          PROVE  TrueInv'
      <4>1. row \in Selected(users, req[r])
        BY <2>5, <3>2 DEF Selected, FindAccount
      <4>2. Standing(row) \in {"absent", "inactive"}
        BY <3>2 DEF Standing, CanLogIn
      <4>3. Standing(row) \in req[r].seen
        BY <2>5, <4>1, SelectedSeen DEF FindAccount
      <4> QED BY <2>5, <3>2, <4>2, <4>3, AnswerTrue DEF FindAccount
    <3> QED BY <2>5, <3>1, <3>2 DEF FindAccount
  <2>6. CASE IssueToken(r)
    <3>1. req[r].seen \cap {"allowed", "other_role"} # {}
      BY <2>0, <2>6 DEF IssueToken, Truthful
    <3> QED BY <2>6, <3>1, AnswerTrue DEF IssueToken
  <2>7. CASE RefuseExpired(r)
    BY <2>7, AnswerTrue DEF RefuseExpired
  <2>8. CASE LoadUser(r)
    <3> DEFINE row == users[req[r].id]
    <3>1. Standing(row) \in req[r].seen
      <4>1. row \in Selected(users, req[r])
        BY <2>8 DEF Selected, LoadUser
      <4> QED BY <2>8, <4>1, SelectedSeen DEF LoadUser
    <3>2. row = None \/ row.is_active \in BOOLEAN
      BY <2>8 DEF LoadUser, Typed, TypeOK, Stages, Row
    <3> HIDE DEF row
    <3>3. CASE Verdict(row) = "ok"
      <4> DEFINE q == [req[r] EXCEPT !.pc = "work"]
      <4>1. /\ q \in Request /\ q.pc = "work" /\ q.answer = req[r].answer /\ q.op = req[r].op
            /\ q.seen = req[r].seen /\ q.exp = req[r].exp /\ req[r].op = "call"
        BY <2>0, <2>8 DEF Request, LoadUser
      <4>2. req' = [req EXCEPT ![r] = q] /\ UNCHANGED <<users, now>>
        BY <2>0, <2>8, <3>3 DEF LoadUser, row
      <4> HIDE DEF q
      <4>3. Standing(row) = "allowed"
        BY <3>2, <3>3 DEF Verdict, Standing
      <4>4. Truthful(q, now)
        BY <2>0, <3>1, <4>1, <4>3 DEF Truthful
      <4>5. ~Watching(q)
        BY <4>1 DEF Watching
      <4> QED BY <4>1, <4>2, <4>4, <4>5, MoveTrue
    <3>4. CASE Verdict(row) # "ok"
      <4>1. Answer(r, Verdict(row)) /\ UNCHANGED <<users, now>>
        BY <2>8, <3>4 DEF LoadUser, row
      <4>2. \/ Verdict(row) = "unauthorized" /\ Standing(row) \in {"absent", "inactive"}
            \/ Verdict(row) = "forbidden" /\ Standing(row) = "other_role"
        BY <3>2, <3>4 DEF Verdict, Standing
      <4> QED BY <3>1, <4>1, <4>2, AnswerTrue
    <3> QED BY <3>3, <3>4
  <2>9. CASE Work(r)
    <3>1. "allowed" \in req[r].seen
      BY <2>0, <2>9 DEF Work, Truthful
    <3> QED BY <2>9, <3>1, AnswerTrue DEF Work
  <2> QED BY <1>4, <2>1, <2>2, <2>3, <2>4, <2>5, <2>6, <2>7, <2>8, <2>9 DEF Step
<1>5. ASSUME NEW r \in Requests, Abort(r)
      PROVE  TrueInv'
  BY <1>5, AnswerTrue DEF Abort
<1>6. ASSUME NEW table, Administer(table)
      PROVE  TrueInv'
  BY <1>6, AdministerTrue
<1>7. ASSUME NEW i \in Staff, NEW e \in Emails, NEW role \in Granted, Provision(i, e, role)
      PROVE  TrueInv'
  BY <1>6, <1>7 DEF Provision
<1>8. ASSUME NEW i \in Ids,
             \/ \E role \in Granted, b \in BOOLEAN : ChangeUser(i, role, b)
             \/ RemoveUser(i)
      PROVE  TrueInv'
  BY <1>6, <1>8 DEF ChangeUser, RemoveUser
<1>9. CASE Tick
  <2>1. now \in Nat /\ now' \in Nat /\ now <= now' /\ UNCHANGED <<users, req>>
    BY <1>9, AccountsAssumption DEF Tick, Typed, TypeOK
  <2>2. \A s \in Requests : req[s] \in Request /\ Truthful(req[s], now)
    BY AnswersTruthful DEF Typed, TypeOK, TrueInv
  <2>3. \A s \in Requests : Truthful(req[s], now')
    BY <2>1, <2>2, TruthGrows
  <2>4. AnswersTrue'
    BY <2>1, <2>3 DEF AnswersTrue, Truthful
  <2>5. Watched'
    BY <2>1 DEF TrueInv, Watched
  <2> QED BY <2>4, <2>5 DEF TrueInv
<1>10. CASE AllAnswered \/ UNCHANGED vars
  BY <1>10 DEF AllAnswered, vars, TrueInv, Watched, AnswersTrue
<1> QED
  BY <1>1, <1>2, <1>3, <1>4, <1>5, <1>7, <1>8, <1>9, <1>10 DEF Next

\* A token, a protected call, a 401 and a 403 are what some standing of the
\* account called for while the request was being served: login looks for an
\* active account, and the role and is_active of a call come from the row.
THEOREM AnswersAlwaysTrue == Spec => []AnswersTrue
<1>1. Init => TrueInv
  BY DEF Init, TrueInv, Watched, Watching, AnswersTrue, NoRequest
<1>2. TrueInv => AnswersTrue
  BY DEF TrueInv
<1> QED BY <1>1, <1>2, InitTyped, NextTyped, TrueStep, PTL DEF Spec
=============================================================================
