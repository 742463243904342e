-------------------------- MODULE DirectoryProofs --------------------------
(***************************************************************************)
(* Accounts implements Directory, for any requests, staff, addresses and   *)
(* roles.  The invariants of AccountsProofs say why: the unique index lets *)
(* a commit find its address untaken, and a registration has seen, in its  *)
(* field seen, every account that its address had while it was served.     *)
(***************************************************************************)
EXTENDS AccountsProofs

\* The row of a registration is stored by its commit.
Fresh == \A r \in Requests : users[r] # None => req[r].pc \in {"refresh", "done"}

DirectoryInv == Typed /\ UniqueInv /\ TrueInv /\ Fresh

TakenIn(table, e) == \E i \in Ids : table[i] # None /\ table[i].email = e

-----------------------------------------------------------------------------
(* The row of a registration.                                              *)

LEMMA FreshKept ==
  ASSUME Fresh,
         \A s \in Requests : users'[s] # None => users[s] # None,
         \A s \in Requests : \/ req'[s].pc = req[s].pc \/ req'[s].pc = "done"
                             \/ req[s].pc \notin {"refresh", "done"}
  PROVE  Fresh'
BY DEF Fresh

LEMMA FreshStep == Typed /\ Fresh /\ [Next]_vars => Fresh'
<1> SUFFICES ASSUME Typed, Fresh, [Next]_vars
             PROVE  Fresh'
  OBVIOUS
<1>0. req \in [Requests -> Request] /\ \A r \in Requests : r \in Ids
  BY DEF Typed, TypeOK, Ids
<1>1. ASSUME NEW r \in Requests, NEW q, Begin(r, q)
      PROVE  Fresh'
  <2>1. req[r].pc = "idle" /\ UNCHANGED users
    BY <1>1 DEF Begin, NoRequest
  <2>2. \A s \in Requests : s # r => req'[s] = req[s]
    BY <1>0, <1>1 DEF Begin
  <2> QED BY <2>1, <2>2, FreshKept
<1>2. ASSUME NEW r \in Requests, NEW a, Answer(r, a), UNCHANGED users
      PROVE  Fresh'
  <2>1. \A s \in Requests : req'[s].pc = IF s = r THEN "done" ELSE req[s].pc
    BY <1>0, <1>2 DEF Answer, Request
  <2> QED BY <1>2, <2>1, FreshKept
<1>3. ASSUME NEW r \in Requests, Step(r)
      PROVE  Fresh'
  <2>1. CASE FindEmail(r) \/ InsertUser(r) \/ LoadUser(r) \/ FindAccount(r)
    <3>1. req[r].pc \notin {"refresh", "done"} /\ UNCHANGED users
      BY <2>1 DEF FindEmail, InsertUser, LoadUser, FindAccount
    <3>2. \A s \in Requests : s # r => req'[s] = req[s]
      BY <1>0, <2>1 DEF FindEmail, InsertUser, LoadUser, FindAccount, Answer
    <3> QED BY <3>1, <3>2, FreshKept
  <2>2. CASE RefreshUser(r) \/ IssueToken(r) \/ RefuseExpired(r) \/ Work(r)
    BY <1>2, <2>2 DEF RefreshUser, IssueToken, RefuseExpired, Work
  <2>3. CASE CommitUser(r)
    <3> DEFINE requests == [req EXCEPT ![r].pc = "refresh"]
    <3>1. requests \in [Requests -> Request]
      BY <1>0 DEF Request
    <3>2. req' = Seeing(requests, users')
      BY <2>3 DEF CommitUser
    <3>3. \A s \in Requests : requests[s].pc = IF s = r THEN "refresh" ELSE req[s].pc
      BY <1>0 DEF Request
    <3> HIDE DEF requests
    <3>4. \A s \in Requests : req'[s].pc = IF s = r THEN "refresh" ELSE req[s].pc
      BY <3>1, <3>2, <3>3, SeeingAdds
    <3>5. \A s \in Requests : s # r => users'[s] = users[s]
      BY <1>0, <2>3 DEF CommitUser, Typed, TypeOK
    <3> QED BY <3>4, <3>5 DEF Fresh
  <2> QED BY <1>3, <2>1, <2>2, <2>3 DEF Step
<1>4. ASSUME NEW table, Administer(table), \A s \in Requests : table[s] # None => users[s] # None
      PROVE  Fresh'
  <2>1. \A s \in Requests : req'[s].pc = req[s].pc
    BY <1>4, AdministerKeeps
  <2> QED BY <1>4, <2>1, FreshKept DEF Administer
<1>5. ASSUME NEW i \in Staff, NEW e \in Emails, NEW role \in Granted, Provision(i, e, role)
      PROVE  Fresh'
  <2>1. i \notin Requests
    BY AccountsAssumption
  <2> QED BY <1>4, <1>5, <2>1 DEF Provision, Typed, TypeOK, Ids
<1>6. ASSUME NEW i \in Ids, NEW role \in Granted, NEW b \in BOOLEAN, ChangeUser(i, role, b)
      PROVE  Fresh'
  BY <1>0, <1>4, <1>6 DEF ChangeUser, Typed, TypeOK
<1>7. ASSUME NEW i \in Ids, RemoveUser(i)
      PROVE  Fresh'
  BY <1>0, <1>4, <1>7 DEF RemoveUser, Typed, TypeOK
<1>8. CASE Tick \/ AllAnswered \/ UNCHANGED vars
  BY <1>8 DEF Tick, AllAnswered, vars, Fresh
<1>9. ASSUME NEW r \in Requests, Abort(r)
      PROVE  Fresh'
  BY <1>2, <1>9 DEF Abort
<1> QED
  BY <1>1, <1>3, <1>5, <1>6, <1>7, <1>8, <1>9 DEF Next, BeginRegister, BeginLogin, BeginCall

-----------------------------------------------------------------------------
(* What is listed, taken and seen.                                         *)

LEMMA ListedMembers ==
  ASSUME NEW table
  PROVE  /\ \A i \in Ids : table[i] # None =>
                             [email |-> table[i].email, role |-> table[i].role] \in Listed(table)
         /\ \A a \in Listed(table) : \E i \in Ids :
              table[i] # None /\ a = [email |-> table[i].email, role |-> table[i].role]
BY DEF Listed, Rows

LEMMA TakenListed ==
  ASSUME NEW table, NEW e
  PROVE  (\E a \in Listed(table) : a.email = e) <=> TakenIn(table, e)
<1>1. ASSUME NEW a \in Listed(table), a.email = e
      PROVE  TakenIn(table, e)
  <2>1. PICK i \in Ids : table[i] # None
                           /\ a = [email |-> table[i].email, role |-> table[i].role]
    BY ListedMembers
  <2> QED BY <1>1, <2>1 DEF TakenIn
<1>2. ASSUME NEW i \in Ids, table[i] # None, table[i].email = e
      PROVE  \E a \in Listed(table) : a.email = e
  <2> DEFINE a == [email |-> table[i].email, role |-> table[i].role]
  <2>1. a \in Listed(table) /\ a.email = e
    BY <1>2, ListedMembers
  <2> QED BY <2>1
<1> QED BY <1>1, <1>2 DEF TakenIn

\* The SELECT of a registration sees an account exactly if there is one.
LEMMA SeenTaken ==
  ASSUME NEW table, NEW q, q.op = "register"
  PROVE  /\ ~TakenIn(table, q.email) => Seen(table, q) = {"absent"}
         /\ TakenIn(table, q.email) => Seen(table, q) # {} /\ "absent" \notin Seen(table, q)
<1> DEFINE rows == {row \in Rows(table) : row.email = q.email}
<1>1. Selected(table, q) = OrNone(rows)
  BY DEF Selected, ByEmail
<1>2. ASSUME ~TakenIn(table, q.email)
      PROVE  Seen(table, q) = {"absent"}
  <2>1. rows = {}
    BY <1>2 DEF TakenIn, Rows
  <2>2. Selected(table, q) = {None}
    BY <1>1, <2>1 DEF OrNone
  <2> QED BY <2>2 DEF Seen, Standing
<1>3. ASSUME TakenIn(table, q.email)
      PROVE  Seen(table, q) # {} /\ "absent" \notin Seen(table, q)
  <2>1. PICK i \in Ids : table[i] # None /\ table[i].email = q.email
    BY <1>3 DEF TakenIn
  <2>2. table[i] \in rows
    BY <2>1 DEF Rows
  <2>3. Selected(table, q) = rows
    BY <1>1, <2>2 DEF OrNone
  <2>4. \A row \in rows : row # None
    BY DEF Rows
  <2>5. \A row : row # None => Standing(row) # "absent"
    BY DEF Standing
  <2> QED BY <2>2, <2>3, <2>4, <2>5 DEF Seen
<1> QED BY <1>2, <1>3

\* An open registration has seen something, and an account if there is one.
LEMMA OpenHasSeen ==
  ASSUME TrueInv, NEW r \in Requests, req[r].op = "register", req[r].pc # "done"
  PROVE  /\ req[r].seen # {}
         /\ TakenIn(users, req[r].email) => req[r].seen # {"absent"}
<1>1. Seen(users, req[r]) \subseteq req[r].seen
  BY DEF TrueInv, Watched, Watching
<1> QED BY <1>1, SeenTaken

LEMMA SeeingTaken ==
  ASSUME NEW table, NEW requests \in [Requests -> Request], NEW r \in Requests,
         requests[r].op = "register", requests[r].pc # "done", requests[r].seen # {}
  PROVE  Seeing(requests, table)[r].seen # {"absent"} <=>
           requests[r].seen # {"absent"} \/ TakenIn(table, requests[r].email)
<1> DEFINE S == Seen(table, requests[r])
<1>1. Seeing(requests, table)[r] = [requests[r] EXCEPT !.seen = @ \cup S]
  BY DEF Seeing, Watching
<1>2. /\ ~TakenIn(table, requests[r].email) => S = {"absent"}
      /\ TakenIn(table, requests[r].email) => S # {} /\ "absent" \notin S
  BY SeenTaken
<1> HIDE DEF S
<1>3. Seeing(requests, table)[r].seen = requests[r].seen \cup S
  BY <1>1 DEF Request
<1> QED BY <1>2, <1>3

\* What Directory sees of an open registration.
LEMMA OpenAsked ==
  ASSUME NEW q, q.op = "register", q.pc # "done"
  PROVE  Asked(q) = [pc |-> "open", email |-> q.email, made |-> q.pc = "refresh",
                     met |-> q.seen # {"absent"}]
BY DEF Asked

LEMMA OpenFields ==
  ASSUME NEW x, NEW q, x = [pc |-> "open", email |-> q.email, made |-> q.pc = "refresh",
                            met |-> q.seen # {"absent"}]
  PROVE  /\ x.pc = "open" /\ x.email = q.email
         /\ x.made <=> q.pc = "refresh"
         /\ x.met <=> q.seen # {"absent"}
<1>1. x.pc = "open" /\ x.email = q.email
  OBVIOUS
<1>2. x.made <=> q.pc = "refresh"
  BY Zenon
<1>3. x.met <=> q.seen # {"absent"}
  BY Zenon
<1> QED BY <1>1, <1>2, <1>3

LEMMA MetNow ==
  ASSUME NEW p, NEW x, x = [pc |-> "open", email |-> p.email, made |-> p.pc = "refresh",
                            met |-> p.seen # {"absent"}]
  PROVE  D!Open(p.email, x.made, TRUE) = D!Open(p.email, p.pc = "refresh", TRUE)
<1>1. x.made = (p.pc = "refresh")
  BY Zenon
<1> QED BY <1>1

LEMMA AskedOf ==
  /\ \A r \in Requests : Registrations[r] = Asked(req[r])
  /\ \A r \in Requests : Registrations'[r] = Asked(req'[r])
  /\ Registrations = [r \in Requests |-> Registrations[r]]
  /\ Registrations' = [r \in Requests |-> Registrations'[r]]
BY DEF Registrations

\* One request moves on.
LEMMA RegistrationMoves ==
  ASSUME Typed, NEW r \in Requests, NEW q, req' = [req EXCEPT ![r] = q]
  PROVE  Registrations' = [Registrations EXCEPT ![r] = Asked(q)]
<1>1. \A s \in Requests : req'[s] = IF s = r THEN q ELSE req[s]
  BY DEF Typed, TypeOK
<1>2. \A s \in Requests : Registrations'[s] = IF s = r THEN Asked(q) ELSE Registrations[s]
  BY <1>1, AskedOf
<1> QED BY <1>2, AskedOf

LEMMA Stutters ==
  ASSUME \A s \in Requests : Asked(req'[s]) = Asked(req[s]), Listed(users') = Listed(users)
  PROVE  UNCHANGED D!vars
<1>1. Registrations' = Registrations
  BY AskedOf
<1> QED BY <1>1 DEF D!vars

-----------------------------------------------------------------------------
(* What the steps of Accounts are in Directory.                            *)

LEMMA AskStep ==
  ASSUME DirectoryInv, NEW r \in Requests, NEW e \in Emails, BeginRegister(r, e)
  PROVE  D!Next
<1> DEFINE q == [NoRequest EXCEPT !.op = "register", !.email = Normal[e]]
           p == [q EXCEPT !.pc = "select", !.seen = Seen(users, q)]
<1>1. /\ q.op = "register" /\ q.email = Normal[e]
      /\ p.op = "register" /\ p.email = Normal[e] /\ p.pc = "select"
      /\ p.seen = Seen(users, q)
  BY DEF NoRequest
<1>2. req[r] = NoRequest /\ req' = [req EXCEPT ![r] = p] /\ UNCHANGED users
  BY DEF BeginRegister, Begin
<1> HIDE DEF q, p
<1>3. Registrations' = [Registrations EXCEPT ![r] = Asked(p)]
  BY <1>2, RegistrationMoves DEF DirectoryInv
<1>4. Registrations[r] = D!Unasked
  BY <1>2, AskedOf DEF Asked, NoRequest, D!Unasked
<1>5. (p.seen # {"absent"}) <=> D!Taken(Normal[e])
  <2>1. (p.seen # {"absent"}) <=> TakenIn(users, Normal[e])
    BY <1>1, SeenTaken
  <2>2. TakenIn(users, Normal[e]) <=> D!Taken(Normal[e])
    BY TakenListed DEF D!Taken
  <2> QED BY <2>1, <2>2
<1>6. Asked(p) = [pc |-> "open", email |-> Normal[e], made |-> FALSE, met |-> D!Taken(Normal[e])]
  <2>1. Asked(p) = [pc |-> "open", email |-> p.email, made |-> p.pc = "refresh",
                    met |-> p.seen # {"absent"}]
    BY <1>1, OpenAsked
  <2>2. (p.pc = "refresh") = FALSE
    BY <1>1
  <2>3. (p.seen # {"absent"}) = D!Taken(Normal[e])
    BY <1>5 DEF D!Taken
  <2> QED BY <1>1, <2>1, <2>2, <2>3
<1>7. D!Ask(r, Normal[e])
  BY <1>2, <1>3, <1>4, <1>6 DEF D!Ask, D!Open
<1>8. Normal[e] \in Emails
  BY AccountsAssumption
<1> QED BY <1>7, <1>8 DEF D!Next

LEMMA AnswerStep ==
  ASSUME DirectoryInv, NEW r \in Requests, NEW a \in {"created", "conflict", "failed"},
         Answer(r, a), UNCHANGED users, req[r].op = "register", req[r].pc # "done",
         a = "created" => req[r].pc = "refresh",
         a = "conflict" => req[r].pc # "refresh" /\ TakenIn(users, req[r].email)
  PROVE  D!Next
<1> DEFINE q == [req[r] EXCEPT !.pc = "done", !.answer = a]
<1>1. q.op = "register" /\ q.pc = "done" /\ q.answer = a
  BY DEF DirectoryInv, Typed, TypeOK, Request
<1>2. req' = [req EXCEPT ![r] = q]
  BY DEF Answer, DirectoryInv, Typed, TypeOK
<1> HIDE DEF q
<1>3. Registrations' = [Registrations EXCEPT ![r] = [pc |-> "done", answer |-> a]]
  BY <1>1, <1>2, RegistrationMoves DEF DirectoryInv, Asked
<1>4. Registrations[r] = [pc |-> "open", email |-> req[r].email, made |-> req[r].pc = "refresh",
                          met |-> req[r].seen # {"absent"}]
  BY AskedOf, OpenAsked
<1>5. a = "conflict" => req[r].seen # {"absent"}
  BY OpenHasSeen DEF DirectoryInv
<1>6. /\ Registrations[r].pc = "open"
      /\ Registrations[r].made <=> req[r].pc = "refresh"
      /\ Registrations[r].met <=> req[r].seen # {"absent"}
  BY <1>4, OpenFields
<1>7. D!Answer(r, a)
  BY <1>3, <1>5, <1>6 DEF D!Answer
<1> QED BY <1>7 DEF D!Next

\* An account of e appears: open registrations of e have met it.
LEMMA Meets ==
  ASSUME DirectoryInv, NEW requests \in [Requests -> Request], NEW e,
         req' = Seeing(requests, users'),
         \A x : TakenIn(users', x) <=> x = e \/ TakenIn(users, x),
         \A s \in Requests : /\ requests[s].op = req[s].op /\ requests[s].email = req[s].email
                             /\ requests[s].seen = req[s].seen
                             /\ requests[s].pc = "done" <=> req[s].pc = "done"
  PROVE  Registrations' = D!Meet([s \in Requests |-> Asked(requests[s])], e)
<1> DEFINE asks == [s \in Requests |-> Asked(requests[s])]
<1>1. ASSUME NEW s \in Requests
      PROVE  Asked(req'[s]) = D!Meet(asks, e)[s]
  <2> DEFINE p == requests[s]
             q == req'[s]
  <2>1. q.op = p.op /\ q.pc = p.pc /\ q.email = p.email /\ q.answer = p.answer
    BY SeeingAdds
  <2>2. asks[s] = Asked(p)
    OBVIOUS
  <2>3. D!Meet(asks, e)[s] = IF Asked(p).pc = "open" /\ Asked(p).email = e
                               THEN D!Open(e, Asked(p).made, TRUE) ELSE Asked(p)
    BY DEF D!Meet
  <2> HIDE DEF asks
  <2>4. CASE p.op # "register"
    <3>1. Asked(p) = [pc |-> "idle"] /\ Asked(q) = [pc |-> "idle"]
      BY <2>1, <2>4 DEF Asked
    <3> QED BY <2>3, <3>1
  <2>5. CASE p.op = "register" /\ p.pc = "done"
    <3>1. Asked(p) = [pc |-> "done", answer |-> p.answer]
            /\ Asked(q) = [pc |-> "done", answer |-> p.answer]
      BY <2>1, <2>5 DEF Asked
    <3> QED BY <2>3, <3>1
  <2>6. CASE p.op = "register" /\ p.pc # "done"
    <3>1. p.seen # {} /\ (TakenIn(users, p.email) => p.seen # {"absent"})
      BY <2>6, OpenHasSeen DEF DirectoryInv
    <3>2. q.seen # {"absent"} <=> p.seen # {"absent"} \/ p.email = e
      BY <2>6, <3>1, SeeingTaken
    <3>3. Asked(p) = [pc |-> "open", email |-> p.email, made |-> p.pc = "refresh",
                      met |-> p.seen # {"absent"}]
      BY <2>6, OpenAsked
    <3>4. Asked(q) = [pc |-> "open", email |-> p.email, made |-> p.pc = "refresh",
                      met |-> q.seen # {"absent"}]
      BY <2>1, <2>6, OpenAsked
    <3> HIDE DEF p, q
    <3>5. CASE p.email = e
      <4>1. (q.seen # {"absent"}) = TRUE
        BY <3>2, <3>5
      <4>2. D!Open(e, Asked(p).made, TRUE) = D!Open(p.email, p.pc = "refresh", TRUE)
        BY <3>3, <3>5, MetNow
      <4>4. Asked(q) = D!Open(p.email, p.pc = "refresh", TRUE)
        BY <3>4, <4>1 DEF D!Open
      <4>3. Asked(p).pc = "open" /\ Asked(p).email = e
        BY <3>3, <3>5
      <4> QED BY <2>3, <4>2, <4>3, <4>4 DEF q
    <3>6. CASE p.email # e
      <4>1. (q.seen # {"absent"}) = (p.seen # {"absent"})
        BY <3>2, <3>6
      <4> QED BY <2>3, <3>3, <3>4, <3>6, <4>1 DEF q
    <3> QED BY <3>5, <3>6
  <2> QED BY <2>4, <2>5, <2>6
<1>2. D!Meet(asks, e) = [s \in Requests |-> D!Meet(asks, e)[s]]
  BY DEF D!Meet
<1>3. Registrations' = [s \in Requests |-> Asked(req'[s])]
  BY DEF Registrations
<1> QED BY <1>1, <1>2, <1>3

\* Accounts change or go, and nobody meets one for that.
LEMMA NobodyMeets ==
  ASSUME DirectoryInv, NEW table, Administer(table),
         \A x : TakenIn(table, x) => TakenIn(users, x)
  PROVE  Registrations' = Registrations
<1>0. req' = Seeing(req, users') /\ req \in [Requests -> Request] /\ users' = table
  BY DEF Administer, DirectoryInv, Typed, TypeOK
<1>1. ASSUME NEW s \in Requests
      PROVE  Asked(req'[s]) = Asked(req[s])
  <2> DEFINE p == req[s]
             q == req'[s]
  <2>1. q.op = p.op /\ q.pc = p.pc /\ q.email = p.email /\ q.answer = p.answer
    BY <1>0, SeeingAdds
  <2>2. CASE p.op # "register" \/ p.pc = "done"
    BY <2>1, <2>2 DEF Asked
  <2>3. CASE p.op = "register" /\ p.pc # "done"
    <3>1. p.seen # {} /\ (TakenIn(users, p.email) => p.seen # {"absent"})
      BY <2>3, OpenHasSeen DEF DirectoryInv
    <3>2. q.seen # {"absent"} <=> p.seen # {"absent"}
      BY <1>0, <2>3, <3>1, SeeingTaken
    <3>3. (q.seen # {"absent"}) = (p.seen # {"absent"})
      BY <3>2
    <3> QED BY <2>1, <2>3, <3>3, OpenAsked
  <2> QED BY <2>2, <2>3
<1> QED BY <1>1, AskedOf

\* A row under an id that had none.
RowComes(old, new, i, row) ==
  /\ i \in Ids /\ row # None /\ old[i] = None
  /\ \A j \in Ids : new[j] = IF j = i THEN row ELSE old[j]

LEMMA ListedAdds ==
  ASSUME NEW old, NEW new, NEW i, NEW row, RowComes(old, new, i, row)
  PROVE  /\ Listed(new) = Listed(old) \cup {[email |-> row.email, role |-> row.role]}
         /\ \A x : TakenIn(new, x) <=> x = row.email \/ TakenIn(old, x)
<1> USE DEF RowComes
<1> DEFINE entry == [email |-> row.email, role |-> row.role]
<1>1. \A x : TakenIn(new, x) <=> x = row.email \/ TakenIn(old, x)
  BY DEF TakenIn
<1>2. ASSUME NEW a \in Listed(new)
      PROVE  a \in Listed(old) \cup {entry}
  <2>1. PICK j \in Ids : new[j] # None /\ a = [email |-> new[j].email, role |-> new[j].role]
    BY ListedMembers
  <2>2. CASE j = i
    BY <2>1, <2>2
  <2>3. CASE j # i
    BY <2>1, <2>3, ListedMembers
  <2> QED BY <2>2, <2>3
<1>3. entry \in Listed(new)
  <2>1. new[i] = row
    OBVIOUS
  <2> QED BY <2>1, ListedMembers
<1>4. ASSUME NEW a \in Listed(old)
      PROVE  a \in Listed(new)
  <2>1. PICK j \in Ids : old[j] # None /\ a = [email |-> old[j].email, role |-> old[j].role]
    BY ListedMembers
  <2>2. new[j] = old[j]
    BY <2>1
  <2> QED BY <2>1, <2>2, ListedMembers
<1>5. Listed(new) = Listed(old) \cup {entry}
  BY <1>2, <1>3, <1>4
<1> QED BY <1>1, <1>5

LEMMA RowListed ==
  ASSUME DirectoryInv, NEW i \in Ids, users[i] = None, NEW row \in Row,
         users' = [users EXCEPT ![i] = row]
  PROVE  /\ Listed(users') = Listed(users) \cup {[email |-> row.email, role |-> row.role]}
         /\ \A x : TakenIn(users', x) <=> x = row.email \/ TakenIn(users, x)
<1>1. row # None
  BY AccountsAssumption
<1> DEFINE table == [users EXCEPT ![i] = row]
<1>2. \A j \in Ids : table[j] = IF j = i THEN row ELSE users[j]
  BY DEF DirectoryInv, Typed, TypeOK
<1>3. users' = table
  OBVIOUS
<1> HIDE DEF table
<1>4. /\ Listed(table) = Listed(users) \cup {[email |-> row.email, role |-> row.role]}
      /\ \A x : TakenIn(table, x) <=> x = row.email \/ TakenIn(users, x)
  <2>1. RowComes(users, table, i, row)
    BY <1>1, <1>2 DEF RowComes
  <2> QED BY <2>1, ListedAdds
<1> QED BY <1>3, <1>4

LEMMA CreateStep ==
  ASSUME DirectoryInv, NEW r \in Requests, CommitUser(r)
  PROVE  D!Next
<1> DEFINE requests == [req EXCEPT ![r].pc = "refresh"]
           row == [email |-> req[r].email, role |-> "candidate", is_active |-> TRUE]
           e == req[r].email
<1>0. /\ req \in [Requests -> Request] /\ r \in Ids
      /\ req[r].pc = "commit" /\ req[r].op = "register" /\ e \in Emails
      /\ users[r] = None
  BY DEF CommitUser, DirectoryInv, Typed, TypeOK, Stages, Fresh, Ids
<1>1. row \in Row /\ row.email = e /\ row.role = "candidate"
  BY <1>0 DEF Row, Roles
<1>2. users' = [users EXCEPT ![r] = row] /\ req' = Seeing(requests, users')
  BY DEF CommitUser
<1>3. requests \in [Requests -> Request]
  BY <1>0 DEF Request
<1>4. \A s \in Requests : /\ requests[s].op = req[s].op /\ requests[s].email = req[s].email
                          /\ requests[s].seen = req[s].seen
                          /\ requests[s].pc = IF s = r THEN "refresh" ELSE req[s].pc
                          /\ s # r => requests[s] = req[s]
  BY <1>0 DEF Request
<1> HIDE DEF row, requests
<1>5. /\ Listed(users') = Listed(users) \cup {[email |-> e, role |-> "candidate"]}
      /\ \A x : TakenIn(users', x) <=> x = e \/ TakenIn(users, x)
  BY <1>0, <1>1, <1>2, RowListed
<1> DEFINE asks == [s \in Requests |-> Asked(requests[s])]
           created == [Registrations EXCEPT ![r] = D!Open(e, TRUE, TRUE)]
<1>6. \A s \in Requests : requests[s].pc = "done" <=> req[s].pc = "done"
  BY <1>0, <1>4
<1>7. Registrations' = D!Meet(asks, e)
  BY <1>2, <1>3, <1>4, <1>5, <1>6, Meets
<1>8. Registrations[r] = [pc |-> "open", email |-> e, made |-> req[r].pc = "refresh",
                          met |-> req[r].seen # {"absent"}]
  BY <1>0, AskedOf, OpenAsked
<1>9. /\ Registrations[r].pc = "open" /\ Registrations[r].email = e
      /\ Registrations[r].made <=> req[r].pc = "refresh"
  BY <1>8, OpenFields
<1>10. D!Meet(asks, e) = D!Meet(created, e)
  <2>1. ASSUME NEW s \in Requests
        PROVE  D!Meet(asks, e)[s] = D!Meet(created, e)[s]
    <3>1. CASE s # r
      <4>1. asks[s] = created[s]
        BY <1>4, <3>1, AskedOf
      <4> HIDE DEF asks, created
      <4> QED BY <4>1 DEF D!Meet
    <3>2. CASE s = r
      <4>1. asks[r] = [pc |-> "open", email |-> requests[r].email,
                       made |-> requests[r].pc = "refresh",
                       met |-> requests[r].seen # {"absent"}]
        BY <1>0, <1>4, OpenAsked
      <4>2. asks[r].pc = "open" /\ asks[r].email = e
        BY <1>4, <4>1, OpenFields
      <4>3. D!Open(e, asks[r].made, TRUE) = D!Open(e, TRUE, TRUE)
        <5> HIDE DEF asks
        <5>1. D!Open(requests[r].email, asks[r].made, TRUE) =
                D!Open(requests[r].email, requests[r].pc = "refresh", TRUE)
          BY <4>1, MetNow
        <5>2. (requests[r].pc = "refresh") = TRUE /\ requests[r].email = e
          BY <1>4
        <5> QED BY <5>1, <5>2
      <4>4. D!Meet(asks, e)[r] = D!Open(e, TRUE, TRUE)
        <5> HIDE DEF asks
        <5> QED BY <4>2, <4>3 DEF D!Meet
      <4>5. created[r] = D!Open(e, TRUE, TRUE)
        BY AskedOf
      <4>6. /\ D!Open(e, TRUE, TRUE).pc = "open" /\ D!Open(e, TRUE, TRUE).email = e
            /\ D!Open(e, TRUE, TRUE).made = TRUE
        BY DEF D!Open
      <4>7. D!Meet(created, e)[r] = D!Open(e, TRUE, TRUE)
        <5> HIDE DEF created
        <5> QED BY <4>5, <4>6 DEF D!Meet
      <4> QED BY <3>2, <4>4, <4>7
    <3> QED BY <3>1, <3>2
  <2> HIDE DEF asks, created
  <2>2. /\ D!Meet(asks, e) = [s \in Requests |-> D!Meet(asks, e)[s]]
        /\ D!Meet(created, e) = [s \in Requests |-> D!Meet(created, e)[s]]
    BY DEF D!Meet
  <2> QED BY <2>1, <2>2
<1>11. ~D!Taken(e)
  <2>1. ~TakenIn(users, e)
    BY <1>0 DEF DirectoryInv, UniqueInv, OpenApart, TakenIn
  <2> QED BY <2>1, TakenListed DEF D!Taken
<1>12. D!Create(r)
  BY <1>0, <1>5, <1>7, <1>9, <1>10, <1>11 DEF D!Create
<1> QED BY <1>12 DEF D!Next

LEMMA ProvideStep ==
  ASSUME DirectoryInv, NEW i \in Staff, NEW e \in Emails, NEW role \in Granted,
         Provision(i, e, role)
  PROVE  D!Next
<1> DEFINE row == [email |-> e, role |-> role, is_active |-> TRUE]
<1>1. row \in Row /\ row.email = e /\ row.role = role /\ i \in Ids /\ role \in Roles
  BY AccountsAssumption DEF Row, Ids
<1>2. /\ users' = [users EXCEPT ![i] = row] /\ req' = Seeing(req, users')
      /\ req \in [Requests -> Request] /\ users[i] = None
  BY DEF Provision, Administer, DirectoryInv, Typed, TypeOK
<1> HIDE DEF row
<1>3. /\ Listed(users') = Listed(users) \cup {[email |-> e, role |-> role]}
      /\ \A x : TakenIn(users', x) <=> x = e \/ TakenIn(users, x)
  BY <1>1, <1>2, RowListed
<1>4. Registrations' = D!Meet(Registrations, e)
  BY <1>2, <1>3, Meets DEF Registrations
<1>5. ~D!Taken(e)
  <2>1. ~TakenIn(users, e)
    BY NoRow DEF Provision, TakenIn
  <2> QED BY <2>1, TakenListed DEF D!Taken
<1>6. D!Provide(e, role)
  BY <1>3, <1>4, <1>5 DEF D!Provide
<1> QED BY <1>1, <1>6 DEF D!Next

\* Rows of one address are one row, so a changed or removed row is the only
\* one that its entry in the directory stands for.
RowGoes(old, new, i) ==
  /\ i \in Ids /\ old[i] # None /\ new[i] = None
  /\ \A j \in Ids : j # i => new[j] = old[j]
  /\ \A j \in Ids : old[j] # None /\ old[j].email = old[i].email => j = i

LEMMA ListedRemoves ==
  ASSUME NEW old, NEW new, NEW i, RowGoes(old, new, i)
  PROVE  Listed(new) = Listed(old) \ {[email |-> old[i].email, role |-> old[i].role]}
<1> USE DEF RowGoes
<1> DEFINE entry == [email |-> old[i].email, role |-> old[i].role]
<1>1. ASSUME NEW a \in Listed(new)
      PROVE  a \in Listed(old) /\ a # entry
  <2>1. PICK j \in Ids : new[j] # None /\ a = [email |-> new[j].email, role |-> new[j].role]
    BY ListedMembers
  <2>2. j # i /\ new[j] = old[j]
    BY <2>1
  <2>3. a \in Listed(old)
    BY <2>1, <2>2, ListedMembers
  <2>4. a.email # entry.email
    BY <2>1, <2>2
  <2> QED BY <2>3, <2>4
<1>2. ASSUME NEW a \in Listed(old), a # entry
      PROVE  a \in Listed(new)
  <2>1. PICK j \in Ids : old[j] # None /\ a = [email |-> old[j].email, role |-> old[j].role]
    BY ListedMembers
  <2>2. j # i /\ new[j] = old[j]
    BY <1>2, <2>1
  <2> QED BY <2>1, <2>2, ListedMembers
<1> QED BY <1>1, <1>2

LEMMA RemoveStep ==
  ASSUME DirectoryInv, NEW i \in Ids, RemoveUser(i)
  PROVE  D!Next
<1> DEFINE a == [email |-> users[i].email, role |-> users[i].role]
           table == [users EXCEPT ![i] = None]
<1>1. users[i] # None /\ Administer(table) /\ users' = table
  BY DEF RemoveUser, Administer
<1>2. \A j \in Ids : table[j] = IF j = i THEN None ELSE users[j]
  BY DEF DirectoryInv, Typed, TypeOK
<1> HIDE DEF table
<1>3. \A x : TakenIn(table, x) => TakenIn(users, x)
  BY <1>2 DEF TakenIn
<1>4. Registrations' = Registrations
  BY <1>1, <1>3, NobodyMeets
<1>5. \A j \in Ids : users[j] # None /\ users[j].email = users[i].email => j = i
  BY <1>1 DEF DirectoryInv, UniqueInv, StoredOnce
<1>6. Listed(table) = Listed(users) \ {a}
  <2>1. RowGoes(users, table, i)
    BY <1>1, <1>2, <1>5 DEF RowGoes
  <2> QED BY <2>1, ListedRemoves
<1>7. a \in Listed(users)
  BY <1>1, ListedMembers
<1>8. D!Remove(a)
  BY <1>1, <1>4, <1>6, <1>7 DEF D!Remove
<1> QED BY <1>7, <1>8 DEF D!Next

LEMMA ChangeStep ==
  ASSUME DirectoryInv, NEW i \in Ids, NEW role \in Granted, NEW b \in BOOLEAN,
         ChangeUser(i, role, b)
  PROVE  D!Next
<1> DEFINE a == [email |-> users[i].email, role |-> users[i].role]
           row == [users[i] EXCEPT !.role = role, !.is_active = b]
           table == [users EXCEPT ![i].role = role, ![i].is_active = b]
           without == [users EXCEPT ![i] = None]
<1>1. users[i] \in Row /\ users[i] # None /\ Administer(table) /\ users' = table
  BY DEF ChangeUser, Administer, DirectoryInv, Typed, TypeOK
<1>2. /\ row \in Row /\ row.email = users[i].email /\ row.role = role /\ row # None
      /\ role \in Roles
  BY <1>1, AccountsAssumption DEF Row
<1>3. /\ \A j \in Ids : table[j] = IF j = i THEN row ELSE users[j]
      /\ \A j \in Ids : without[j] = IF j = i THEN None ELSE users[j]
  BY DEF DirectoryInv, Typed, TypeOK
<1> HIDE DEF table, row, without
<1>4. \A x : TakenIn(table, x) => TakenIn(users, x)
  BY <1>1, <1>2, <1>3 DEF TakenIn
<1>5. Registrations' = Registrations
  BY <1>1, <1>4, NobodyMeets
<1>6. \A j \in Ids : users[j] # None /\ users[j].email = users[i].email => j = i
  BY <1>1 DEF DirectoryInv, UniqueInv, StoredOnce
<1>7. Listed(without) = Listed(users) \ {a}
  <2>1. RowGoes(users, without, i)
    BY <1>1, <1>3, <1>6 DEF RowGoes
  <2> QED BY <2>1, ListedRemoves
<1>8. Listed(table) = Listed(without) \cup {[email |-> row.email, role |-> row.role]}
  <2>1. RowComes(without, table, i, row)
    BY <1>2, <1>3 DEF RowComes
  <2> QED BY <2>1, ListedAdds
<1>9. a \in Listed(users) /\ [a EXCEPT !.role = role] = [email |-> row.email, role |-> row.role]
  BY <1>1, <1>2, ListedMembers
<1>10. D!Change(a, role)
  BY <1>1, <1>5, <1>7, <1>8, <1>9 DEF D!Change
<1> QED BY <1>2, <1>9, <1>10 DEF D!Next

\* A request that is no registration moves unseen by the directory.
LEMMA OtherStutters ==
  ASSUME DirectoryInv, NEW r \in Requests, NEW q, req' = [req EXCEPT ![r] = q],
         UNCHANGED users, req[r].op # "register", q.op # "register"
  PROVE  UNCHANGED D!vars
<1>1. \A s \in Requests : req'[s] = IF s = r THEN q ELSE req[s]
  BY DEF DirectoryInv, Typed, TypeOK
<1>2. Asked(q) = Asked(req[r])
  BY DEF Asked
<1> QED BY <1>1, <1>2, Stutters

LEMMA OtherAnswers ==
  ASSUME DirectoryInv, NEW r \in Requests, NEW a, Answer(r, a), UNCHANGED users,
         req[r].op # "register"
  PROVE  UNCHANGED D!vars
<1> DEFINE q == [req[r] EXCEPT !.pc = "done", !.answer = a]
<1>1. req' = [req EXCEPT ![r] = q] /\ q.op = req[r].op
  BY DEF Answer, DirectoryInv, Typed, TypeOK, Request
<1> HIDE DEF q
<1> QED BY <1>1, OtherStutters

\* A registration goes on, and the directory waits for its commit.
LEMMA WaitStutters ==
  ASSUME DirectoryInv, NEW r \in Requests, NEW pc \in {"flush", "commit"},
         req' = [req EXCEPT ![r].pc = pc], UNCHANGED users,
         req[r].op = "register", req[r].pc \notin {"refresh", "done"}
  PROVE  UNCHANGED D!vars
<1> DEFINE q == [req[r] EXCEPT !.pc = pc]
<1>1. /\ q.op = "register" /\ q.pc = pc /\ q.email = req[r].email /\ q.seen = req[r].seen
      /\ req' = [req EXCEPT ![r] = q]
  BY DEF DirectoryInv, Typed, TypeOK, Request
<1> HIDE DEF q
<1>2. (q.pc = "refresh") = (req[r].pc = "refresh")
  BY <1>1
<1>3. Asked(q) = Asked(req[r])
  BY <1>1, <1>2, OpenAsked
<1>4. \A s \in Requests : req'[s] = IF s = r THEN q ELSE req[s]
  BY <1>1 DEF DirectoryInv, Typed, TypeOK
<1> QED BY <1>3, <1>4, Stutters

LEMMA DirectoryStep == DirectoryInv /\ [Next]_vars => [D!Next]_(D!vars)
<1> SUFFICES ASSUME DirectoryInv, [Next]_vars
             PROVE  D!Next \/ UNCHANGED D!vars
  OBVIOUS
<1>0. req \in [Requests -> Request] /\ \A r \in Requests : req[r] \in Request
  BY DEF DirectoryInv, Typed, TypeOK
<1>1. ASSUME NEW r \in Requests, NEW q, q.op # "register", Begin(r, q)
      PROVE  UNCHANGED D!vars
  <2> DEFINE p == [q EXCEPT !.pc = "select", !.seen = Seen(users, q)]
  <2>1. req[r].op # "register" /\ req' = [req EXCEPT ![r] = p] /\ UNCHANGED users
    BY <1>1 DEF Begin, NoRequest
  <2>2. p.op # "register"
    BY <1>1
  <2> HIDE DEF p
  <2> QED BY <2>1, <2>2, OtherStutters
<1>2. ASSUME NEW r \in Requests, NEW e \in Emails, BeginLogin(r, e)
      PROVE  UNCHANGED D!vars
  <2>1. [NoRequest EXCEPT !.op = "login", !.email = e].op # "register"
    BY DEF NoRequest
  <2> QED BY <1>1, <1>2, <2>1 DEF BeginLogin
<1>3. ASSUME NEW r \in Requests, NEW t \in tokens, BeginCall(r, t)
      PROVE  UNCHANGED D!vars
  <2>1. [NoRequest EXCEPT !.op = "call", !.id = t.sub, !.exp = t.exp].op # "register"
    BY DEF NoRequest
  <2> QED BY <1>1, <1>3, <2>1 DEF BeginCall
<1>4. ASSUME NEW r \in Requests, Step(r)
      PROVE  D!Next \/ UNCHANGED D!vars
  <2>1. CASE FindEmail(r)
    <3>1. req[r].op = "register" /\ req[r].pc = "select" /\ UNCHANGED users
      BY <2>1 DEF FindEmail
    <3>2. CASE ByEmail(users, req[r].email) = {None}
      BY <2>1, <3>1, <3>2, WaitStutters DEF FindEmail
    <3>3. CASE ByEmail(users, req[r].email) # {None}
      <4>1. TakenIn(users, req[r].email)
        <5>1. {row \in Rows(users) : row.email = req[r].email} # {}
          BY <3>3 DEF ByEmail, OrNone
        <5> QED BY <5>1 DEF Rows, TakenIn
      <4>2. Answer(r, "conflict")
        BY <2>1, <3>3 DEF FindEmail
      <4> QED BY <3>1, <4>1, <4>2, AnswerStep
    <3> QED BY <3>2, <3>3
  <2>2. CASE InsertUser(r)
    <3>1. req[r].op = "register" /\ req[r].pc = "flush" /\ UNCHANGED users
      BY <2>2 DEF InsertUser, DirectoryInv, Typed, Stages
    <3>2. CASE req' = [req EXCEPT ![r].pc = "commit"]
      BY <3>1, <3>2, WaitStutters
    <3>3. CASE Answer(r, "failed")
      BY <3>1, <3>3, AnswerStep
    <3> QED BY <2>2, <3>2, <3>3 DEF InsertUser
  <2>3. CASE CommitUser(r)
    BY <2>3, CreateStep
  <2>4. CASE RefreshUser(r)
    <3>1. req[r].op = "register" /\ req[r].pc = "refresh" /\ UNCHANGED users
      BY <2>4 DEF RefreshUser, DirectoryInv, Typed, Stages
    <3>2. Answer(r, "failed") \/ Answer(r, "created")
      BY <2>4 DEF RefreshUser
    <3> QED BY <3>1, <3>2, AnswerStep
  <2>5. CASE FindAccount(r)
    <3>1. req[r].op # "register" /\ UNCHANGED users
      BY <2>5 DEF FindAccount
    <3>2. ASSUME NEW i \in Ids, req' = [req EXCEPT ![r].pc = "verify", ![r].id = i]
          PROVE  UNCHANGED D!vars
      <4> DEFINE q == [req[r] EXCEPT !.pc = "verify", !.id = i]
      <4>1. q.op = req[r].op /\ req' = [req EXCEPT ![r] = q]
        BY <1>0, <3>2 DEF Request
      <4> HIDE DEF q
      <4> QED BY <3>1, <4>1, OtherStutters
    <3> QED BY <2>5, <3>1, <3>2, OtherAnswers DEF FindAccount
  <2>6. CASE IssueToken(r) \/ RefuseExpired(r) \/ Work(r)
    <3>1. req[r].op # "register" /\ UNCHANGED users
      BY <2>6 DEF IssueToken, RefuseExpired, Work, DirectoryInv, Typed, Stages
    <3> QED BY <2>6, <3>1, OtherAnswers DEF IssueToken, RefuseExpired, Work
  <2>7. CASE LoadUser(r)
    <3>1. req[r].op # "register" /\ UNCHANGED users
      BY <2>7 DEF LoadUser
    <3>2. CASE req' = [req EXCEPT ![r].pc = "work"]
      <4> DEFINE q == [req[r] EXCEPT !.pc = "work"]
      <4>1. q.op = req[r].op /\ req' = [req EXCEPT ![r] = q]
        BY <1>0, <3>2 DEF Request
      <4> HIDE DEF q
      <4> QED BY <3>1, <4>1, OtherStutters
    <3> QED BY <2>7, <3>1, <3>2, OtherAnswers DEF LoadUser
  <2> QED BY <1>4, <2>1, <2>2, <2>3, <2>4, <2>5, <2>6, <2>7 DEF Step
<1>5. ASSUME NEW r \in Requests, Abort(r)
      PROVE  D!Next \/ UNCHANGED D!vars
  <2>1. Answer(r, "failed") /\ UNCHANGED users /\ req[r].pc # "done"
    BY <1>5 DEF Abort
  <2> QED BY <2>1, AnswerStep, OtherAnswers
<1>6. CASE Tick \/ AllAnswered \/ UNCHANGED vars
  BY <1>6, Stutters DEF Tick, AllAnswered, vars
<1> QED
  BY <1>2, <1>3, <1>4, <1>5, <1>6, AskStep, ProvideStep, RemoveStep, ChangeStep DEF Next

\* 201 means that this request and no other made the account, 409 that there
\* was one while the registration was being served, and a new account is a
\* candidate's: registration implements the directory.
THEOREM RegistrationImplementsDirectory == Spec => ImplementsDirectory
<1>1. Init => UniqueInv /\ TrueInv /\ Fresh
  BY DEF Init, UniqueInv, StoredNormal, StoredOnce, OpenApart,
         TrueInv, Watched, Watching, AnswersTrue, NoRequest, Fresh, Ids
<1>2. Init => D!Init
  <2> SUFFICES ASSUME Init
               PROVE  D!Init
    OBVIOUS
  <2>1. Listed(users) = {}
    BY DEF Init, Listed, Rows
  <2>2. \A r \in Requests : Registrations[r] = D!Unasked
    BY DEF Init, Registrations, Asked, NoRequest, D!Unasked
  <2>3. Registrations = [r \in Requests |-> D!Unasked]
    BY <2>2, AskedOf
  <2> QED BY <2>1, <2>3 DEF D!Init
<1>3. DirectoryInv /\ [Next]_vars => DirectoryInv'
  BY NextTyped, UniqueStep, TrueStep, FreshStep DEF DirectoryInv
<1>4. Init => DirectoryInv
  BY <1>1, InitTyped DEF DirectoryInv
<1> QED BY <1>2, <1>3, <1>4, DirectoryStep, PTL DEF Spec, ImplementsDirectory, D!Spec
=============================================================================
