----------------------------- MODULE Directory ------------------------------
(* What registration promises its clients, whatever the database and the   *)
(* number of requests at work: an address has one account; 201 means that  *)
(* this request, and no other, made the account; 409 means that there was  *)
(* one while the request was being served; a new account is a candidate's  *)
(* (docstrings of app/services/user_service.py and app/schemas/user.py).   *)
EXTENDS Naturals

CONSTANTS Requests, Emails, Roles

VARIABLES accounts,   \* a set of [email, role]
          ask         \* ask[r]: the registration r, or Unasked

vars == <<accounts, ask>>

Unasked == [pc |-> "idle"]

Taken(e) == \E a \in accounts : a.email = e

Init == accounts = {} /\ ask = [r \in Requests |-> Unasked]

Open(e, made, met) == [pc |-> "open", email |-> e, made |-> made, met |-> met]

Ask(r, e) ==
  /\ ask[r] = Unasked
  /\ ask' = [ask EXCEPT ![r] = Open(e, FALSE, Taken(e))]
  /\ UNCHANGED accounts

\* Open requests for e have met an account of e once there is one.
Meet(asks, e) ==
  [r \in Requests |-> IF asks[r].pc = "open" /\ asks[r].email = e
                        THEN Open(e, asks[r].made, TRUE)
                        ELSE asks[r]]

Create(r) ==
  /\ ask[r].pc = "open" /\ ~ask[r].made /\ ~Taken(ask[r].email)
  /\ accounts' = accounts \cup {[email |-> ask[r].email, role |-> "candidate"]}
  /\ ask' = Meet([ask EXCEPT ![r] = Open(ask[r].email, TRUE, TRUE)], ask[r].email)

Answer(r, a) ==
  /\ ask[r].pc = "open"
  /\ a = "created" => ask[r].made
  /\ a = "conflict" => ask[r].met /\ ~ask[r].made
  /\ ask' = [ask EXCEPT ![r] = [pc |-> "done", answer |-> a]]
  /\ UNCHANGED accounts

\* The privileged flow outside the application: accounts come, change, go.
Provide(e, role) ==
  /\ ~Taken(e)
  /\ accounts' = accounts \cup {[email |-> e, role |-> role]}
  /\ ask' = Meet(ask, e)

Change(a, role) ==
  /\ a \in accounts
  /\ accounts' = (accounts \ {a}) \cup {[a EXCEPT !.role = role]}
  /\ UNCHANGED ask

Remove(a) ==
  /\ a \in accounts
  /\ accounts' = accounts \ {a}
  /\ UNCHANGED ask

Next ==
  \/ \E r \in Requests : \/ \E e \in Emails : Ask(r, e)
                         \/ Create(r)
                         \/ \E a \in {"created", "conflict", "failed"} : Answer(r, a)
  \/ \E e \in Emails, role \in Roles : Provide(e, role)
  \/ \E a \in accounts : Remove(a) \/ \E role \in Roles : Change(a, role)

Spec == Init /\ [][Next]_vars
=============================================================================
