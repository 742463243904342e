------------------------------- MODULE Worker -------------------------------
(***************************************************************************)
(* One uvicorn worker: its threadpool, its pool of database connections    *)
(* and the way a request passes through both to its answer                 *)
(* (app/core/database.py, app/main.py, app/core/exceptions.py and the      *)
(* routes).                                                                *)
(*                                                                         *)
(* Endpoints and dependencies are plain functions, so FastAPI runs each of *)
(* them, and the validation of the result, in a thread of its own from a   *)
(* limited supply, in the order in which they asked.  A session takes a    *)
(* connection at its first statement and keeps it until it commits or is   *)
(* closed: between two threads of one request, too.  So a request may hold *)
(* a connection and wait for a thread while others hold threads and wait   *)
(* for a connection, and only the timeout of the pool ends that.           *)
(***************************************************************************)
EXTENDS Naturals, Sequences, FiniteSets

CONSTANTS Requests,
          Threads,      \* AnyIO's limit: 40
          Conns,        \* the engine's pool with its overflow: 5 + 10
          Served,       \* routes that clients call
          Faults        \* exceptions that are raised in this instance

\* What one thread does: no statement, statements, statements and a commit
\* with a refresh, statements and a commit.
Task == {"plain", "query", "commit", "delete"}

\* The threads of each kind of route: get_db, then get_current_user and
\* _check_role where they are, the endpoint, and the result's validation.
HealthTasks   == <<"plain", "plain">>
ListingTasks  == <<"plain", "query", "plain">>
RegisterTasks == <<"plain", "commit", "plain">>
PatchTasks    == <<"plain", "query", "commit", "plain">>
DeleteTasks   == <<"plain", "query", "delete">>
UploadTasks   == <<"plain", "query", "plain", "commit", "plain">>
ReadTasks     == <<"plain", "query", "plain", "query", "plain">>

Tasks == [health |-> HealthTasks, listing |-> ListingTasks,
          register |-> RegisterTasks, patch |-> PatchTasks,
          delete |-> DeleteTasks, upload |-> UploadTasks, read |-> ReadTasks]

\* Which of them is the endpoint itself.
Endpoint == [health |-> 1, listing |-> 2, register |-> 2, patch |-> 3,
             delete |-> 3, upload |-> 4, read |-> 4]

Exceptions == {"http", "rate_limit", "validation", "validator_error",
               "database", "unexpected"}

ASSUME WorkerAssumption ==
  /\ IsFiniteSet(Requests)
  /\ Threads \in Nat \ {0} /\ Conns \in Nat \ {0}
  /\ Served \subseteq DOMAIN Tasks
  /\ Faults \subseteq Exceptions

VARIABLES req,       \* the requests, each made once
          queue,     \* requests that wait for a thread
          out        \* connections that the pool counts as checked out

vars == <<req, queue, out>>

NoRequest == [pc |-> "idle", route |-> "none", task |-> 0, conn |-> FALSE,
              exc |-> "none", status |-> "none"]

Init ==
  /\ req = [r \in Requests |-> NoRequest]
  /\ queue = <<>>
  /\ out = 0

Running(r) == req[r].pc \in {"thread", "refresh"}
Busy == {r \in Requests : Running(r)}
Holders == {r \in Requests : req[r].conn}
InFlight == {r \in Requests : req[r].pc \notin {"idle", "done"}}

\* The task that r is at, and whether it has a statement to make.
At(r) == Tasks[req[r].route][req[r].task]
NeedsConnection(r) == Running(r) /\ At(r) # "plain" /\ ~req[r].conn
CanGoOn(r) == Running(r) /\ (At(r) = "plain" \/ req[r].conn)

-----------------------------------------------------------------------------
(* Threads.                                                                *)

Arrive(r, route) ==
  /\ req[r] = NoRequest
  /\ req' = [req EXCEPT ![r].pc = "queued", ![r].route = route, ![r].task = 1]
  /\ queue' = Append(queue, r)
  /\ UNCHANGED out

StartTask(r) ==
  /\ queue # <<>> /\ Head(queue) = r
  /\ Cardinality(Busy) < Threads
  /\ req' = [req EXCEPT ![r].pc = "thread"]
  /\ queue' = Tail(queue)
  /\ UNCHANGED out

\* Mutant: the next function of a request that was put off is never called.
NextTaskForgotten(r, conn) ==
  IF req[r].task < Len(Tasks[req[r].route])
    THEN /\ req' = [req EXCEPT ![r].pc = "queued", ![r].task = @ + 1, ![r].conn = conn]
         /\ UNCHANGED queue
    ELSE /\ req' = [req EXCEPT ![r].pc = "closing", ![r].conn = conn]
         /\ UNCHANGED queue

\* The thread is given back; the next function of the request asks for one.
NextTask(r, conn) ==
  IF req[r].task < Len(Tasks[req[r].route])
    THEN /\ req' = [req EXCEPT ![r].pc = "queued", ![r].task = @ + 1, ![r].conn = conn]
         /\ queue' = Append(queue, r)
    ELSE /\ req' = [req EXCEPT ![r].pc = "closing", ![r].conn = conn]
         /\ UNCHANGED queue

EndTask(r) ==
  /\ CanGoOn(r)
  /\ req[r].pc = "refresh" \/ At(r) \in {"plain", "query"}
  /\ NextTask(r, req[r].conn)
  /\ UNCHANGED out

-----------------------------------------------------------------------------
(* Connections.                                                            *)

Checkout(r) ==
  /\ NeedsConnection(r)
  /\ out < Conns
  /\ out' = out + 1
  /\ req' = [req EXCEPT ![r].conn = TRUE]
  /\ UNCHANGED queue

\* Mutant: the connection of the commit is lost to the pool.
CommitKeepsConnection(r) ==
  /\ CanGoOn(r) /\ req[r].pc = "thread"
  /\ At(r) = "commit"
  /\ req' = [req EXCEPT ![r].pc = "refresh", ![r].conn = FALSE]
  /\ UNCHANGED <<queue, out>>

\* A commit gives the connection back; the refresh takes one again.
Commit(r) ==
  /\ CanGoOn(r) /\ req[r].pc = "thread"
  /\ out' = out - 1
  /\ \/ /\ At(r) = "commit"
        /\ req' = [req EXCEPT ![r].pc = "refresh", ![r].conn = FALSE]
        /\ UNCHANGED queue
     \/ At(r) = "delete" /\ NextTask(r, FALSE)

-----------------------------------------------------------------------------
(* Exceptions, and the answer.                                             *)

Raise(r, exc) ==
  /\ req' = [req EXCEPT ![r].pc = "closing", ![r].exc = exc]
  /\ UNCHANGED <<queue, out>>

\* Mutant: an engine with pool_timeout=None.
PoolWaits(r) == NeedsConnection(r) /\ out = Conns /\ UNCHANGED vars

\* Mutant: a middleware that runs a request again when the pool timed out.
PoolTimeoutRetried(r) ==
  /\ NeedsConnection(r)
  /\ out = Conns
  /\ req' = [req EXCEPT ![r].pc = "queued"]
  /\ queue' = Append(queue, r)
  /\ UNCHANGED out

\* 30 seconds without a connection: sqlalchemy.exc.TimeoutError.
PoolTimeout(r) ==
  /\ NeedsConnection(r)
  /\ out = Conns
  /\ Raise(r, "database")

\* 401 of get_current_user, before its SELECT for a token that is no good and
\* after it for a user who is not, 403 of _check_role, what an endpoint raises
\* (a refusal, the limiter ahead of the endpoint, Postgres, Redis or S3), and
\* a result that does not fit its response_model.
TaskRaises(r, exc) ==
  /\ \/ exc = "http" /\ req[r].pc = "thread"
        /\ req[r].task \in 2..Endpoint[req[r].route]
        /\ (CanGoOn(r) \/ req[r].task < Endpoint[req[r].route])
     \/ exc = "database" /\ CanGoOn(r) /\ At(r) # "plain"
     \/ exc = "rate_limit" /\ NeedsConnection(r) /\ req[r].pc = "thread"
        /\ req[r].route = "register"
     \/ exc = "unexpected" /\ Running(r)
        /\ req[r].route # "health" /\ req[r].task >= Endpoint[req[r].route]
  /\ Raise(r, exc)

\* The body is validated when every dependency has been called: an error of
\* a field, or the ValueError of a validator of postings and profiles.
RefuseBody(r, exc) ==
  /\ CanGoOn(r)
  /\ req[r].route \in {"register", "patch", "upload"}
  /\ req[r].task = Endpoint[req[r].route] - 1
  /\ exc = "validation" \/ (exc = "validator_error" /\ req[r].route = "patch")
  /\ Raise(r, exc)

\* The handlers of core/exceptions.py and of slowapi.  The errors of a
\* validator_error hold the exception object, which JSONResponse cannot
\* encode: the handler raises, and the catch-all answers.
Status(exc) ==
  CASE exc = "none" -> "2xx"
    [] exc = "http" -> "4xx"
    [] exc = "rate_limit" -> "429"
    [] exc = "validation" -> "422"
    [] exc = "database" -> "503"
    [] OTHER -> "500"

Answered(exc) == [NoRequest EXCEPT !.pc = "done", !.exc = exc, !.status = Status(exc)]

\* Mutant: get_db without finally, so an exception leaves its session open.
CloseOnSuccess(r) ==
  /\ req[r].pc = "closing"
  /\ out' = IF req[r].conn /\ req[r].exc = "none" THEN out - 1 ELSE out
  /\ req' = [req EXCEPT ![r] = Answered(req[r].exc)]
  /\ UNCHANGED queue

\* Mutant: a connection is given back whether the session has one or not.
CloseGivesBack(r) ==
  /\ req[r].pc = "closing"
  /\ out' = out - 1
  /\ req' = [req EXCEPT ![r] = Answered(req[r].exc)]
  /\ UNCHANGED queue

\* get_db's finally, on every path; then the handlers make the answer.
Close(r) ==
  /\ req[r].pc = "closing"
  /\ out' = IF req[r].conn THEN out - 1 ELSE out
  /\ req' = [req EXCEPT ![r] = Answered(req[r].exc)]
  /\ UNCHANGED queue

\* Every request was answered: the worker waits for others.
AllAnswered == InFlight = {} /\ UNCHANGED vars

Step(r) == StartTask(r) \/ EndTask(r) \/ Checkout(r) \/ Commit(r) \/ PoolTimeout(r) \/ Close(r)

Next ==
  \/ \E r \in Requests :
       \/ Step(r)
       \/ \E route \in Served : Arrive(r, route)
       \/ \E exc \in Faults : TaskRaises(r, exc) \/ RefuseBody(r, exc)
  \/ AllAnswered

\* A thread goes on with its task, the clock of a pool wait runs, and the
\* event loop hands out threads and closes what has ended.
Spec == Init /\ [][Next]_vars /\ \A r \in Requests : WF_vars(Step(r))

-----------------------------------------------------------------------------
(* What is promised.                                                       *)

Request == [pc : {"idle", "queued", "thread", "refresh", "closing", "done"},
            route : DOMAIN Tasks \cup {"none"},
            task : 0..5,
            conn : BOOLEAN,
            exc : Exceptions \cup {"none"},
            status : {"none", "2xx", "4xx", "422", "429", "500", "503"}]

TypeOK ==
  /\ req \in [Requests -> Request]
  /\ queue \in Seq(Requests)
  /\ out \in Nat
  /\ \A r \in Requests :
       r \in InFlight => /\ req[r].route \in DOMAIN Tasks
                         /\ req[r].task \in 1..Len(Tasks[req[r].route])

\* "guarantees it's closed afterward (even on exception)": the pool counts a
\* connection as checked out exactly while a request that has not been
\* answered holds it, whatever was raised where.
ConnectionsAccounted ==
  /\ out = Cardinality(Holders)
  /\ out <= Conns
  /\ Holders \subseteq InFlight

\* Requests that wait, and can go on only when another one does.
Waiting(r) ==
  \/ req[r].pc = "queued" /\ Cardinality(Busy) = Threads
  \/ NeedsConnection(r) /\ out = Conns

\* The circle of threads and connections, where nothing but a timeout of the
\* pool moves, takes as many requests as there are threads and connections
\* together: a worker with fewer in flight never comes to a standstill.
StandstillTakesAll ==
  (InFlight # {} /\ \A r \in InFlight : Waiting(r)) =>
    Cardinality(InFlight) >= Threads + Conns

\* Every request is answered, even out of a standstill: 503 after the
\* timeout of the pool where nothing better is left.
EveryRequestAnswered ==
  \A r \in Requests : req[r].pc # "idle" ~> req[r].pc = "done"

\* It has a thread and goes on or asks the pool, which answers by a timeout at
\* the latest, or it is to be closed, or it is the next to get a free thread.
CanMove(r) ==
  \/ CanGoOn(r) \/ NeedsConnection(r) \/ req[r].pc = "closing"
  \/ queue # <<>> /\ Head(queue) = r /\ Cardinality(Busy) < Threads

\* A request that was put off between two of its functions is not lost: it
\* waits in the queue, and of those in flight somebody can always move.
NobodyForgotten ==
  /\ \A r \in Requests :
       req[r].pc = "queued" <=> \E i \in 1..Len(queue) : queue[i] = r
  /\ InFlight # {} => \E r \in InFlight : CanMove(r)

\* How far a request is from its answer, in steps of its own: six for each
\* task it has yet to begin, five or less for the task it is at.
StepsLeft(q) ==
  LET ofTask == IF q.pc = "queued" THEN 5
                ELSE (IF q.pc = "thread" THEN 3 ELSE 1) + (IF q.conn THEN 0 ELSE 1)
  IN CASE q.pc = "idle" -> 31
       [] q.pc = "done" -> 0
       [] q.pc = "closing" -> 1
       [] OTHER -> 1 + 6 * (Len(Tasks[q.route]) - q.task) + ofTask

\* Nothing is done twice: whatever happens to a request, a refusal, an error
\* or a timeout too, brings it nearer to its answer, and no other request
\* takes that back.  So at most 31 steps for each request lead to a state
\* where, as somebody in flight can always move, everyone is answered.
EveryStepCounts ==
  [][/\ req' # req
     /\ \A r \in Requests :
          req'[r] # req[r] => StepsLeft(req'[r]) < StepsLeft(req[r])]_vars

\* "what's wrong with the CLIENT'S input": a body that the schemas refuse is
\* answered with 422.
RefusedBodyIs422 ==
  \A r \in Requests :
    (req[r].pc = "done" /\ req[r].exc \in {"validation", "validator_error"}) =>
      req[r].status = "422"
=============================================================================
