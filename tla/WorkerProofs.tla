---------------------------- MODULE WorkerProofs ----------------------------
(***************************************************************************)
(* Theorems about Worker, for any requests, threads and connections.       *)
(*                                                                         *)
(* The pool's count follows the sessions: whatever a step does to the      *)
(* connection of its request it does to the count.  A standstill is then   *)
(* counted: those that hold threads wait for connections, those that hold  *)
(* connections wait for threads, and nobody holds both.                    *)
(***************************************************************************)
EXTENDS Worker, FiniteSetTheorems, TLAPS

\* The route and the task of a request in flight are real ones.
Placed(q) == q.pc \notin {"idle", "done"} =>
               q.route \in DOMAIN Tasks /\ q.task \in 1..Len(Tasks[q.route])

\* Who waits for a thread waits, and waits once.
QueuedOnce ==
  /\ \A i \in 1..Len(queue) : req[queue[i]].pc = "queued"
  /\ \A i, j \in 1..Len(queue) : queue[i] = queue[j] => i = j
  /\ \A r \in Requests : req[r].pc = "queued" => \E i \in 1..Len(queue) : queue[i] = r

WorkerInv == TypeOK /\ QueuedOnce /\ ConnectionsAccounted

\* What every step does: one request moves on to q, nearer to its answer; the
\* pool's count changes with its connection, and the queue with its place.
Moved(r, q) ==
  /\ req' = [req EXCEPT ![r] = q]
  /\ Placed(q)
  /\ q.conn => q.pc \notin {"idle", "done"}
  /\ \/ q.conn = req[r].conn /\ out' = out
     \/ q.conn /\ ~req[r].conn /\ out < Conns /\ out' = out + 1
     \/ ~q.conn /\ req[r].conn /\ out' = out - 1
  /\ \/ req[r].pc # "queued" /\ q.pc # "queued" /\ queue' = queue
     \/ req[r].pc # "queued" /\ q.pc = "queued" /\ queue' = Append(queue, r)
     \/ queue # <<>> /\ r = Head(queue) /\ q.pc # "queued" /\ queue' = Tail(queue)
  /\ StepsLeft(q) < StepsLeft(req[r])

LEMMA TasksLength == \A route \in DOMAIN Tasks : Len(Tasks[route]) \in 1..5
BY DEF Tasks, HealthTasks, ListingTasks, RegisterTasks, PatchTasks, DeleteTasks,
       UploadTasks, ReadTasks

LEMMA FirstTask ==
  ASSUME NEW n \in 1..5
  PROVE  1 \in 1..n
OBVIOUS

LEMMA TaskAfter ==
  ASSUME NEW n \in 1..5, NEW t \in 1..n, t < n
  PROVE  t + 1 \in 1..n /\ t + 1 \in 0..5
OBVIOUS

\* A request that waits for a thread, with its task t or with its first.
LEMMA QueuedTyped ==
  ASSUME NEW p \in Request, NEW t \in 0..5, NEW conn \in BOOLEAN
  PROVE  [p EXCEPT !.pc = "queued", !.task = t, !.conn = conn] \in Request
BY DEF Request

LEMMA ArrivedTyped ==
  ASSUME NEW p \in Request, NEW route \in DOMAIN Tasks
  PROVE  [p EXCEPT !.pc = "queued", !.route = route, !.task = 1] \in Request
<1>1. ASSUME NEW t \in 0..5
      PROVE  [p EXCEPT !.pc = "queued", !.route = route, !.task = t] \in Request
  BY DEF Request
<1>2. 1 \in 0..5
  OBVIOUS
<1> QED BY <1>1, <1>2

LEMMA HoldersFinite ==
  ASSUME NEW S \in SUBSET Requests
  PROVE  IsFiniteSet(S) /\ Cardinality(S) \in Nat
BY WorkerAssumption, FS_Subset, FS_CardinalityType

-----------------------------------------------------------------------------
(* One request moves on.                                                   *)

\* Its connection and the count change together.
LEMMA Counted ==
  ASSUME TypeOK, ConnectionsAccounted,
         NEW r \in Requests, NEW q \in Request, req' = [req EXCEPT ![r] = q],
         q.conn => q.pc \notin {"idle", "done"},
         \/ q.conn = req[r].conn /\ out' = out
         \/ q.conn /\ ~req[r].conn /\ out < Conns /\ out' = out + 1
         \/ ~q.conn /\ req[r].conn /\ out' = out - 1
  PROVE  ConnectionsAccounted' /\ out' \in Nat
<1>0. Conns \in Nat /\ out \in Nat
  BY WorkerAssumption DEF TypeOK
<1>1. \A s \in Requests : req'[s] = IF s = r THEN q ELSE req[s]
  BY DEF TypeOK
<1>2. q.conn \in BOOLEAN /\ req[r].conn \in BOOLEAN
  BY DEF TypeOK, Request
<1>3. Holders' \subseteq InFlight'
  BY <1>1 DEF ConnectionsAccounted, Holders, InFlight
<1>4. IsFiniteSet(Holders) /\ Holders \subseteq Requests
  BY HoldersFinite DEF Holders
<1>5. CASE q.conn = req[r].conn /\ out' = out
  <2>1. Holders' = Holders
    BY <1>1, <1>5 DEF Holders
  <2> QED BY <1>0, <1>3, <1>5, <2>1 DEF ConnectionsAccounted
<1>6. CASE q.conn /\ ~req[r].conn /\ out < Conns /\ out' = out + 1
  <2>1. Holders' = Holders \cup {r} /\ r \notin Holders
    BY <1>1, <1>6 DEF Holders
  <2>2. Cardinality(Holders') = Cardinality(Holders) + 1
    BY <1>4, <2>1, FS_AddElement
  <2> QED BY <1>0, <1>3, <1>6, <2>2 DEF ConnectionsAccounted
<1>7. CASE ~q.conn /\ req[r].conn /\ out' = out - 1
  <2>1. Holders' = Holders \ {r} /\ r \in Holders
    BY <1>1, <1>7 DEF Holders
  <2>2. Cardinality(Holders') = Cardinality(Holders) - 1
    BY <1>4, <2>1, FS_RemoveElement
  <2>3. IsFiniteSet(Holders') /\ Cardinality(Holders') \in Nat
    BY <1>4, <2>1, HoldersFinite
  <2> QED BY <1>0, <1>3, <1>7, <2>2, <2>3 DEF ConnectionsAccounted
<1> QED BY <1>5, <1>6, <1>7

\* It joins the queue, leaves it at its head, or is not in it.
LEMMA Queues ==
  ASSUME TypeOK, QueuedOnce,
         NEW r \in Requests, NEW q \in Request, req' = [req EXCEPT ![r] = q],
         \/ req[r].pc # "queued" /\ q.pc # "queued" /\ queue' = queue
         \/ req[r].pc # "queued" /\ q.pc = "queued" /\ queue' = Append(queue, r)
         \/ queue # <<>> /\ r = Head(queue) /\ q.pc # "queued" /\ queue' = Tail(queue)
  PROVE  QueuedOnce' /\ queue' \in Seq(Requests)
<1>0. queue \in Seq(Requests)
  BY DEF TypeOK
<1>1. \A s \in Requests : req'[s] = IF s = r THEN q ELSE req[s]
  BY DEF TypeOK
<1>2. \A i \in 1..Len(queue) : queue[i] \in Requests
  BY <1>0
<1>3. CASE req[r].pc # "queued" /\ q.pc # "queued" /\ queue' = queue
  BY <1>0, <1>1, <1>2, <1>3 DEF QueuedOnce
<1>4. CASE req[r].pc # "queued" /\ q.pc = "queued" /\ queue' = Append(queue, r)
  <2>1. Len(queue') = Len(queue) + 1 /\ Len(queue) \in Nat /\ queue' \in Seq(Requests)
    BY <1>0, <1>4
  <2>2. \A i \in 1..Len(queue') : queue'[i] = IF i = Len(queue) + 1 THEN r ELSE queue[i]
    BY <1>0, <1>4
  <2>3. \A i \in 1..Len(queue) : queue[i] # r
    BY <1>4 DEF QueuedOnce
  <2>4. ASSUME NEW s \in Requests, req'[s].pc = "queued"
        PROVE  \E i \in 1..Len(queue') : queue'[i] = s
    <3>1. CASE s = r
      BY <2>1, <2>2, <3>1
    <3>2. CASE s # r
      <4>1. PICK i \in 1..Len(queue) : queue[i] = s
        BY <1>1, <2>4, <3>2 DEF QueuedOnce
      <4>2. i \in 1..Len(queue') /\ i # Len(queue) + 1
        BY <2>1
      <4> QED BY <2>2, <4>1, <4>2
    <3> QED BY <3>1, <3>2
  <2>5. /\ \A i \in 1..Len(queue') : req'[queue'[i]].pc = "queued"
        /\ \A i, j \in 1..Len(queue') : queue'[i] = queue'[j] => i = j
    BY <1>1, <1>2, <1>4, <2>1, <2>2, <2>3 DEF QueuedOnce
  <2> QED BY <2>1, <2>4, <2>5 DEF QueuedOnce
<1>5. CASE queue # <<>> /\ r = Head(queue) /\ q.pc # "queued" /\ queue' = Tail(queue)
  <2>1. Len(queue') = Len(queue) - 1 /\ Len(queue) \in Nat \ {0} /\ queue' \in Seq(Requests)
    BY <1>0, <1>5
  <2>2. \A i \in 1..Len(queue') : queue'[i] = queue[i + 1]
    BY <1>0, <1>5
  <2>3. r = queue[1]
    BY <1>0, <1>5
  <2>4. \A i \in 1..Len(queue') : i + 1 \in 1..Len(queue) /\ i + 1 # 1
    BY <2>1
  <2>5. \A i \in 1..Len(queue') : queue'[i] # r
    BY <2>1, <2>2, <2>3, <2>4 DEF QueuedOnce
  <2>6. \A i \in 1..Len(queue') : req'[queue'[i]].pc = "queued"
    BY <1>1, <1>2, <2>2, <2>4, <2>5 DEF QueuedOnce
  <2>7. \A i, j \in 1..Len(queue') : queue'[i] = queue'[j] => i = j
    BY <2>1, <2>2, <2>4 DEF QueuedOnce
  <2>8. ASSUME NEW s \in Requests, req'[s].pc = "queued"
        PROVE  \E i \in 1..Len(queue') : queue'[i] = s
    <3>1. s # r
      BY <1>1, <1>5, <2>8
    <3>2. PICK i \in 1..Len(queue) : queue[i] = s
      BY <1>1, <2>8, <3>1 DEF QueuedOnce
    <3>3. i # 1
      BY <2>3, <3>1, <3>2
    <3>4. i - 1 \in 1..Len(queue') /\ (i - 1) + 1 = i
      BY <2>1, <3>3
    <3>5. queue'[i - 1] = s
      BY <2>2, <3>2, <3>4
    <3> QED BY <3>4, <3>5
  <2> QED BY <2>1, <2>6, <2>7, <2>8 DEF QueuedOnce
<1> QED BY <1>3, <1>4, <1>5

LEMMA Moves ==
  ASSUME WorkerInv, NEW r \in Requests, NEW q \in Request, Moved(r, q)
  PROVE  WorkerInv'
<1>0. TypeOK /\ QueuedOnce /\ ConnectionsAccounted
  BY DEF WorkerInv
<1>1. ConnectionsAccounted' /\ out' \in Nat
  BY <1>0, Counted DEF Moved
<1>2. QueuedOnce' /\ queue' \in Seq(Requests)
  BY <1>0, Queues DEF Moved
<1>3. req' \in [Requests -> Request]
  BY <1>0 DEF Moved, TypeOK
<1>4. \A s \in Requests : req'[s] = IF s = r THEN q ELSE req[s]
  BY <1>0 DEF Moved, TypeOK
<1>5. \A s \in Requests : s \in InFlight' => /\ req'[s].route \in DOMAIN Tasks
                                             /\ req'[s].task \in 1..Len(Tasks[req'[s].route])
  BY <1>0, <1>4 DEF Moved, TypeOK, Placed, InFlight
<1> QED BY <1>1, <1>2, <1>3, <1>5 DEF WorkerInv, TypeOK

-----------------------------------------------------------------------------
(* How far a request is from its answer.                                   *)

\* A request that waits for a thread or has one, at task t of n.
LEMMA StepsAtTask ==
  ASSUME NEW q \in Request, q.pc \in {"queued", "thread", "refresh"},
         q.route \in DOMAIN Tasks
  PROVE  \E n \in 1..5 :
           /\ n = Len(Tasks[q.route])
           /\ StepsLeft(q) = 1 + 6 * (n - q.task) +
                (IF q.pc = "queued" THEN 5
                 ELSE (IF q.pc = "thread" THEN 3 ELSE 1) + (IF q.conn THEN 0 ELSE 1))
<1>1. Len(Tasks[q.route]) \in 1..5
  BY TasksLength
<1> QED BY <1>1 DEF StepsLeft

\* The next thread of a request is nearer to its answer than this one.
LEMMA NextTaskIsNearer ==
  ASSUME NEW p \in Request, p.pc \in {"thread", "refresh"}, p.route \in DOMAIN Tasks,
         p.task \in 1..Len(Tasks[p.route]),
         NEW q \in Request, q.pc = "queued", q.route = p.route, q.task = p.task + 1
  PROVE  StepsLeft(q) < StepsLeft(p)
<1>1. PICK n \in 1..5 :
        /\ n = Len(Tasks[p.route])
        /\ StepsLeft(p) = 1 + 6 * (n - p.task) +
             ((IF p.pc = "thread" THEN 3 ELSE 1) + (IF p.conn THEN 0 ELSE 1))
  BY StepsAtTask
<1>2. StepsLeft(q) = 1 + 6 * (n - q.task) + 5
  <2>1. PICK m \in 1..5 :
          m = Len(Tasks[q.route]) /\ StepsLeft(q) = 1 + 6 * (m - q.task) + 5
    BY StepsAtTask
  <2>2. m = n
    BY <1>1, <2>1
  <2> QED BY <2>1, <2>2
<1>3. p.task \in 1..n /\ q.task = p.task + 1
  BY <1>1
<1>4. PICK k \in 1..4 : StepsLeft(p) = 1 + 6 * (n - p.task) + k
  BY <1>1, SMTT(30)
<1>5. PICK d \in 0..4 : d = n - p.task
  BY <1>3
<1>6. n - q.task = d - 1
  BY <1>3, <1>5
<1>7. StepsLeft(q) = 1 + 6 * (d - 1) + 5 /\ StepsLeft(p) = 1 + 6 * d + k
  BY <1>2, <1>4, <1>5, <1>6
<1> QED BY <1>7

\* From any of its tasks the end is nearer.
LEMMA ClosingIsNearer ==
  ASSUME NEW p \in Request, p.pc \in {"thread", "refresh"}, p.route \in DOMAIN Tasks,
         p.task \in 1..Len(Tasks[p.route]),
         NEW q \in Request, q.pc = "closing"
  PROVE  StepsLeft(q) < StepsLeft(p)
<1>1. PICK n \in 1..5 :
        /\ n = Len(Tasks[p.route])
        /\ StepsLeft(p) = 1 + 6 * (n - p.task) +
             ((IF p.pc = "thread" THEN 3 ELSE 1) + (IF p.conn THEN 0 ELSE 1))
  BY StepsAtTask
<1>2. StepsLeft(q) = 1
  BY DEF StepsLeft
<1> QED BY <1>1, <1>2

\* Within a task: a thread, a connection, the commit.
LEMMA SameTaskIsNearer ==
  ASSUME NEW p \in Request, NEW q \in Request, p.route \in DOMAIN Tasks,
         p.task \in 1..Len(Tasks[p.route]), q.route = p.route, q.task = p.task,
         \/ p.pc = "queued" /\ q.pc = "thread"
         \/ p.pc \in {"thread", "refresh"} /\ q.pc = p.pc /\ ~p.conn /\ q.conn
         \/ p.pc = "thread" /\ p.conn /\ q.pc = "refresh" /\ ~q.conn
  PROVE  StepsLeft(q) < StepsLeft(p)
<1>1. PICK n \in 1..5 :
        /\ n = Len(Tasks[p.route])
        /\ StepsLeft(p) = 1 + 6 * (n - p.task) +
             (IF p.pc = "queued" THEN 5
              ELSE (IF p.pc = "thread" THEN 3 ELSE 1) + (IF p.conn THEN 0 ELSE 1))
  BY StepsAtTask
<1>2. StepsLeft(q) = 1 + 6 * (n - q.task) +
        ((IF q.pc = "thread" THEN 3 ELSE 1) + (IF q.conn THEN 0 ELSE 1))
  <2>1. PICK m \in 1..5 :
          /\ m = Len(Tasks[q.route])
          /\ StepsLeft(q) = 1 + 6 * (m - q.task) +
               ((IF q.pc = "thread" THEN 3 ELSE 1) + (IF q.conn THEN 0 ELSE 1))
    BY StepsAtTask
  <2>2. m = n
    BY <1>1, <2>1
  <2> QED BY <2>1, <2>2
<1>3. p.task \in 1..n /\ q.task = p.task
  BY <1>1
<1>4. PICK j \in 1..5 :
        /\ j = (IF p.pc = "queued" THEN 5
                ELSE (IF p.pc = "thread" THEN 3 ELSE 1) + (IF p.conn THEN 0 ELSE 1))
        /\ StepsLeft(p) = 1 + 6 * (n - p.task) + j
  BY <1>1
<1>5. PICK k \in 1..4 :
        /\ k = (IF q.pc = "thread" THEN 3 ELSE 1) + (IF q.conn THEN 0 ELSE 1)
        /\ StepsLeft(q) = 1 + 6 * (n - q.task) + k
  BY <1>2
<1>6. k < j
  BY <1>4, <1>5
<1> QED BY <1>3, <1>4, <1>5, <1>6

-----------------------------------------------------------------------------
(* Every step is such a move.                                              *)

\* The next task, or the end of the last one, with or without a connection.
LEMMA NextTaskMoves ==
  ASSUME WorkerInv, NEW r \in Requests, NEW conn \in BOOLEAN, Running(r), NextTask(r, conn),
         \/ conn = req[r].conn /\ out' = out
         \/ ~conn /\ req[r].conn /\ out' = out - 1
  PROVE  \E q \in Request : Moved(r, q)
<1>0. /\ req[r] \in Request /\ req[r].route \in DOMAIN Tasks
      /\ req[r].task \in 1..Len(Tasks[req[r].route])
      /\ Len(Tasks[req[r].route]) \in 1..5
      /\ req[r].pc \in {"thread", "refresh"}
  BY TasksLength DEF WorkerInv, TypeOK, Running, InFlight
<1>1. CASE req[r].task < Len(Tasks[req[r].route])
  <2> DEFINE t == req[r].task + 1
             q == [req[r] EXCEPT !.pc = "queued", !.task = t, !.conn = conn]
  <2>0. t \in 1..Len(Tasks[req[r].route]) /\ t \in 0..5
    BY <1>0, <1>1, TaskAfter
  <2>4. req' = [req EXCEPT ![r] = q] /\ queue' = Append(queue, r)
    BY <1>1 DEF NextTask, WorkerInv, TypeOK
  <2> HIDE DEF t
  <2>1. /\ q \in Request /\ q.pc = "queued" /\ q.conn = conn
        /\ q.route = req[r].route /\ q.task = t
    <3>1. q \in Request
      BY <1>0, <2>0, QueuedTyped
    <3> QED BY <1>0, <3>1 DEF Request
  <2>3. Placed(q)
    BY <1>0, <2>0, <2>1 DEF Placed
  <2> HIDE DEF q
  <2>5. StepsLeft(q) < StepsLeft(req[r])
    BY <1>0, <2>1, NextTaskIsNearer DEF t
  <2>6. Moved(r, q)
    BY <1>0, <2>1, <2>3, <2>4, <2>5 DEF Moved
  <2> QED BY <2>1, <2>6
<1>2. CASE ~(req[r].task < Len(Tasks[req[r].route]))
  <2> DEFINE q == [req[r] EXCEPT !.pc = "closing", !.conn = conn]
  <2>1. q \in Request /\ Placed(q) /\ q.pc = "closing" /\ q.conn = conn
    BY <1>0 DEF Request, Placed
  <2>2. req' = [req EXCEPT ![r] = q] /\ queue' = queue
    BY <1>2 DEF NextTask, WorkerInv, TypeOK
  <2> HIDE DEF q
  <2>3. StepsLeft(q) < StepsLeft(req[r])
    BY <1>0, <2>1, ClosingIsNearer
  <2>4. Moved(r, q)
    BY <1>0, <2>1, <2>2, <2>3 DEF Moved
  <2> QED BY <2>1, <2>4
<1> QED BY <1>1, <1>2

LEMMA RaiseMoves ==
  ASSUME WorkerInv, NEW r \in Requests, NEW exc \in Exceptions, Running(r), Raise(r, exc)
  PROVE  \E q \in Request : Moved(r, q)
<1> DEFINE q == [req[r] EXCEPT !.pc = "closing", !.exc = exc]
<1>0. /\ req[r] \in Request /\ req[r].pc \in {"thread", "refresh"}
      /\ req[r].route \in DOMAIN Tasks /\ req[r].task \in 1..Len(Tasks[req[r].route])
  BY DEF WorkerInv, TypeOK, Running, InFlight
<1>1. q \in Request /\ Placed(q) /\ q.pc = "closing" /\ q.conn = req[r].conn
  BY <1>0 DEF Request, Placed
<1>2. req' = [req EXCEPT ![r] = q] /\ UNCHANGED <<queue, out>>
  BY DEF Raise, WorkerInv, TypeOK
<1> HIDE DEF q
<1>3. StepsLeft(q) < StepsLeft(req[r])
  BY <1>0, <1>1, ClosingIsNearer
<1>4. Moved(r, q)
  BY <1>0, <1>1, <1>2, <1>3 DEF Moved
<1> QED BY <1>1, <1>4

LEMMA InitInv == Init => WorkerInv
<1> SUFFICES ASSUME Init
             PROVE  WorkerInv
  OBVIOUS
<1>1. NoRequest \in Request /\ NoRequest.pc = "idle" /\ ~NoRequest.conn
  BY DEF NoRequest, Request
<1>2. \A r \in Requests : req[r] = NoRequest
  BY DEF Init
<1>3. Holders = {} /\ InFlight = {}
  BY <1>1, <1>2 DEF Holders, InFlight
<1>4. TypeOK
  BY <1>1, <1>3 DEF Init, TypeOK
<1>5. QueuedOnce
  BY <1>1, <1>2 DEF Init, QueuedOnce
<1>6. ConnectionsAccounted
  BY <1>3, FS_EmptySet, WorkerAssumption DEF Init, ConnectionsAccounted
<1> QED BY <1>4, <1>5, <1>6 DEF WorkerInv

LEMMA NextMoves ==
  ASSUME WorkerInv, [Next]_vars
  PROVE  \/ \E r \in Requests, q \in Request : Moved(r, q)
         \/ UNCHANGED vars
<1>0. TypeOK /\ \A r \in Requests : req[r] \in Request
  BY DEF WorkerInv, TypeOK
<1>1. ASSUME NEW r \in Requests, NEW route \in Served, Arrive(r, route)
      PROVE  \E q \in Request : Moved(r, q)
  <2> DEFINE q == [NoRequest EXCEPT !.pc = "queued", !.route = route, !.task = 1]
  <2>0. route \in DOMAIN Tasks /\ Len(Tasks[route]) \in 1..5
    BY TasksLength, WorkerAssumption
  <2>1. NoRequest \in Request /\ NoRequest.pc = "idle" /\ NoRequest.conn = FALSE
    BY DEF NoRequest, Request
  <2>2. q \in Request /\ q.pc = "queued" /\ q.conn = FALSE /\ q.route = route /\ q.task = 1
    <3>1. q \in Request
      BY <2>0, <2>1, ArrivedTyped
    <3> QED BY <2>1, <3>1 DEF Request
  <2>4. Placed(q)
    <3>1. 1 \in 1..Len(Tasks[route])
      BY <2>0, FirstTask
    <3> QED BY <2>0, <2>2, <3>1 DEF Placed
  <2>3. req' = [req EXCEPT ![r] = q] /\ queue' = Append(queue, r) /\ out' = out
          /\ req[r].pc = "idle" /\ req[r].conn = FALSE
    BY <1>0, <1>1, <2>1 DEF Arrive, TypeOK
  <2> HIDE DEF q
  <2>5. StepsLeft(q) < StepsLeft(req[r])
    <3>1. PICK n \in 1..5 : StepsLeft(q) = 1 + 6 * (n - q.task) + 5
      BY <2>0, <2>2, StepsAtTask
    <3>2. StepsLeft(req[r]) = 31
      BY <2>3 DEF StepsLeft
    <3> QED BY <2>2, <3>1, <3>2
  <2>6. Moved(r, q)
    BY <2>2, <2>3, <2>4, <2>5 DEF Moved
  <2> QED BY <2>2, <2>6
<1>2. ASSUME NEW r \in Requests, StartTask(r)
      PROVE  \E q \in Request : Moved(r, q)
  <2> DEFINE q == [req[r] EXCEPT !.pc = "thread"]
  <2>1. req[r].pc = "queued"
    <3>1. queue[1] = r /\ 1 \in 1..Len(queue)
      BY <1>0, <1>2 DEF StartTask, TypeOK
    <3> QED BY <3>1 DEF WorkerInv, QueuedOnce
  <2>2. q \in Request /\ Placed(q) /\ q.pc = "thread" /\ q.conn = req[r].conn
    BY <1>0, <2>1 DEF Request, Placed, TypeOK, InFlight
  <2>3. req' = [req EXCEPT ![r] = q] /\ out' = out
          /\ queue # <<>> /\ r = Head(queue) /\ queue' = Tail(queue)
    BY <1>0, <1>2 DEF StartTask, TypeOK
  <2>4. q.route = req[r].route /\ q.task = req[r].task
    BY <1>0 DEF Request
  <2>5. req[r].route \in DOMAIN Tasks /\ req[r].task \in 1..Len(Tasks[req[r].route])
    BY <1>0, <2>1 DEF TypeOK, InFlight
  <2> HIDE DEF q
  <2>6. StepsLeft(q) < StepsLeft(req[r])
    BY <1>0, <2>1, <2>2, <2>4, <2>5, SameTaskIsNearer
  <2>7. Moved(r, q)
    BY <2>1, <2>2, <2>3, <2>6 DEF Moved
  <2> QED BY <2>2, <2>7
<1>3. ASSUME NEW r \in Requests, EndTask(r)
      PROVE  \E q \in Request : Moved(r, q)
  <2>1. req[r].conn \in BOOLEAN
    BY <1>0 DEF Request
  <2> QED BY <1>3, <2>1, NextTaskMoves DEF EndTask, CanGoOn
<1>4. ASSUME NEW r \in Requests, Checkout(r)
      PROVE  \E q \in Request : Moved(r, q)
  <2> DEFINE q == [req[r] EXCEPT !.conn = TRUE]
  <2>1. ~req[r].conn /\ req[r].pc \in {"thread", "refresh"} /\ out < Conns
    BY <1>4 DEF Checkout, NeedsConnection, Running
  <2>2. q \in Request /\ Placed(q) /\ q.pc = req[r].pc /\ q.conn
    BY <1>0, <2>1 DEF Request, Placed, TypeOK, InFlight
  <2>3. req' = [req EXCEPT ![r] = q] /\ queue' = queue /\ out' = out + 1
    BY <1>0, <1>4 DEF Checkout, TypeOK
  <2>4. q.route = req[r].route /\ q.task = req[r].task
    BY <1>0 DEF Request
  <2>5. req[r].route \in DOMAIN Tasks /\ req[r].task \in 1..Len(Tasks[req[r].route])
    BY <1>0, <2>1 DEF TypeOK, InFlight
  <2> HIDE DEF q
  <2>6. StepsLeft(q) < StepsLeft(req[r])
    BY <1>0, <2>1, <2>2, <2>4, <2>5, SameTaskIsNearer
  <2>7. Moved(r, q)
    BY <2>1, <2>2, <2>3, <2>6 DEF Moved
  <2> QED BY <2>2, <2>7
<1>5. ASSUME NEW r \in Requests, Commit(r)
      PROVE  \E q \in Request : Moved(r, q)
  <2>1. req[r].conn /\ req[r].pc = "thread" /\ Running(r) /\ out' = out - 1
    BY <1>5 DEF Commit, CanGoOn, Running
  <2>2. CASE req' = [req EXCEPT ![r].pc = "refresh", ![r].conn = FALSE] /\ UNCHANGED queue
    <3> DEFINE q == [req[r] EXCEPT !.pc = "refresh", !.conn = FALSE]
    <3>1. q \in Request /\ Placed(q) /\ q.pc = "refresh" /\ ~q.conn
      BY <1>0, <2>1 DEF Request, Placed, TypeOK, InFlight
    <3>2. req' = [req EXCEPT ![r] = q]
      BY <1>0, <2>2 DEF TypeOK
    <3>3. q.route = req[r].route /\ q.task = req[r].task
      BY <1>0 DEF Request
    <3>4. req[r].route \in DOMAIN Tasks /\ req[r].task \in 1..Len(Tasks[req[r].route])
      BY <1>0, <2>1 DEF TypeOK, InFlight
    <3> HIDE DEF q
    <3>5. StepsLeft(q) < StepsLeft(req[r])
      BY <1>0, <2>1, <3>1, <3>3, <3>4, SameTaskIsNearer
    <3>6. Moved(r, q)
      BY <2>1, <2>2, <3>1, <3>2, <3>5 DEF Moved
    <3> QED BY <3>1, <3>6
  <2>3. CASE NextTask(r, FALSE)
    BY <2>1, <2>3, NextTaskMoves
  <2> QED BY <1>5, <2>2, <2>3 DEF Commit
<1>6. ASSUME NEW r \in Requests, PoolTimeout(r)
      PROVE  \E q \in Request : Moved(r, q)
  BY <1>6, RaiseMoves DEF PoolTimeout, NeedsConnection, Exceptions
<1>7. ASSUME NEW r \in Requests, NEW exc \in Faults, TaskRaises(r, exc)
      PROVE  \E q \in Request : Moved(r, q)
  BY <1>7, RaiseMoves, WorkerAssumption DEF TaskRaises, CanGoOn, NeedsConnection, Running
<1>8. ASSUME NEW r \in Requests, NEW exc \in Faults, RefuseBody(r, exc)
      PROVE  \E q \in Request : Moved(r, q)
  BY <1>8, RaiseMoves, WorkerAssumption DEF RefuseBody, CanGoOn
<1>9. ASSUME NEW r \in Requests, Close(r)
      PROVE  \E q \in Request : Moved(r, q)
  <2> DEFINE q == Answered(req[r].exc)
  <2>1. q \in Request /\ q.pc = "done" /\ q.conn = FALSE
    <3>1. NoRequest \in Request /\ NoRequest.conn = FALSE
      BY DEF NoRequest, Request
    <3>2. req[r].exc \in Exceptions \cup {"none"}
      BY <1>0 DEF Request
    <3>3. Status(req[r].exc) \in {"2xx", "4xx", "422", "429", "500", "503"}
      BY DEF Status
    <3> QED BY <3>1, <3>2, <3>3 DEF Answered, Request
  <2>3. Placed(q)
    BY <2>1 DEF Placed
  <2>2. req' = [req EXCEPT ![r] = q] /\ queue' = queue
          /\ out' = (IF req[r].conn THEN out - 1 ELSE out) /\ req[r].pc = "closing"
          /\ req[r].conn \in BOOLEAN
    BY <1>0, <1>9 DEF Close, Request
  <2> HIDE DEF q
  <2>4. StepsLeft(q) < StepsLeft(req[r])
    BY <2>1, <2>2 DEF StepsLeft
  <2>5. Moved(r, q)
    BY <2>1, <2>2, <2>3, <2>4 DEF Moved
  <2> QED BY <2>1, <2>5
<1>10. CASE AllAnswered \/ UNCHANGED vars
  BY <1>10 DEF AllAnswered
<1> QED
  BY <1>1, <1>2, <1>3, <1>4, <1>5, <1>6, <1>7, <1>8, <1>9, <1>10 DEF Next, Step

LEMMA NextInv == WorkerInv /\ [Next]_vars => WorkerInv'
<1> SUFFICES ASSUME WorkerInv, [Next]_vars
             PROVE  WorkerInv'
  OBVIOUS
<1>1. ASSUME NEW r \in Requests, NEW q \in Request, Moved(r, q)
      PROVE  WorkerInv'
  BY <1>1, Moves
<1>2. CASE UNCHANGED vars
  BY <1>2 DEF vars, WorkerInv, TypeOK, QueuedOnce, ConnectionsAccounted, InFlight, Holders
<1> QED BY <1>1, <1>2, NextMoves

-----------------------------------------------------------------------------
(* What is promised.                                                       *)

\* The inductive invariant: the types, a queue without repetition, and the
\* count of connections that get_db and the commits keep.
THEOREM WorkerInvHolds == Spec => []WorkerInv
BY InitInv, NextInv, PTL DEF Spec

\* The type invariant of a worker, for any threads, connections and routes.
THEOREM TypeCorrect == Spec => []TypeOK
<1>1. WorkerInv => TypeOK
  BY DEF WorkerInv
<1> QED BY <1>1, WorkerInvHolds, PTL

\* The pool counts a connection as checked out exactly while a request that
\* has not been answered holds it, on every path through get_db's finally.
THEOREM NoConnectionLeaks == Spec => []ConnectionsAccounted
<1>1. WorkerInv => ConnectionsAccounted
  BY DEF WorkerInv
<1> QED BY <1>1, WorkerInvHolds, PTL

\* A worker stands still, but for the timeout of its pool, only with as many
\* requests in flight as it has threads and connections together.
THEOREM StandstillIsLarge == Spec => []StandstillTakesAll
<1>1. WorkerInv => StandstillTakesAll
  <2> SUFFICES ASSUME WorkerInv, InFlight # {}, \A r \in InFlight : Waiting(r)
               PROVE  Cardinality(InFlight) >= Threads + Conns
    BY DEF StandstillTakesAll
  <2>0. Threads \in Nat \ {0} /\ Conns \in Nat \ {0}
    BY WorkerAssumption
  <2>1. Busy \subseteq InFlight /\ Holders \subseteq InFlight /\ InFlight \subseteq Requests
    BY DEF WorkerInv, ConnectionsAccounted, Busy, Running, InFlight
  <2>2. \A r \in Busy : ~req[r].conn /\ out = Conns
    BY <2>1 DEF Waiting, NeedsConnection, Busy, Running
  <2>3. \A r \in InFlight \ Busy : Cardinality(Busy) = Threads
    BY <2>1 DEF Waiting, NeedsConnection, Busy, Running
  <2>4. Busy \cap Holders = {}
    BY <2>2 DEF Holders
  <2>5. Cardinality(Busy) = Threads /\ Cardinality(Holders) = Conns
    <3>1. CASE Busy = {}
      BY <2>0, <2>3, <3>1, FS_EmptySet
    <3>2. CASE Busy # {}
      <4>1. Cardinality(Holders) = Conns
        BY <2>2, <3>2 DEF WorkerInv, ConnectionsAccounted
      <4>2. Holders # {}
        BY <2>0, <4>1, FS_EmptySet
      <4> QED BY <2>1, <2>3, <2>4, <4>1, <4>2
    <3> QED BY <3>1, <3>2
  <2>6. IsFiniteSet(Busy) /\ IsFiniteSet(Holders) /\ IsFiniteSet(InFlight)
    BY <2>1, HoldersFinite
  <2>7. Cardinality(Busy \cup Holders) = Threads + Conns
    <3>1. Cardinality(Busy \cup Holders) =
            Cardinality(Busy) + Cardinality(Holders) - Cardinality(Busy \cap Holders)
      BY <2>6, FS_Union
    <3> QED BY <2>0, <2>4, <2>5, <3>1, FS_EmptySet
  <2>8. Cardinality(Busy \cup Holders) <= Cardinality(InFlight)
    BY <2>1, <2>6, FS_Subset
  <2>9. Cardinality(InFlight) \in Nat
    BY <2>6, FS_CardinalityType
  <2> QED BY <2>0, <2>7, <2>8, <2>9
<1> QED BY <1>1, WorkerInvHolds, PTL

\* Between any two functions of a request, whoever else runs, fails or times
\* out, it is in the queue; and whoever is in flight, one of them can go on.
THEOREM NobodyIsForgotten == Spec => []NobodyForgotten
<1>1. WorkerInv => NobodyForgotten
  <2> SUFFICES ASSUME WorkerInv
               PROVE  NobodyForgotten
    OBVIOUS
  <2>0. /\ queue \in Seq(Requests) /\ Threads \in Nat \ {0} /\ Conns \in Nat \ {0}
        /\ \A r \in Requests : req[r] \in Request
    BY WorkerAssumption DEF WorkerInv, TypeOK
  <2>1. \A r \in Requests :
          req[r].pc = "queued" <=> \E i \in 1..Len(queue) : queue[i] = r
    BY DEF WorkerInv, QueuedOnce
  <2>2. ASSUME InFlight # {}
        PROVE  \E r \in InFlight : CanMove(r)
    <3>1. CASE \E r \in Requests : Running(r)
      BY <3>1 DEF Running, InFlight, CanMove, CanGoOn, NeedsConnection
    <3>2. CASE \E r \in Requests : req[r].pc = "closing"
      BY <3>2 DEF InFlight, CanMove
    <3>3. CASE \A r \in Requests : ~Running(r) /\ req[r].pc # "closing"
      <4>1. PICK r \in Requests : req[r].pc = "queued"
        BY <2>0, <2>2, <3>3 DEF InFlight, Running, Request
      <4>2. PICK i \in 1..Len(queue) : queue[i] = r
        BY <2>1, <4>1
      <4>3. queue # <<>> /\ Head(queue) = queue[1] /\ 1 \in 1..Len(queue)
        BY <2>0, <4>2
      <4>4. Head(queue) \in Requests /\ req[Head(queue)].pc = "queued"
        BY <2>0, <4>3 DEF WorkerInv, QueuedOnce
      <4>5. Busy = {}
        BY <3>3 DEF Busy
      <4>6. Cardinality(Busy) < Threads
        BY <2>0, <4>5, FS_EmptySet
      <4> QED BY <4>3, <4>4, <4>6 DEF InFlight, CanMove
    <3> QED BY <3>1, <3>2, <3>3
  <2> QED BY <2>1, <2>2 DEF NobodyForgotten
<1> QED BY <1>1, WorkerInvHolds, PTL

\* Every step of a worker brings one request nearer to its answer and takes no
\* other back, on every route and with every exception: with NobodyForgotten,
\* what EveryRequestAnswered needs beside the fairness of the steps.
THEOREM StepsAlwaysCount == Spec => EveryStepCounts
<1>1. WorkerInv /\ [Next]_vars =>
        [/\ req' # req
         /\ \A r \in Requests :
              req'[r] # req[r] => StepsLeft(req'[r]) < StepsLeft(req[r])]_vars
  <2> SUFFICES ASSUME WorkerInv, [Next]_vars, ~UNCHANGED vars
               PROVE  /\ req' # req
                      /\ \A r \in Requests :
                           req'[r] # req[r] => StepsLeft(req'[r]) < StepsLeft(req[r])
    OBVIOUS
  <2>1. PICK r \in Requests, q \in Request : Moved(r, q)
    BY NextMoves
  <2>2. req'[r] = q /\ \A s \in Requests \ {r} : req'[s] = req[s]
    BY <2>1 DEF Moved, WorkerInv, TypeOK
  <2>3. StepsLeft(q) < StepsLeft(req[r])
    BY <2>1 DEF Moved
  <2>4. q # req[r]
    <3>1. StepsLeft(req[r]) \in Nat
      <4>0. req[r] \in Request
        BY DEF WorkerInv, TypeOK
      <4>1. CASE req[r].pc \in {"idle", "closing", "done"}
        BY <4>1 DEF StepsLeft
      <4>2. CASE req[r].pc \in {"queued", "thread", "refresh"}
        <5>1. /\ req[r].route \in DOMAIN Tasks
              /\ req[r].task \in 1..Len(Tasks[req[r].route])
          BY <4>2 DEF WorkerInv, TypeOK, InFlight
        <5>2. PICK n \in 1..5 :
                /\ n = Len(Tasks[req[r].route])
                /\ StepsLeft(req[r]) = 1 + 6 * (n - req[r].task) +
                     (IF req[r].pc = "queued" THEN 5
                      ELSE (IF req[r].pc = "thread" THEN 3 ELSE 1)
                           + (IF req[r].conn THEN 0 ELSE 1))
          BY <4>0, <4>2, <5>1, StepsAtTask
        <5>3. n - req[r].task \in Nat
          BY <5>1, <5>2
        <5> QED BY <5>2, <5>3
      <4> QED BY <4>0, <4>1, <4>2 DEF Request
    <3> QED BY <2>3, <3>1
  <2> QED BY <2>2, <2>3, <2>4
<1> QED BY <1>1, WorkerInvHolds, PTL DEF Spec, EveryStepCounts
=============================================================================
