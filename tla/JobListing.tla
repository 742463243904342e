----------------------------- MODULE JobListing -----------------------------
(***************************************************************************)
(* The cached job listing: the recruiters' requests that change            *)
(* job_postings, the public GET /api/v1/jobs requests, and the Redis keys  *)
(* they share (app/core/cache.py, app/api/v1/routes/jobs.py,               *)
(* app/services/job_posting_service.py,                                    *)
(* app/repositories/job_posting_repository.py).                            *)
(*                                                                         *)
(* The rows are abstracted to the number of committed changes: a listing   *)
(* read when n changes were committed shows exactly those n.  The rows     *)
(* themselves are in module JobBoard, which refines this one.  Each        *)
(* handler runs in a thread of its own (sync endpoints in a threadpool,    *)
(* four worker processes), so one action is one call that leaves the       *)
(* process: a Postgres statement or commit, or a Redis command.            *)
(***************************************************************************)
EXTENDS Naturals

CONSTANTS Writers,      \* requests that create, update or delete postings
          Readers,      \* requests that list open postings
          Pages,        \* the (limit, offset) pairs that are asked for
          MaxCommits,   \* bound: changes of job_postings that are explored
          MaxBumps      \* bound: values of jobs:version that are explored

ASSUME ListingAssumption == MaxCommits \in Nat /\ MaxBumps \in Nat

VARIABLES commits,      \* committed changes of job_postings
          version,      \* Redis key jobs:version, 0 when it is missing
          cache,        \* the listings in Redis, at most one per (ver, page)
          writer,       \* writer[w]: where w's request stands
          reader,       \* reader[r]: where r's request stands
          acked         \* history: newest change whose writer got its reply

vars == <<commits, version, cache, writer, reader, acked>>

Entry == [ver : 0..MaxBumps, page : Pages, items : 0..MaxCommits,
          total : 0..MaxCommits]

WriteState == [pc : {"idle", "commit", "refresh", "bump", "respond"},
               at : 0..MaxCommits]

NoWrite == [pc |-> "idle", at |-> 0]

NoPage == "no page"

ReadState == [pc : {"idle", "lookup", "items", "count", "store", "respond"},
              ver : 0..MaxBumps, page : Pages \cup {NoPage},
              items : 0..MaxCommits, total : 0..MaxCommits,
              floor : 0..MaxCommits]

IdleReader == [pc |-> "idle", ver |-> 0, page |-> NoPage,
               items |-> 0, total |-> 0, floor |-> 0]

Init == /\ commits = 0
        /\ version = 0
        /\ cache = {}
        /\ writer = [w \in Writers |-> NoWrite]
        /\ reader = [r \in Readers |-> IdleReader]
        /\ acked = 0

-----------------------------------------------------------------------------
(* The writers.                                                            *)

BeginWrite(w) ==
  /\ writer[w].pc = "idle"
  /\ writer' = [writer EXCEPT ![w].pc = "commit"]
  /\ UNCHANGED <<commits, version, cache, reader, acked>>

\* Mutant: one of the three writes replies without a bump.
CommitWithoutBump(w) ==
  /\ writer[w].pc = "commit"
  /\ \/ commits < MaxCommits /\ commits' = commits + 1
     \/ commits' = commits
  /\ \E next \in {"refresh", "bump", "respond"} :
       writer' = [writer EXCEPT ![w] = [pc |-> next, at |-> commits']]
  /\ UNCHANGED <<version, cache, reader, acked>>

\* db.commit().  A write that changes no row (a PATCH whose values are the
\* stored ones, a DELETE of a row already gone) commits too and goes on.
\* Create and update refresh the row before they bump, delete does not.
Commit(w) ==
  /\ writer[w].pc = "commit"
  /\ \/ commits < MaxCommits /\ commits' = commits + 1
     \/ commits' = commits
  /\ \E next \in {"refresh", "bump"} :
       writer' = [writer EXCEPT ![w] = [pc |-> next, at |-> commits']]
  /\ UNCHANGED <<version, cache, reader, acked>>

\* db.refresh(job): a SELECT, it changes nothing that is shared.
Refresh(w) ==
  /\ writer[w].pc = "refresh"
  /\ writer' = [writer EXCEPT ![w].pc = "bump"]
  /\ UNCHANGED <<commits, version, cache, reader, acked>>

\* bump_list_version("jobs"): INCR jobs:version.
Bump(w) ==
  /\ writer[w].pc = "bump"
  /\ version < MaxBumps
  /\ version' = version + 1
  /\ writer' = [writer EXCEPT ![w].pc = "respond"]
  /\ UNCHANGED <<commits, cache, reader, acked>>

\* The 200, 201 or 204 reaches the client.
Acknowledge(w) ==
  /\ writer[w].pc = "respond"
  /\ acked' = IF writer[w].at > acked THEN writer[w].at ELSE acked
  /\ writer' = [writer EXCEPT ![w] = NoWrite]
  /\ UNCHANGED <<commits, version, cache, reader>>

\* The request ends without its success reply, at any point: 403 or 404
\* before the commit, 503 when the commit or the refresh fails, 500 when
\* Redis does, a worker that dies, a connection that breaks.  What was
\* committed stays committed, and a bump not yet made is never made.
WriteAborts(w) ==
  /\ writer[w].pc # "idle"
  /\ writer' = [writer EXCEPT ![w] = NoWrite]
  /\ UNCHANGED <<commits, version, cache, reader, acked>>

-----------------------------------------------------------------------------
(* The readers.                                                            *)

\* get_list_version("jobs"), the first thing a listing request does.  floor
\* is the history the answer is judged by: what was acknowledged by now.
ReadVersion(r, p) ==
  /\ reader[r].pc = "idle"
  /\ reader' = [reader EXCEPT ![r] = [pc |-> "lookup", ver |-> version,
                                      page |-> p, items |-> 0, total |-> 0,
                                      floor |-> acked]]
  /\ UNCHANGED <<commits, version, cache, writer, acked>>

\* Mutant: a cache key without the version.
CachedForAnyVersion(r) == {e \in cache : e.page = reader[r].page}

\* The entries under the key jobs:list:v<ver>:limit=..:offset=.. of r.
CachedFor(r) == {e \in cache : e.ver = reader[r].ver /\ e.page = reader[r].page}

\* get_json(cache_key) found the listing: it is the answer.
Hit(r) ==
  /\ reader[r].pc = "lookup"
  /\ \E e \in CachedFor(r) :
       reader' = [reader EXCEPT ![r] = [@ EXCEPT !.pc = "respond",
                                                 !.items = e.items,
                                                 !.total = e.total]]
  /\ UNCHANGED <<commits, version, cache, writer, acked>>

Miss(r) ==
  /\ reader[r].pc = "lookup"
  /\ CachedFor(r) = {}
  /\ reader' = [reader EXCEPT ![r].pc = "items"]
  /\ UNCHANGED <<commits, version, cache, writer, acked>>

\* Mutant: the statements of a request share one REPEATABLE READ snapshot,
\* which is as old as its first statement.
QueryItemsOfSnapshot(r) ==
  /\ reader[r].pc = "items"
  /\ \E n \in reader[r].floor..commits :
       reader' = [reader EXCEPT ![r].pc = "count", ![r].items = n]
  /\ UNCHANGED <<commits, version, cache, writer, acked>>

\* list_open runs two statements.  Under READ COMMITTED each of them sees
\* what is committed when it starts, so the total may be newer.
QueryItems(r) ==
  /\ reader[r].pc = "items"
  /\ reader' = [reader EXCEPT ![r].pc = "count", ![r].items = commits]
  /\ UNCHANGED <<commits, version, cache, writer, acked>>

QueryCount(r) ==
  /\ reader[r].pc = "count"
  /\ reader' = [reader EXCEPT ![r].pc = "store", ![r].total = commits]
  /\ UNCHANGED <<commits, version, cache, writer, acked>>

\* Mutant: the key is built from the version read again after the rows.
StoreUnderCurrentVersion(r) ==
  /\ reader[r].pc = "store"
  /\ cache' = {e \in cache : e.ver # version \/ e.page # reader[r].page} \cup
                {[ver |-> version, page |-> reader[r].page,
                  items |-> reader[r].items, total |-> reader[r].total]}
  /\ reader' = [reader EXCEPT ![r].pc = "respond"]
  /\ UNCHANGED <<commits, version, writer, acked>>

\* Mutant: the page is cached without its envelope.
StoreItemsOnly(r) ==
  /\ reader[r].pc = "store"
  /\ cache' = (cache \ CachedFor(r)) \cup
                {[ver |-> reader[r].ver, page |-> reader[r].page,
                  items |-> reader[r].items]}
  /\ reader' = [reader EXCEPT ![r].pc = "respond"]
  /\ UNCHANGED <<commits, version, writer, acked>>

\* set_json(cache_key, ...): the key holds the version read at the start.
Store(r) ==
  /\ reader[r].pc = "store"
  /\ cache' = (cache \ CachedFor(r)) \cup
                {[ver |-> reader[r].ver, page |-> reader[r].page,
                  items |-> reader[r].items, total |-> reader[r].total]}
  /\ reader' = [reader EXCEPT ![r].pc = "respond"]
  /\ UNCHANGED <<commits, version, writer, acked>>

Deliver(r) ==
  /\ reader[r].pc = "respond"
  /\ reader' = [reader EXCEPT ![r] = IdleReader]
  /\ UNCHANGED <<commits, version, cache, writer, acked>>

\* Redis or Postgres fails under the request, or its worker dies.
ReadFails(r) ==
  /\ reader[r].pc # "idle"
  /\ reader' = [reader EXCEPT ![r] = IdleReader]
  /\ UNCHANGED <<commits, version, cache, writer, acked>>

-----------------------------------------------------------------------------
(* Redis.                                                                  *)

\* Mutant: SET without EX.
ExpireNever(v, p) == FALSE /\ v = 0 /\ p \in Pages /\ UNCHANGED vars

\* The TTL of a listing runs out.  jobs:version is written without a TTL.
Expire(v, p) ==
  /\ \E e \in cache : e.ver = v /\ e.page = p
  /\ cache' = {e \in cache : ~(e.ver = v /\ e.page = p)}
  /\ UNCHANGED <<commits, version, writer, reader, acked>>

\* Redis restarts with nothing on disk: the listings are gone, and so is
\* jobs:version, which get_list_version reads as 0 and INCR takes to 1.
RedisRestart ==
  /\ version' = 0
  /\ cache' = {}
  /\ UNCHANGED <<commits, writer, reader, acked>>

-----------------------------------------------------------------------------
WriterStep(w) == \/ Commit(w)
                 \/ Refresh(w)
                 \/ Bump(w)
                 \/ Acknowledge(w)
                 \/ WriteAborts(w)

ReaderStep(r) == \/ Hit(r)
                 \/ Miss(r)
                 \/ QueryItems(r)
                 \/ QueryCount(r)
                 \/ Store(r)
                 \/ Deliver(r)
                 \/ ReadFails(r)

Next == \/ \E w \in Writers : BeginWrite(w) \/ WriterStep(w)
        \/ \E r \in Readers, p \in Pages : ReadVersion(r, p)
        \/ \E r \in Readers : ReaderStep(r)
        \/ \E v \in 0..MaxBumps, p \in Pages : Expire(v, p)

\* A request that has begun ends, one way or the other, and a TTL runs out.
\* Nothing makes a client send a request.
Fairness == /\ \A w \in Writers : WF_vars(WriterStep(w))
            /\ \A r \in Readers : WF_vars(ReaderStep(r))
            /\ \A v \in 0..MaxBumps, p \in Pages : WF_vars(Expire(v, p))

SafeSpec == Init /\ [][Next]_vars

Spec == SafeSpec /\ Fairness

\* The same system where Redis may restart empty.
LossyNext == Next \/ RedisRestart

LossySpec == Init /\ [][LossyNext]_vars /\ Fairness

-----------------------------------------------------------------------------
(* What is promised.                                                       *)

TypeOK ==
  /\ commits \in 0..MaxCommits
  /\ version \in 0..MaxBumps
  /\ cache \subseteq Entry
  /\ writer \in [Writers -> WriteState]
  /\ reader \in [Readers -> ReadState]
  /\ \A r \in Readers : reader[r].pc # "idle" => reader[r].page \in Pages
  /\ acked \in 0..MaxCommits

\* A listing shows every change whose writer had its reply when the listing
\* was asked for, whether it comes from Redis or from Postgres: "a write
\* instantly invalidates every previously-cached page" (jobs.py, the tests'
\* "very next request").  It rests on commit before bump before reply, and on
\* the version being read before the rows.
AckedWritesVisible ==
  \A r \in Readers :
    reader[r].pc = "respond" => /\ reader[r].floor <= reader[r].items
                                /\ reader[r].floor <= reader[r].total

\* Once every committed change has been replied to, what can still be hit is
\* exact: no page filled by a reader that raced a writer stays reachable with
\* old rows, or with a total of another moment than its items.
QuietPagesExact ==
  acked = commits =>
    \A e \in cache : e.ver = version => e.items = commits /\ e.total = commits

\* The TTL is the backstop: whatever was committed, even when its writer died
\* before the bump, is in the end shown by every listing, for good.
EventuallyVisible ==
  \A c \in 1..MaxCommits :
    commits >= c ~> [](\A r \in Readers :
                         reader[r].pc = "respond" => /\ reader[r].items >= c
                                                     /\ reader[r].total >= c)

\* A change is settled when no listing without it is left, neither in Redis
\* nor in the hands of a reader that has run its statements.
Settled(c) ==
  /\ c <= commits
  /\ \A e \in cache : c <= e.items /\ c <= e.total
  /\ \A r \in Readers :
       /\ reader[r].pc \in {"count", "store", "respond"} => c <= reader[r].items
       /\ reader[r].pc \in {"store", "respond"} => c <= reader[r].total

\* Why EventuallyVisible holds for good: what was settled once stays settled,
\* even where Redis restarts with jobs:version back at 0 and a reader stores
\* under a label that is then given out again.
SettledForGood == [][\A c \in 1..MaxCommits : Settled(c) => Settled(c)']_vars

\* The cached listing implements the register that ListingRegister promises.
RegisterRequest ==
  [r \in Readers |->
     [st |-> CASE reader[r].pc = "idle" -> "idle"
               [] reader[r].pc = "respond" -> "answered"
               [] OTHER -> "pending",
      floor |-> reader[r].floor,
      items |-> IF reader[r].pc = "respond" THEN reader[r].items ELSE 0,
      total |-> IF reader[r].pc = "respond" THEN reader[r].total ELSE 0]]

Register == INSTANCE ListingRegister WITH request <- RegisterRequest

ImplementsRegister == Register!Spec
-----------------------------------------------------------------------------
(* Why AckedWritesVisible and QuietPagesExact hold: the inductive invariant. *)

\* Nothing anybody holds is ahead of the database, no label ahead of Redis.
NothingAhead ==
  /\ acked <= commits
  /\ \A w \in Writers : writer[w].at <= commits
  /\ \A r \in Readers : reader[r].floor <= acked /\ reader[r].ver <= version
  /\ \A e \in cache : e.ver <= version

\* A listing labelled v that shows n changes is safe to keep: while v is the
\* current version it covers every reply sent or about to be sent, and it
\* covers what any reader that may still look v up has to be shown.
Fresh(v, n) ==
  /\ v = version =>
       /\ acked <= n
       /\ \A w \in Writers : writer[w].pc = "respond" => writer[w].at <= n
  /\ \A r \in Readers :
       reader[r].pc # "idle" /\ reader[r].ver = v => reader[r].floor <= n

CacheFresh ==
  \A e \in cache :
    e.items <= e.total /\ e.total <= commits /\ Fresh(e.ver, e.items)

ReadersFresh ==
  \A r \in Readers :
    /\ reader[r].pc = "count" => reader[r].items <= commits
    /\ reader[r].pc \in {"count", "store"} => Fresh(reader[r].ver, reader[r].items)
    /\ reader[r].pc = "respond" => reader[r].floor <= reader[r].items
    /\ reader[r].pc \in {"store", "respond"} =>
         reader[r].items <= reader[r].total /\ reader[r].total <= commits

\* Every listing in Redis, and every listing a reader is about to put there,
\* is as new as the version it is filed under demands: what makes the version
\* in the cache key a sound substitute for deleting keys (cache.py).
ListingInvariant == TypeOK /\ NothingAhead /\ CacheFresh /\ ReadersFresh

=============================================================================
