--------------------------- MODULE ListingRegister ---------------------------
(***************************************************************************)
(* What GET /api/v1/jobs promises its readers, with no cache, no version   *)
(* counter and no database in sight.  The job_postings table is a counter  *)
(* of committed changes; a listing is two readings of that counter, one    *)
(* for the page of items and one for the total.  A listing may be no older *)
(* than the newest change that somebody had been told of when it was       *)
(* asked for, and its total is never older than its items.                 *)
(***************************************************************************)
EXTENDS Naturals

CONSTANTS Readers,     \* clients that list open postings
          MaxCommits   \* bound: changes of job_postings that are explored

VARIABLES commits,     \* how many changes of job_postings are committed
          acked,       \* the newest of them that a writer got a reply for
          request      \* request[r]: where reader r's listing stands

vars == <<commits, acked, request>>

NoRequest == [st |-> "idle", floor |-> 0, items |-> 0, total |-> 0]

Init == /\ commits = 0
        /\ acked = 0
        /\ request = [r \in Readers |-> NoRequest]

Commit == /\ commits < MaxCommits
          /\ commits' = commits + 1
          /\ UNCHANGED <<acked, request>>

Acknowledge == /\ acked' \in (acked + 1)..commits
               /\ UNCHANGED <<commits, request>>

Ask(r) == /\ request[r].st = "idle"
          /\ request' = [request EXCEPT ![r] =
                           [NoRequest EXCEPT !.st = "pending", !.floor = acked]]
          /\ UNCHANGED <<commits, acked>>

\* The one promise: floor <= items <= total <= commits.
Answer(r) == /\ request[r].st = "pending"
             /\ \E items, total \in request[r].floor..commits :
                  /\ items <= total
                  /\ request' = [request EXCEPT ![r] =
                                  [st |-> "answered", floor |-> @.floor,
                                   items |-> items, total |-> total]]
             /\ UNCHANGED <<commits, acked>>

\* The answer is delivered, or the request fails.
Finish(r) == /\ request[r].st # "idle"
             /\ request' = [request EXCEPT ![r] = NoRequest]
             /\ UNCHANGED <<commits, acked>>

Next == \/ Commit
        \/ Acknowledge
        \/ \E r \in Readers : Ask(r) \/ Answer(r) \/ Finish(r)

Spec == Init /\ [][Next]_vars
=============================================================================
