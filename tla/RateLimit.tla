----------------------------- MODULE RateLimit ------------------------------
(***************************************************************************)
(* The limit of a route per address (app/core/rate_limit.py and the        *)
(* decorators in app/api/v1/routes/auth.py): all workers count the         *)
(* attempts that come under an address in one Redis counter.  A script     *)
(* increments it and, when it made it, lets it expire; the worker compares *)
(* what it was told with the limit before it calls the endpoint.  So a     *)
(* window starts with an attempt and not with a minute of the clock.       *)
(*                                                                         *)
(* An attempt comes under the first address of X-Forwarded-For, to which   *)
(* nginx adds the one that connected to it: under that one only when the   *)
(* request arrived without the header.                                     *)
(***************************************************************************)
EXTENDS Integers, Sequences

CONSTANTS Addresses,
          Workers,      \* the processes behind nginx
          Limit,        \* 5 for login, 10 for registration
          Window,       \* a minute, in ticks
          MaxNow,       \* bound of the clock
          MaxAttempts,  \* bound of an address's attempts in one tick
          MaxRestarts   \* bound of Redis restarts

ASSUME RateLimitAssumption ==
  /\ Limit \in Nat \ {0} /\ Window \in Nat \ {0}
  /\ MaxNow \in Nat /\ MaxAttempts \in Nat /\ MaxRestarts \in Nat

VARIABLES now,
          counters,     \* Redis: value and expiry of each key that is there
          restarts,     \* how often Redis came back without some of them
          counted,      \* history: counted[a][t], attempts under a before time t
          admitted      \* history: those of them that reached the endpoint

vars == <<now, counters, restarts, counted, admitted>>

\* The times between which attempts are counted.
Moments == 0..(MaxNow + 1)

\* An address's history with one more attempt at the present time.
OneMore(history) ==
  [t \in Moments |-> IF now < t THEN history[t] + 1 ELSE history[t]]

\* How many attempts a history has from one time until just before another.
During(history, from, to) == history[to] - history[from]

Init ==
  /\ now = 0
  /\ counters = <<>> /\ restarts = 0
  /\ counted = [a \in Addresses |-> [t \in Moments |-> 0]]
  /\ admitted = counted

\* The header a request arrives with: none, or from a proxy before nginx.
Arriving == {<<>>} \cup {<<a>> : a \in Addresses}

\* $proxy_add_x_forwarded_for: the address that connected comes last.
Forwarded(peer, arriving) == Append(arriving, peer)

\* --proxy-headers with every proxy trusted: the first address is the client.
RemoteAddress(header) == header[1]

\* Mutant: counters in the memory of each worker.
KeyOfWorker(w, header) == <<w, RemoteAddress(header)>>

\* Mutant: without --proxy-headers every request is from nginx.
KeyOfProxy(w, header) == "nginx"

\* get_remote_address.
Key(w, header) == RemoteAddress(header)

Value(k) == IF k \in DOMAIN counters THEN counters[k].value ELSE 0

\* Mutant: every attempt sets the expiry again.
ExpiryOfEach(k) == now + Window

\* Only the attempt that makes the counter sets it.
Expiry(k) == IF k \in DOMAIN counters THEN counters[k].expiry ELSE now + Window

\* Mutant: an attempt over the limit makes the counter anew.
CountedOrReset(k) == (Value(k) % (Limit + 1)) + 1

CountedAs(k) == Value(k) + 1

\* An attempt under address a takes its turn in counter k: the script is
\* atomic, and the comparison looks at nothing but its answer.  Over the limit
\* RateLimitExceeded is raised.
Take(k, a) ==
  /\ During(counted[a], now, now + 1) < MaxAttempts
  /\ counters' = [j \in DOMAIN counters \cup {k} |->
                    IF j = k THEN [value |-> CountedAs(k), expiry |-> Expiry(k)]
                             ELSE counters[j]]
  /\ counted' = [counted EXCEPT ![a] = OneMore(@)]
  /\ admitted' = IF CountedAs(k) <= Limit THEN [admitted EXCEPT ![a] = OneMore(@)]
                                          ELSE admitted
  /\ UNCHANGED <<now, restarts>>

\* A worker takes a request with this header.
Attempt(w, header) == Take(Key(w, header), RemoteAddress(header))

\* Redis comes back without the counters: all of them where nothing is saved
\* (docker-compose.yml), in production those of the last second.
Restart ==
  /\ restarts < MaxRestarts
  /\ restarts' = restarts + 1
  /\ \E kept \in SUBSET DOMAIN counters : counters' = [k \in kept |-> counters[k]]
  /\ UNCHANGED <<now, counted, admitted>>

\* Mutant: counters that were made without an expiry.
TickWithoutExpiry ==
  /\ now < MaxNow
  /\ now' = now + 1
  /\ UNCHANGED <<counters, restarts, counted, admitted>>

\* Counters whose time has come are gone.
Tick ==
  /\ now < MaxNow
  /\ now' = now + 1
  /\ LET left == {k \in DOMAIN counters : now' < counters[k].expiry} IN
       counters' = [k \in left |-> counters[k]]
  /\ UNCHANGED <<restarts, counted, admitted>>

Next ==
  \/ \E w \in Workers, peer \in Addresses, arriving \in Arriving :
       Attempt(w, Forwarded(peer, arriving))
  \/ Restart
  \/ Tick

Spec == Init /\ [][Next]_vars

-----------------------------------------------------------------------------
(* What is promised.                                                       *)

TypeOK ==
  /\ now \in 0..MaxNow /\ restarts \in 0..MaxRestarts
  /\ \A k \in DOMAIN counters : /\ counters[k].value \in Nat \ {0}
                                /\ counters[k].expiry \in (now + 1)..(now + Window)
  /\ counted \in [Addresses -> [Moments -> Nat]]
  /\ admitted \in [Addresses -> [Moments -> Nat]]
  /\ \A a \in Addresses, t \in 0..MaxNow :
       /\ During(counted[a], t, t + 1) \in 0..MaxAttempts
       /\ During(admitted[a], t, t + 1) \in 0..During(counted[a], t, t + 1)

\* However the attempts under an address fall around the end of a window, and
\* whichever workers take them, less than twice the limit reaches the
\* endpoint within the length of one window; a Redis restart adds one limit.
\* The bound is one of addresses as they are forwarded, not of connections.
SlidingBound ==
  \A a \in Addresses : \A from, to \in Moments :
    from <= to /\ to <= from + Window =>
      During(admitted[a], from, to) < (2 + restarts) * Limit

\* An attempt is told to slow down only when more attempts than the limit came
\* under its address within a window's length: not for those under other
\* addresses, as when all were nginx's, and not for ever when it is repeated.
RefusedOnlyAfterLimit ==
  \A a \in Addresses, t \in 0..MaxNow :
    During(admitted[a], t, t + 1) < During(counted[a], t, t + 1) =>
      \E from \in 0..t : /\ t < from + Window
                         /\ During(counted[a], from, t + 1) > Limit

-----------------------------------------------------------------------------
(* Why they hold: the inductive invariant.                                 *)

\* The attempt that made a counter was at this time.
Opened(a) == counters[a].expiry - Window

\* So many of the attempts a counter counted reached the endpoint.
Passed(a) == IF counters[a].value <= Limit THEN counters[a].value ELSE Limit

\* A counter is no older than a window and counts only what came under its
\* address since it was made.
CountersHonest ==
  /\ DOMAIN counters \subseteq Addresses
  /\ \A a \in DOMAIN counters :
       /\ Opened(a) \in 0..now
       /\ counters[a].value <= During(counted[a], Opened(a), now + 1)

\* Nothing has happened after the present time.
NothingAfterNow ==
  \A a \in Addresses : \A t \in Moments :
    now < t => /\ counted[a][t] = counted[a][now + 1]
               /\ admitted[a][t] = admitted[a][now + 1]

\* What a can have had admitted since a time within the current window: only
\* what its counter counted, less the attempt that made it, where the counter
\* is older; otherwise the rest of an expired window, a whole limit for each
\* restart, and what the counter of now let pass.
Allowance(a, from) ==
  IF a \notin DOMAIN counters THEN (1 + restarts) * Limit - 1
  ELSE IF Opened(a) < from THEN Passed(a) - 1
  ELSE (1 + restarts) * Limit - 1 + Passed(a)

WithinAllowance ==
  \A a \in Addresses, from \in 0..now :
    now < from + Window =>
      During(admitted[a], from, now + 1) <= Allowance(a, from)

RateInvariant == /\ TypeOK /\ CountersHonest /\ NothingAfterNow
                 /\ WithinAllowance /\ SlidingBound /\ RefusedOnlyAfterLimit
=============================================================================
