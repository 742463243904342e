-------------------------- MODULE RateLimitProofs ---------------------------
(***************************************************************************)
(* Proofs about RateLimit: for any limit, length of a window and number of *)
(* addresses and workers, what gets through under one address within the   *)
(* length of a window, and which attempts the limit turns away.            *)
(***************************************************************************)
EXTENDS RateLimit, TLAPS

-----------------------------------------------------------------------------
(* Lemmas about the model's operators.                                     *)

\* What the header names first is an address, however the request came.
LEMMA FirstIsAddress ==
  ASSUME NEW peer \in Addresses, NEW arriving \in Arriving
  PROVE  RemoteAddress(Forwarded(peer, arriving)) \in Addresses
  <1>1. CASE arriving = <<>>
    BY <1>1 DEF RemoteAddress, Forwarded
  <1>2. ASSUME NEW a \in Addresses, arriving = <<a>>
        PROVE  RemoteAddress(Forwarded(peer, arriving)) \in Addresses
    BY <1>2 DEF RemoteAddress, Forwarded
  <1>3. QED
    BY <1>1, <1>2 DEF Arriving

\* A whole limit for each restart and one more is a number, at least a limit.
LEMMA LimitsAdd ==
  ASSUME NEW r \in Nat
  PROVE  /\ (1 + r) * Limit \in Nat
         /\ Limit <= (1 + r) * Limit
         /\ (2 + r) * Limit = (1 + r) * Limit + Limit
  <1>1. Limit \in Nat
    BY RateLimitAssumption
  <1>2. r * Limit \in Nat
    BY <1>1
  <1>3. (1 + r) * Limit = Limit + r * Limit
    BY <1>1
  <1>4. (2 + r) * Limit = Limit + Limit + r * Limit
    BY <1>1
  <1>5. QED
    BY <1>1, <1>2, <1>3, <1>4

\* One attempt more counts in every stretch of time that holds the present,
\* and in no other.
LEMMA OneMoreDuring ==
  ASSUME TypeOK, NEW h \in [Moments -> Nat], NEW from \in Moments, NEW to \in Moments
  PROVE  /\ OneMore(h) \in [Moments -> Nat]
         /\ from <= now /\ now < to =>
              During(OneMore(h), from, to) = During(h, from, to) + 1
         /\ (now < from /\ now < to) \/ (from <= now /\ to <= now) =>
              During(OneMore(h), from, to) = During(h, from, to)
  <1>1. now \in Nat /\ Moments \subseteq Nat
    BY RateLimitAssumption DEF TypeOK, Moments
  <1>2. OneMore(h) \in [Moments -> Nat]
    BY <1>1 DEF OneMore
  <1>3. /\ OneMore(h)[from] = IF now < from THEN h[from] + 1 ELSE h[from]
        /\ OneMore(h)[to] = IF now < to THEN h[to] + 1 ELSE h[to]
    BY DEF OneMore
  <1>4. /\ h[from] \in Nat /\ h[to] \in Nat
        /\ from \in Nat /\ to \in Nat /\ now \in Nat
    BY <1>1
  <1>5. ASSUME from <= now, now < to
        PROVE  During(OneMore(h), from, to) = During(h, from, to) + 1
    BY <1>3, <1>4, <1>5 DEF During
  <1>6. ASSUME (now < from /\ now < to) \/ (from <= now /\ to <= now)
        PROVE  During(OneMore(h), from, to) = During(h, from, to)
    BY <1>3, <1>4, <1>6 DEF During
  <1> QED
    BY <1>2, <1>4, <1>5, <1>6

\* What the type invariant says of the present moment and the next.
LEMMA NowIsMoment ==
  ASSUME TypeOK
  PROVE  /\ now \in Nat /\ now <= MaxNow /\ MaxNow \in Nat
         /\ now \in Moments /\ now + 1 \in Moments
         /\ restarts \in Nat
         /\ Limit \in Nat /\ Limit > 0 /\ Window \in Nat /\ Window > 0
  BY RateLimitAssumption DEF TypeOK, Moments

\* The counter an attempt leaves: it was opened now when there was none, and
\* counts one more than before in any case.
LEMMA AttemptCounter ==
  ASSUME TypeOK, CountersHonest, NEW a \in Addresses, Take(a, a)
  PROVE  /\ DOMAIN counters' = DOMAIN counters \cup {a}
         /\ counters'[a] = [value |-> CountedAs(a), expiry |-> Expiry(a)]
         /\ \A d \in DOMAIN counters : d # a => counters'[d] = counters[d]
         /\ CountedAs(a) \in Nat \ {0}
         /\ Expiry(a) \in (now + 1)..(now + Window)
         /\ a \in DOMAIN counters =>
              /\ CountedAs(a) = counters[a].value + 1
              /\ Expiry(a) = counters[a].expiry
         /\ a \notin DOMAIN counters => CountedAs(a) = 1 /\ Expiry(a) = now + Window
  <1>1. counters' = [j \in DOMAIN counters \cup {a} |->
                       IF j = a THEN [value |-> CountedAs(a), expiry |-> Expiry(a)]
                                ELSE counters[j]]
    BY DEF Take
  <1>2. a \in DOMAIN counters => /\ counters[a].value \in Nat \ {0}
                                 /\ counters[a].expiry \in (now + 1)..(now + Window)
    BY DEF TypeOK
  <1>3. /\ CountedAs(a) \in Nat \ {0}
        /\ Expiry(a) \in (now + 1)..(now + Window)
        /\ a \in DOMAIN counters =>
              /\ CountedAs(a) = counters[a].value + 1
              /\ Expiry(a) = counters[a].expiry
        /\ a \notin DOMAIN counters => CountedAs(a) = 1 /\ Expiry(a) = now + Window
    BY <1>2, NowIsMoment DEF CountedAs, Value, Expiry
  <1>4. QED
    BY <1>1, <1>3

\* The histories an attempt leaves, over any stretch of time.
LEMMA AttemptHistory ==
  ASSUME TypeOK, NEW a \in Addresses, Take(a, a)
  PROVE  /\ now' = now /\ restarts' = restarts
         /\ During(counted[a], now, now + 1) < MaxAttempts
         /\ counted' \in [Addresses -> [Moments -> Nat]]
         /\ admitted' \in [Addresses -> [Moments -> Nat]]
         /\ counted'[a] = OneMore(counted[a])
         /\ admitted'[a] = IF CountedAs(a) <= Limit THEN OneMore(admitted[a])
                                                     ELSE admitted[a]
         /\ \A d \in Addresses : d # a => /\ counted'[d] = counted[d]
                                        /\ admitted'[d] = admitted[d]
  <1>1. /\ counted \in [Addresses -> [Moments -> Nat]]
        /\ admitted \in [Addresses -> [Moments -> Nat]]
    BY DEF TypeOK
  <1>2. /\ OneMore(counted[a]) \in [Moments -> Nat]
        /\ OneMore(admitted[a]) \in [Moments -> Nat]
    BY <1>1, NowIsMoment, OneMoreDuring
  <1>3. /\ now' = now /\ restarts' = restarts
        /\ During(counted[a], now, now + 1) < MaxAttempts
        /\ counted' = [counted EXCEPT ![a] = OneMore(counted[a])]
        /\ admitted' = IF CountedAs(a) <= Limit
                         THEN [admitted EXCEPT ![a] = OneMore(admitted[a])]
                         ELSE admitted
    BY <1>1 DEF Take
  <1>4. QED
    BY <1>1, <1>2, <1>3

-----------------------------------------------------------------------------
(* An attempt.                                                             *)

LEMMA AttemptType ==
  ASSUME RateInvariant, NEW a \in Addresses, Take(a, a)
  PROVE  TypeOK'
  <1> USE NowIsMoment DEF RateInvariant
  <1>0. TypeOK /\ CountersHonest
    BY DEF RateInvariant
  <1>c. /\ DOMAIN counters' = DOMAIN counters \cup {a}
        /\ counters'[a] = [value |-> CountedAs(a), expiry |-> Expiry(a)]
        /\ \A d \in DOMAIN counters : d # a => counters'[d] = counters[d]
    BY <1>0, AttemptCounter, Zenon
  <1>d. /\ CountedAs(a) \in Nat \ {0}
        /\ Expiry(a) \in (now + 1)..(now + Window)
        /\ a \in DOMAIN counters =>
             /\ CountedAs(a) = counters[a].value + 1
             /\ Expiry(a) = counters[a].expiry
        /\ a \notin DOMAIN counters => CountedAs(a) = 1 /\ Expiry(a) = now + Window
    BY <1>0, AttemptCounter, Zenon
  <1>1. now' \in 0..MaxNow /\ restarts' \in 0..MaxRestarts
    BY AttemptHistory DEF TypeOK
  <1>2. ASSUME NEW k \in DOMAIN counters'
        PROVE  /\ counters'[k].value \in Nat \ {0}
               /\ counters'[k].expiry \in (now' + 1)..(now' + Window)
    <2>1. now' = now
      BY AttemptHistory
    <2>2. CASE k = a
      BY <2>1, <2>2, <1>c, <1>d
    <2>3. CASE k # a
      BY <1>2, <2>1, <2>3, <1>c, <1>d DEF TypeOK
    <2>4. QED
      BY <2>2, <2>3
  <1>3. ASSUME NEW d \in Addresses, NEW t \in 0..MaxNow
        PROVE  /\ During(counted'[d], t, t + 1) \in 0..MaxAttempts
               /\ During(admitted'[d], t, t + 1) \in 0..During(counted'[d], t, t + 1)
    <2>1. t \in Moments /\ t + 1 \in Moments
      BY DEF Moments
    <2>2. /\ During(counted[d], t, t + 1) \in 0..MaxAttempts
          /\ During(admitted[d], t, t + 1) \in 0..During(counted[d], t, t + 1)
      BY DEF TypeOK
    <2>3. CASE d # a
      BY <2>2, <2>3, AttemptHistory
    <2>4. CASE d = a
      <3>1. counted[a] \in [Moments -> Nat] /\ admitted[a] \in [Moments -> Nat]
        BY DEF TypeOK
      <3>2. CASE t = now
        <4>1. During(OneMore(counted[a]), t, t + 1) = During(counted[a], t, t + 1) + 1
          BY <2>1, <3>1, <3>2, OneMoreDuring
        <4>2. During(OneMore(admitted[a]), t, t + 1) = During(admitted[a], t, t + 1) + 1
          BY <2>1, <3>1, <3>2, OneMoreDuring
        <4>3. During(counted[a], t, t + 1) < MaxAttempts
          BY <3>2, AttemptHistory
        <4>4. MaxAttempts \in Nat
          BY RateLimitAssumption
        <4>5. counted'[d] = OneMore(counted[a])
          BY <2>4, AttemptHistory
        <4>6. admitted'[d] = OneMore(admitted[a]) \/ admitted'[d] = admitted[a]
          BY <2>4, AttemptHistory
        <4>7. QED
          BY <2>2, <2>4, <4>1, <4>2, <4>3, <4>4, <4>5, <4>6
      <3>3. CASE t # now
        <4>1. (now < t /\ now < t + 1) \/ (t <= now /\ t + 1 <= now)
          BY <3>3
        <4>2. During(OneMore(counted[a]), t, t + 1) = During(counted[a], t, t + 1)
          BY <2>1, <3>1, <4>1, OneMoreDuring
        <4>3. During(OneMore(admitted[a]), t, t + 1) = During(admitted[a], t, t + 1)
          BY <2>1, <3>1, <4>1, OneMoreDuring
        <4>4. counted'[d] = OneMore(counted[a])
          BY <2>4, AttemptHistory
        <4>5. admitted'[d] = OneMore(admitted[a]) \/ admitted'[d] = admitted[a]
          BY <2>4, AttemptHistory
        <4>6. QED
          BY <2>2, <2>4, <4>2, <4>3, <4>4, <4>5
      <3>4. QED
        BY <3>2, <3>3
    <2>5. QED
      BY <2>3, <2>4
  <1>4. /\ counted' \in [Addresses -> [Moments -> Nat]]
        /\ admitted' \in [Addresses -> [Moments -> Nat]]
    BY AttemptHistory
  <1>5. QED
    BY <1>1, <1>2, <1>3, <1>4 DEF TypeOK

LEMMA AttemptCountersHonest ==
  ASSUME RateInvariant, NEW a \in Addresses, Take(a, a)
  PROVE  CountersHonest'
  <1> USE NowIsMoment DEF RateInvariant
  <1>0. TypeOK /\ CountersHonest
    BY DEF RateInvariant
  <1>c. /\ DOMAIN counters' = DOMAIN counters \cup {a}
        /\ counters'[a] = [value |-> CountedAs(a), expiry |-> Expiry(a)]
        /\ \A d \in DOMAIN counters : d # a => counters'[d] = counters[d]
    BY <1>0, AttemptCounter, Zenon
  <1>d. /\ CountedAs(a) \in Nat \ {0}
        /\ Expiry(a) \in (now + 1)..(now + Window)
        /\ a \in DOMAIN counters =>
             /\ CountedAs(a) = counters[a].value + 1
             /\ Expiry(a) = counters[a].expiry
        /\ a \notin DOMAIN counters => CountedAs(a) = 1 /\ Expiry(a) = now + Window
    BY <1>0, AttemptCounter, Zenon
  <1>1. DOMAIN counters' \subseteq Addresses
    BY <1>c, <1>d DEF CountersHonest
  <1>2. now' = now
    BY AttemptHistory
  <1>3. ASSUME NEW d \in DOMAIN counters'
        PROVE  /\ counters'[d].expiry - Window \in 0..now
               /\ counters'[d].value
                    <= During(counted'[d], counters'[d].expiry - Window, now + 1)
    <2>1. CASE d # a
      <3>1. d \in DOMAIN counters /\ d \in Addresses /\ counters'[d] = counters[d]
        BY <2>1, <1>c, <1>d DEF CountersHonest
      <3>2. counted'[d] = counted[d]
        BY <2>1, <3>1, AttemptHistory
      <3>3. QED
        BY <3>1, <3>2 DEF CountersHonest, Opened
    <2>2. CASE d = a
      <3>1. counted[a] \in [Moments -> Nat]
        BY DEF TypeOK
      <3>2. counters'[d].value = CountedAs(a) /\ counters'[d].expiry = Expiry(a)
        BY <2>2, <1>c, <1>d
      <3>3. Expiry(a) - Window \in 0..now
        BY <1>c, <1>d DEF CountersHonest, Opened
      <3>4. Expiry(a) - Window \in Moments
        BY <3>3 DEF Moments
      <3>5. During(OneMore(counted[a]), Expiry(a) - Window, now + 1)
              = During(counted[a], Expiry(a) - Window, now + 1) + 1
        BY <3>1, <3>3, <3>4, OneMoreDuring
      <3>6. During(counted[a], Expiry(a) - Window, now + 1) \in Int
        BY <3>1, <3>4 DEF During
      <3>7. CASE a \in DOMAIN counters
        BY <2>2, <3>2, <3>3, <3>5, <3>6, <3>7, <1>c, <1>d, AttemptHistory
           DEF CountersHonest, Opened, TypeOK
      <3>8. CASE a \notin DOMAIN counters
        <4>1. CountedAs(a) = 1 /\ Expiry(a) = now + Window
          BY <3>8, <1>c, <1>d
        <4>2. Expiry(a) - Window = now
          BY <4>1
        <4>3. During(counted[a], now, now + 1) \in Nat
          BY DEF TypeOK
        <4>4. QED
          BY <2>2, <3>2, <3>3, <3>5, <4>1, <4>2, <4>3, AttemptHistory
      <3>9. QED
        BY <3>7, <3>8
    <2>3. QED
      BY <2>1, <2>2
  <1>4. QED
    BY <1>1, <1>2, <1>3 DEF CountersHonest, Opened

LEMMA AttemptNothingAfterNow ==
  ASSUME RateInvariant, NEW a \in Addresses, Take(a, a)
  PROVE  NothingAfterNow'
  <1> USE NowIsMoment DEF RateInvariant
  <1>1. now' = now
    BY AttemptHistory
  <1>2. ASSUME NEW d \in Addresses, NEW t \in Moments, now < t
        PROVE  /\ counted'[d][t] = counted'[d][now + 1]
               /\ admitted'[d][t] = admitted'[d][now + 1]
    <2>1. /\ counted[d][t] = counted[d][now + 1]
          /\ admitted[d][t] = admitted[d][now + 1]
      BY <1>2 DEF NothingAfterNow
    <2>2. now < now + 1
      OBVIOUS
    <2>3. CASE d # a
      BY <2>1, <2>3, AttemptHistory
    <2>4. CASE d = a
      <3>1. /\ OneMore(counted[a])[t] = OneMore(counted[a])[now + 1]
            /\ OneMore(admitted[a])[t] = OneMore(admitted[a])[now + 1]
        BY <1>2, <2>1, <2>2, <2>4 DEF OneMore
      <3>2. counted'[d] = OneMore(counted[a])
        BY <2>4, AttemptHistory
      <3>3. admitted'[d] = OneMore(admitted[a]) \/ admitted'[d] = admitted[a]
        BY <2>4, AttemptHistory
      <3>4. QED
        BY <2>1, <2>4, <3>1, <3>2, <3>3
    <2>5. QED
      BY <2>3, <2>4
  <1>3. QED
    BY <1>1, <1>2 DEF NothingAfterNow

\* The admission an attempt adds is one that the address's counter lets pass.
LEMMA AttemptWithinAllowance ==
  ASSUME RateInvariant, NEW a \in Addresses, Take(a, a)
  PROVE  WithinAllowance'
  <1> USE NowIsMoment DEF RateInvariant
  <1>0. TypeOK /\ CountersHonest
    BY DEF RateInvariant
  <1>c. /\ DOMAIN counters' = DOMAIN counters \cup {a}
        /\ counters'[a] = [value |-> CountedAs(a), expiry |-> Expiry(a)]
        /\ \A d \in DOMAIN counters : d # a => counters'[d] = counters[d]
    BY <1>0, AttemptCounter, Zenon
  <1>d. /\ CountedAs(a) \in Nat \ {0}
        /\ Expiry(a) \in (now + 1)..(now + Window)
        /\ a \in DOMAIN counters =>
             /\ CountedAs(a) = counters[a].value + 1
             /\ Expiry(a) = counters[a].expiry
        /\ a \notin DOMAIN counters => CountedAs(a) = 1 /\ Expiry(a) = now + Window
    BY <1>0, AttemptCounter, Zenon
  <1>1. now' = now /\ restarts' = restarts
    BY AttemptHistory
  <1>2. ASSUME NEW d \in Addresses, NEW from \in 0..now, now < from + Window
        PROVE  During(admitted'[d], from, now + 1) <= Allowance(d, from)'
    <2>1. During(admitted[d], from, now + 1) <= Allowance(d, from)
      BY <1>2 DEF WithinAllowance
    <2>2. CASE d # a
      <3>1. admitted'[d] = admitted[d]
        BY <2>2, AttemptHistory
      <3>2. /\ d \in DOMAIN counters' <=> d \in DOMAIN counters
            /\ d \in DOMAIN counters => counters'[d] = counters[d]
        BY <2>2, <1>c, <1>d
      <3>3. Allowance(d, from)' = Allowance(d, from)
        BY <1>1, <3>2 DEF Allowance, Opened, Passed
      <3>4. QED
        BY <2>1, <3>1, <3>3
    <2>3. CASE d = a
      <3>1. admitted[a] \in [Moments -> Nat] /\ from \in Moments
        <4>1. from \in Moments
          BY <1>2 DEF Moments
        <4>2. QED
          BY <4>1 DEF TypeOK
      <3>2. During(admitted[a], from, now + 1) \in Int
        BY <3>1 DEF During
      <3>3. During(OneMore(admitted[a]), from, now + 1)
              = During(admitted[a], from, now + 1) + 1
        BY <3>1, OneMoreDuring
      <3>4. PICK budget \in Nat : budget = (1 + restarts) * Limit
        BY LimitsAdd
      <3>5. a \in DOMAIN counters' /\ counters'[a].value = CountedAs(a)
            /\ counters'[a].expiry = Expiry(a)
        BY <1>c, <1>d
      <3>6. Allowance(a, from)' = IF Expiry(a) - Window < from
                                    THEN Passed(a)' - 1
                                    ELSE budget - 1 + Passed(a)'
        BY <1>1, <3>4, <3>5 DEF Allowance, Opened
      <3>7. Passed(a)' = IF CountedAs(a) <= Limit THEN CountedAs(a) ELSE Limit
        BY <3>5 DEF Passed
      <3>8. CASE a \in DOMAIN counters
        <4>1. CountedAs(a) = counters[a].value + 1 /\ Expiry(a) = counters[a].expiry
              /\ counters[a].value \in Nat
          BY <3>8, <1>c, <1>d DEF TypeOK
        <4>2. Allowance(a, from) = IF Expiry(a) - Window < from
                                     THEN Passed(a) - 1
                                     ELSE budget - 1 + Passed(a)
          BY <3>4, <3>8, <4>1 DEF Allowance, Opened
        <4>3. Expiry(a) - Window \in Int
          BY <1>c, <1>d
        <4>4. CASE CountedAs(a) <= Limit
          <5>1. Passed(a)' = Passed(a) + 1 /\ Passed(a) \in Nat
            BY <3>7, <4>1, <4>4 DEF Passed
          <5>2. admitted'[a] = OneMore(admitted[a])
            BY <4>4, AttemptHistory
          <5>3. QED
            BY <2>1, <2>3, <3>2, <3>3, <3>6, <4>2, <4>3, <5>1, <5>2
        <4>5. CASE ~(CountedAs(a) <= Limit)
          <5>1. Passed(a)' = Passed(a)
            BY <3>7, <4>1, <4>5 DEF Passed
          <5>2. admitted'[a] = admitted[a]
            BY <4>5, AttemptHistory
          <5>3. QED
            BY <2>1, <2>3, <3>6, <4>2, <5>1, <5>2
        <4>6. QED
          BY <4>4, <4>5
      <3>9. CASE a \notin DOMAIN counters
        <4>1. CountedAs(a) = 1 /\ Expiry(a) = now + Window
          BY <3>9, <1>c, <1>d
        <4>2. Passed(a)' = 1
          BY <3>7, <4>1
        <4>3. ~(Expiry(a) - Window < from)
          BY <4>1
        <4>4. Allowance(a, from) = budget - 1
          BY <3>4, <3>9 DEF Allowance
        <4>5. admitted'[a] = OneMore(admitted[a])
          BY <4>1, AttemptHistory
        <4>6. QED
          BY <2>1, <2>3, <3>2, <3>3, <3>6, <4>2, <4>3, <4>4, <4>5
      <3>10. QED
        BY <3>8, <3>9
    <2>4. QED
      BY <2>2, <2>3
  <1>3. QED
    BY <1>1, <1>2 DEF WithinAllowance

\* Whatever the counter lets pass stays below one limit for the window that
\* ends, one for the window that begins, and one for each restart.
AllowancesBounded ==
  \A a \in Addresses, from \in Int :
    /\ Allowance(a, from) \in Int
    /\ Allowance(a, from) < (2 + restarts) * Limit

LEMMA TypesBoundAllowances == TypeOK => AllowancesBounded
  <1> SUFFICES ASSUME TypeOK, NEW a \in Addresses, NEW from \in Int
               PROVE  /\ Allowance(a, from) \in Int
                      /\ Allowance(a, from) < (2 + restarts) * Limit
    BY DEF AllowancesBounded
  <1>1. PICK budget \in Nat : budget = (1 + restarts) * Limit
    BY NowIsMoment, LimitsAdd
  <1>2. budget + Limit = (2 + restarts) * Limit
    BY <1>1, NowIsMoment, LimitsAdd
  <1>3. CASE a \notin DOMAIN counters
    BY <1>1, <1>2, <1>3, NowIsMoment DEF Allowance
  <1>4. CASE a \in DOMAIN counters
    <2>1. Passed(a) \in Nat /\ Passed(a) <= Limit
      BY <1>4, NowIsMoment DEF Passed, TypeOK
    <2>2. Allowance(a, from) \in {Passed(a) - 1, budget - 1 + Passed(a)}
      BY <1>1, <1>4 DEF Allowance
    <2>3. QED
      BY <1>2, <2>1, <2>2, NowIsMoment
  <1>5. QED
    BY <1>3, <1>4

LEMMA AttemptSlidingBound ==
  ASSUME RateInvariant, NEW a \in Addresses, Take(a, a)
  PROVE  SlidingBound'
  <1> USE NowIsMoment DEF RateInvariant
  <1>1. now' = now /\ restarts' = restarts
    BY AttemptHistory
  <1>2. TypeOK' /\ NothingAfterNow' /\ WithinAllowance'
    BY AttemptType, AttemptNothingAfterNow, AttemptWithinAllowance
  <1>3. ASSUME NEW d \in Addresses, NEW from \in Moments, NEW to \in Moments,
               from <= to, to <= from + Window
        PROVE  During(admitted'[d], from, to) < (2 + restarts) * Limit
    <2>1. During(admitted[d], from, to) < (2 + restarts) * Limit
      BY <1>3 DEF SlidingBound
    <2>2. from \in Nat /\ to \in Nat
      BY DEF Moments
    <2>3. CASE from <= now /\ now < to
      <3>1. admitted'[d][to] = admitted'[d][now + 1]
        BY <1>1, <1>2, <2>3 DEF NothingAfterNow
      <3>2. During(admitted'[d], from, to) = During(admitted'[d], from, now + 1)
        BY <3>1 DEF During
      <3>3. from \in 0..now /\ now < from + Window
        BY <1>3, <2>2, <2>3
      <3>4. During(admitted'[d], from, now + 1) <= Allowance(d, from)'
        BY <1>1, <1>2, <3>3 DEF WithinAllowance
      <3>5. AllowancesBounded'
        BY <1>2, TypesBoundAllowances, PTL
      <3>6. Allowance(d, from)' \in Int /\ Allowance(d, from)' < (2 + restarts') * Limit
        BY <2>2, <3>5 DEF AllowancesBounded
      <3>7. admitted' \in [Addresses -> [Moments -> Nat]]
        BY <1>2 DEF TypeOK, Moments
      <3>8. During(admitted'[d], from, to) \in Int
        BY <3>7 DEF During
      <3>9. (2 + restarts) * Limit \in Int
        BY <1>1
      <3>10. QED
        BY <1>1, <3>2, <3>4, <3>6, <3>8, <3>9
    <2>4. CASE ~(from <= now /\ now < to)
      <3>1. (now < from /\ now < to) \/ (from <= now /\ to <= now)
        BY <1>3, <2>2, <2>4
      <3>2. admitted[d] \in [Moments -> Nat]
        BY DEF TypeOK
      <3>3. During(OneMore(admitted[d]), from, to) = During(admitted[d], from, to)
        BY <3>1, <3>2, OneMoreDuring
      <3>4. admitted'[d] = OneMore(admitted[d]) \/ admitted'[d] = admitted[d]
        BY AttemptHistory
      <3>5. QED
        BY <2>1, <3>3, <3>4
    <2>5. QED
      BY <2>3, <2>4
  <1>4. QED
    BY <1>1, <1>3 DEF SlidingBound, Moments

LEMMA AttemptRefusedOnlyAfterLimit ==
  ASSUME RateInvariant, NEW a \in Addresses, Take(a, a)
  PROVE  RefusedOnlyAfterLimit'
  <1> USE NowIsMoment DEF RateInvariant
  <1>1. now' = now
    BY AttemptHistory
  <1>2. CountersHonest'
    BY AttemptCountersHonest
  <1>3. ASSUME NEW d \in Addresses, NEW t \in 0..MaxNow,
               During(admitted'[d], t, t + 1) < During(counted'[d], t, t + 1)
        PROVE  \E from \in 0..t : /\ t < from + Window
                                  /\ During(counted'[d], from, t + 1) > Limit
    <2>1. t \in Moments /\ t + 1 \in Moments
      BY DEF Moments
    <2>2. /\ counted[d] \in [Moments -> Nat] /\ admitted[d] \in [Moments -> Nat]
          /\ counted' \in [Addresses -> [Moments -> Nat]]
      BY AttemptHistory DEF TypeOK
    <2>3. counted'[d] = OneMore(counted[d]) \/ counted'[d] = counted[d]
      BY AttemptHistory
    <2>4. admitted'[d] = OneMore(admitted[d]) \/ admitted'[d] = admitted[d]
      BY AttemptHistory
    <2>5. ASSUME During(admitted[d], t, t + 1) < During(counted[d], t, t + 1)
          PROVE  \E from \in 0..t : /\ t < from + Window
                                    /\ During(counted'[d], from, t + 1) > Limit
      <3>1. PICK from \in 0..t : /\ t < from + Window
                                 /\ During(counted[d], from, t + 1) > Limit
        BY <2>5 DEF RefusedOnlyAfterLimit
      <3>2. from \in Moments
        BY DEF Moments
      <3>3. During(counted'[d], from, t + 1) >= During(counted[d], from, t + 1)
        <4>1. CASE from <= now /\ now < t + 1
          BY <2>1, <2>2, <2>3, <3>2, <4>1, OneMoreDuring DEF During
        <4>2. CASE ~(from <= now /\ now < t + 1)
          <5>1. (now < from /\ now < t + 1) \/ (from <= now /\ t + 1 <= now)
            BY <4>2
          <5>2. QED
            BY <2>1, <2>2, <2>3, <3>2, <5>1, OneMoreDuring DEF During
        <4>3. QED
          BY <4>1, <4>2
      <3>4. /\ During(counted'[d], from, t + 1) \in Int
            /\ During(counted[d], from, t + 1) \in Int
        BY <2>1, <2>2, <3>2 DEF During
      <3>5. QED
        BY <3>1, <3>3, <3>4
    <2>6. ASSUME ~(During(admitted[d], t, t + 1) < During(counted[d], t, t + 1))
          PROVE  \E from \in 0..t : /\ t < from + Window
                                    /\ During(counted'[d], from, t + 1) > Limit
      <3>1. t = now
        <4> SUFFICES ASSUME t # now
                     PROVE  FALSE
          OBVIOUS
        <4>1. (now < t /\ now < t + 1) \/ (t <= now /\ t + 1 <= now)
          OBVIOUS
        <4>2. /\ During(OneMore(counted[d]), t, t + 1) = During(counted[d], t, t + 1)
              /\ During(OneMore(admitted[d]), t, t + 1) = During(admitted[d], t, t + 1)
          BY <2>1, <2>2, <4>1, OneMoreDuring
        <4>3. QED
          BY <1>3, <2>3, <2>4, <2>6, <4>2
      <3>2. d = a /\ ~(CountedAs(a) <= Limit)
        <4>1. CASE d # a
          BY <1>3, <2>6, <4>1, AttemptHistory
        <4>2. CASE d = a /\ CountedAs(a) <= Limit
          <5>1. counted'[d] = OneMore(counted[d]) /\ admitted'[d] = OneMore(admitted[d])
            BY <4>2, AttemptHistory
          <5>2. /\ During(OneMore(counted[d]), t, t + 1) = During(counted[d], t, t + 1) + 1
                /\ During(OneMore(admitted[d]), t, t + 1) = During(admitted[d], t, t + 1) + 1
            BY <2>1, <2>2, <3>1, OneMoreDuring
          <5>3. /\ During(counted[d], t, t + 1) \in Int
                /\ During(admitted[d], t, t + 1) \in Int
            BY <2>1, <2>2 DEF During
          <5>4. QED
            BY <1>3, <2>6, <5>1, <5>2, <5>3
        <4>3. QED
          BY <4>1, <4>2
      <3>3. /\ a \in DOMAIN counters'
            /\ counters'[a] = [value |-> CountedAs(a), expiry |-> Expiry(a)]
            /\ CountedAs(a) \in Nat
            /\ Expiry(a) \in (now + 1)..(now + Window)
        BY AttemptCounter
      <3>4. /\ Expiry(a) - Window \in 0..now
            /\ CountedAs(a) <= During(counted'[a], Expiry(a) - Window, now + 1)
        BY <1>1, <1>2, <3>3 DEF CountersHonest, Opened
      <3>5. now < (Expiry(a) - Window) + Window
        BY <3>3
      <3>6. Expiry(a) - Window \in Moments
        BY <3>4 DEF Moments
      <3>7. During(counted'[a], Expiry(a) - Window, now + 1) \in Int
        BY <2>2, <3>2, <3>6 DEF During
      <3>8. During(counted'[a], Expiry(a) - Window, now + 1) > Limit
        BY <3>2, <3>3, <3>4, <3>7
      <3>9. QED
        BY <3>1, <3>2, <3>4, <3>5, <3>8
    <2>7. QED
      BY <2>5, <2>6
  <1>4. QED
    BY <1>3 DEF RefusedOnlyAfterLimit

LEMMA AttemptKeepsInvariant ==
  ASSUME RateInvariant, NEW a \in Addresses, Take(a, a)
  PROVE  RateInvariant'
  BY AttemptType, AttemptCountersHonest, AttemptNothingAfterNow,
     AttemptWithinAllowance, AttemptSlidingBound, AttemptRefusedOnlyAfterLimit
     DEF RateInvariant

-----------------------------------------------------------------------------
(* A restart of Redis.                                                     *)

LEMMA RestartKeepsInvariant ==
  ASSUME RateInvariant, Restart
  PROVE  RateInvariant'
  <1> USE NowIsMoment DEF RateInvariant
  <1>1. /\ now' = now /\ counted' = counted /\ admitted' = admitted
        /\ restarts' = restarts + 1 /\ restarts' \in 0..MaxRestarts
    BY RateLimitAssumption DEF Restart, TypeOK
  <1>2. /\ DOMAIN counters' \subseteq DOMAIN counters
        /\ \A k \in DOMAIN counters' : counters'[k] = counters[k]
    BY DEF Restart
  <1>3. PICK budget \in Nat : budget = (1 + restarts) * Limit
    BY LimitsAdd
  <1>4. /\ (1 + restarts') * Limit = budget + Limit
        /\ (2 + restarts) * Limit = budget + Limit
        /\ (2 + restarts') * Limit = budget + Limit + Limit
    BY <1>1, <1>3, LimitsAdd
  <1>5. TypeOK'
    BY <1>1, <1>2 DEF TypeOK, Moments
  <1>6. CountersHonest'
    BY <1>1, <1>2 DEF CountersHonest, Opened
  <1>7. NothingAfterNow'
    BY <1>1 DEF NothingAfterNow, Moments
  <1>8. WithinAllowance'
    <2>1. ASSUME NEW a \in Addresses, NEW from \in 0..now, now < from + Window
          PROVE  During(admitted[a], from, now + 1) <= Allowance(a, from)'
      <3>1. During(admitted[a], from, now + 1) <= Allowance(a, from)
        BY <2>1 DEF WithinAllowance
      <3>2. During(admitted[a], from, now + 1) \in Int
        <4>1. from \in Moments
          BY DEF Moments
        <4>2. admitted[a][from] \in Nat /\ admitted[a][now + 1] \in Nat
          BY <4>1 DEF TypeOK
        <4>3. QED
          BY <4>2 DEF During
      <3>3. a \in DOMAIN counters => Passed(a) \in Nat /\ Passed(a) <= Limit
        BY DEF Passed, TypeOK
      <3>4. CASE a \notin DOMAIN counters'
        <4>1. Allowance(a, from)' = budget + Limit - 1
          BY <1>4, <3>4 DEF Allowance
        <4>2. CASE a \notin DOMAIN counters
          BY <1>3, <3>1, <3>2, <4>1, <4>2 DEF Allowance
        <4>3. CASE a \in DOMAIN counters
          <5>1. Allowance(a, from) \in {Passed(a) - 1, budget - 1 + Passed(a)}
            BY <1>3, <4>3 DEF Allowance
          <5>2. QED
            BY <3>1, <3>2, <3>3, <4>1, <4>3, <5>1
        <4>4. QED
          BY <4>2, <4>3
      <3>5. CASE a \in DOMAIN counters'
        <4>1. a \in DOMAIN counters /\ counters'[a] = counters[a]
          BY <1>2, <3>5
        <4>2. Passed(a)' = Passed(a) /\ Opened(a)' = Opened(a)
          BY <4>1 DEF Passed, Opened
        <4>3. Allowance(a, from)' = IF Opened(a) < from
                                      THEN Passed(a) - 1
                                      ELSE budget + Limit - 1 + Passed(a)
          BY <1>4, <3>5, <4>2 DEF Allowance
        <4>4. Allowance(a, from) = IF Opened(a) < from
                                     THEN Passed(a) - 1
                                     ELSE budget - 1 + Passed(a)
          BY <1>3, <4>1 DEF Allowance
        <4>5. QED
          BY <3>1, <3>2, <3>3, <4>1, <4>3, <4>4
      <3>6. QED
        BY <3>4, <3>5
    <2>2. QED
      BY <1>1, <2>1 DEF WithinAllowance
  <1>9. SlidingBound'
    <2>1. ASSUME NEW a \in Addresses, NEW from \in Moments, NEW to \in Moments,
                 from <= to, to <= from + Window
          PROVE  During(admitted[a], from, to) < (2 + restarts') * Limit
      <3>1. During(admitted[a], from, to) < (2 + restarts) * Limit
        BY <2>1 DEF SlidingBound
      <3>2. During(admitted[a], from, to) \in Int
        BY DEF During, TypeOK
      <3>3. QED
        BY <1>4, <3>1, <3>2
    <2>2. QED
      BY <1>1, <2>1 DEF SlidingBound, Moments
  <1>10. RefusedOnlyAfterLimit'
    BY <1>1 DEF RefusedOnlyAfterLimit
  <1>11. QED
    BY <1>5, <1>6, <1>7, <1>8, <1>9, <1>10

-----------------------------------------------------------------------------
(* The clock.                                                              *)

LEMMA TickKeepsInvariant ==
  ASSUME RateInvariant, Tick
  PROVE  RateInvariant'
  <1> USE NowIsMoment DEF RateInvariant
  <1>1. /\ now' = now + 1 /\ now' \in 0..MaxNow
        /\ restarts' = restarts /\ counted' = counted /\ admitted' = admitted
    BY DEF Tick
  <1>2. /\ DOMAIN counters' = {k \in DOMAIN counters : now' < counters[k].expiry}
        /\ \A k \in DOMAIN counters' : counters'[k] = counters[k]
    BY DEF Tick
  <1>3. PICK budget \in Nat : budget = (1 + restarts) * Limit /\ Limit <= budget
    BY LimitsAdd
  <1>4. now' \in Moments /\ now' + 1 \in Moments
    BY <1>1 DEF Moments
  <1>5. TypeOK'
    <2>1. ASSUME NEW k \in DOMAIN counters'
          PROVE  /\ counters'[k].value \in Nat \ {0}
                 /\ counters'[k].expiry \in (now' + 1)..(now' + Window)
      BY <1>1, <1>2 DEF TypeOK
    <2>2. QED
      BY <1>1, <2>1 DEF TypeOK, Moments
  <1>6. \A a \in Addresses : /\ counted[a][now' + 1] = counted[a][now + 1]
                           /\ admitted[a][now' + 1] = admitted[a][now + 1]
    BY <1>1, <1>4 DEF NothingAfterNow
  <1>7. CountersHonest'
    <2>1. DOMAIN counters' \subseteq Addresses
      BY <1>2 DEF CountersHonest
    <2>2. ASSUME NEW a \in DOMAIN counters'
          PROVE  /\ Opened(a)' \in 0..now'
                 /\ counters'[a].value <= During(counted[a], Opened(a)', now' + 1)
      <3>1. a \in DOMAIN counters /\ counters'[a] = counters[a] /\ a \in Addresses
        BY <1>2 DEF CountersHonest
      <3>2. Opened(a)' = Opened(a)
        BY <3>1 DEF Opened
      <3>3. During(counted[a], Opened(a), now' + 1) = During(counted[a], Opened(a), now + 1)
        BY <1>6, <3>1 DEF During
      <3>4. QED
        BY <1>1, <3>1, <3>2, <3>3 DEF CountersHonest
    <2>3. QED
      BY <1>1, <2>1, <2>2 DEF CountersHonest
  <1>8. NothingAfterNow'
    <2>1. ASSUME NEW a \in Addresses, NEW t \in Moments, now' < t
          PROVE  /\ counted[a][t] = counted[a][now' + 1]
                 /\ admitted[a][t] = admitted[a][now' + 1]
      <3>1. now < t
        BY <1>1, <2>1 DEF Moments
      <3>2. QED
        BY <1>6, <3>1 DEF NothingAfterNow
    <2>2. QED
      BY <1>1, <2>1 DEF NothingAfterNow, Moments
  <1>9. WithinAllowance'
    <2>1. ASSUME NEW a \in Addresses, NEW from \in 0..now', now' < from + Window
          PROVE  During(admitted[a], from, now' + 1) <= Allowance(a, from)'
      <3>1. a \in DOMAIN counters =>
              /\ Passed(a) \in Nat /\ 1 <= Passed(a) /\ Passed(a) <= Limit
              /\ Opened(a) \in 0..now /\ Opened(a) + Window = counters[a].expiry
        BY DEF Passed, Opened, TypeOK, CountersHonest
      <3>2. a \in DOMAIN counters' =>
              /\ a \in DOMAIN counters
              /\ Passed(a)' = Passed(a) /\ Opened(a)' = Opened(a)
        BY <1>2 DEF Passed, Opened
      <3>3. Allowance(a, from)' =
              IF a \notin DOMAIN counters' THEN budget - 1
              ELSE IF Opened(a) < from THEN Passed(a) - 1
              ELSE budget - 1 + Passed(a)
        BY <1>1, <1>3, <3>2 DEF Allowance
      <3>4. CASE from = now'
        <4>1. During(admitted[a], from, now' + 1) = 0
          BY <1>1, <1>6, <3>4 DEF During, TypeOK
        <4>2. QED
          BY <1>1, <1>3, <3>1, <3>2, <3>3, <4>1
      <3>5. CASE from # now'
        <4>1. from \in 0..now /\ now < from + Window
          BY <1>1, <2>1, <3>5
        <4>2. During(admitted[a], from, now' + 1) = During(admitted[a], from, now + 1)
          BY <1>6 DEF During
        <4>3. During(admitted[a], from, now + 1) <= Allowance(a, from)
          BY <4>1 DEF WithinAllowance
        <4>4. During(admitted[a], from, now + 1) \in Int
          <5>1. from \in Moments
            BY <4>1 DEF Moments
          <5>2. admitted[a][from] \in Nat /\ admitted[a][now + 1] \in Nat
            BY <5>1 DEF TypeOK
          <5>3. QED
            BY <5>2 DEF During
        <4>5. Allowance(a, from) =
                IF a \notin DOMAIN counters THEN budget - 1
                ELSE IF Opened(a) < from THEN Passed(a) - 1
                ELSE budget - 1 + Passed(a)
          BY <1>3 DEF Allowance
        <4>6. CASE a \in DOMAIN counters \/ a \in DOMAIN counters'
          <5>1. CASE a \in DOMAIN counters'
            BY <3>2, <3>3, <4>2, <4>3, <4>5, <5>1
          <5>2. CASE a \notin DOMAIN counters'
            <6>1. a \in DOMAIN counters /\ ~(now' < counters[a].expiry)
              BY <1>2, <4>6, <5>2
            <6>2. Opened(a) < from
              BY <1>1, <2>1, <3>1, <6>1 DEF TypeOK
            <6>3. QED
              BY <1>3, <3>1, <3>3, <4>2, <4>3, <4>4, <4>5, <5>2, <6>1, <6>2
          <5>3. QED
            BY <5>1, <5>2
        <4>7. CASE a \notin DOMAIN counters /\ a \notin DOMAIN counters'
          BY <3>3, <4>2, <4>3, <4>5, <4>7
        <4>8. QED
          BY <4>6, <4>7
      <3>6. QED
        BY <3>4, <3>5
    <2>2. QED
      BY <1>1, <2>1 DEF WithinAllowance
  <1>10. SlidingBound'
    BY <1>1 DEF SlidingBound, Moments
  <1>11. RefusedOnlyAfterLimit'
    BY <1>1 DEF RefusedOnlyAfterLimit
  <1>12. QED
    BY <1>5, <1>7, <1>8, <1>9, <1>10, <1>11

-----------------------------------------------------------------------------
(* The invariant, and what it is for.                                      *)

LEMMA InitRateInvariant == Init => RateInvariant
  <1> SUFFICES ASSUME Init
               PROVE  RateInvariant
    OBVIOUS
  <1>1. /\ now = 0 /\ restarts = 0 /\ counters = <<>>
        /\ counted = [a \in Addresses |-> [t \in Moments |-> 0]]
        /\ admitted = [a \in Addresses |-> [t \in Moments |-> 0]]
    BY DEF Init
  <1>2. DOMAIN counters = {}
    BY <1>1
  <1>3. \A a \in Addresses : \A t \in Moments : counted[a][t] = 0 /\ admitted[a][t] = 0
    BY <1>1
  <1>4. \A t \in 0..MaxNow : t \in Moments /\ t + 1 \in Moments
    BY RateLimitAssumption DEF Moments
  <1>5. \A a \in Addresses : \A from, to \in Moments :
          /\ During(counted[a], from, to) = 0
          /\ During(admitted[a], from, to) = 0
    BY <1>3 DEF During
  <1>6. TypeOK
    <2>1. now \in 0..MaxNow /\ restarts \in 0..MaxRestarts
      BY <1>1, RateLimitAssumption
    <2>2. /\ counted \in [Addresses -> [Moments -> Nat]]
          /\ admitted \in [Addresses -> [Moments -> Nat]]
      BY <1>1
    <2>3. \A a \in Addresses, t \in 0..MaxNow :
            /\ During(counted[a], t, t + 1) \in 0..MaxAttempts
            /\ During(admitted[a], t, t + 1) \in 0..During(counted[a], t, t + 1)
      BY <1>4, <1>5, RateLimitAssumption
    <2>4. QED
      BY <1>2, <2>1, <2>2, <2>3 DEF TypeOK
  <1> USE NowIsMoment
  <1>7. CountersHonest
    BY <1>2 DEF CountersHonest
  <1>8. NothingAfterNow
    BY <1>3, <1>6 DEF NothingAfterNow
  <1>9. PICK budget \in Nat : budget = (1 + restarts) * Limit /\ Limit <= budget
    BY <1>6, LimitsAdd
  <1>10. WithinAllowance
    <2>1. ASSUME NEW a \in Addresses, NEW from \in 0..now
          PROVE  During(admitted[a], from, now + 1) <= Allowance(a, from)
      <3>1. During(admitted[a], from, now + 1) = 0
        BY <1>4, <1>5, <1>6
      <3>2. Allowance(a, from) = budget - 1
        BY <1>2, <1>9 DEF Allowance
      <3>3. QED
        BY <1>6, <1>9, <3>1, <3>2
    <2>2. QED
      BY <2>1 DEF WithinAllowance
  <1>11. SlidingBound
    <2>1. (2 + restarts) * Limit > 0
      BY <1>1, <1>6
    <2>2. QED
      BY <1>5, <2>1 DEF SlidingBound
  <1>12. RefusedOnlyAfterLimit
    BY <1>4, <1>5 DEF RefusedOnlyAfterLimit
  <1>13. QED
    BY <1>6, <1>7, <1>8, <1>10, <1>11, <1>12 DEF RateInvariant

LEMMA NextRateInvariant == RateInvariant /\ [Next]_vars => RateInvariant'
  <1> SUFFICES ASSUME RateInvariant, [Next]_vars
               PROVE  RateInvariant'
    OBVIOUS
  <1>1. ASSUME NEW w \in Workers, NEW peer \in Addresses, NEW arriving \in Arriving,
               Attempt(w, Forwarded(peer, arriving))
        PROVE  RateInvariant'
    <2> DEFINE header == Forwarded(peer, arriving)
    <2>1. Take(RemoteAddress(header), RemoteAddress(header))
      BY <1>1 DEF Attempt, Key
    <2>2. RemoteAddress(header) \in Addresses
      BY FirstIsAddress
    <2>3. QED
      BY <2>1, <2>2, AttemptKeepsInvariant
  <1>2. CASE Restart
    BY <1>2, RestartKeepsInvariant
  <1>3. CASE Tick
    BY <1>3, TickKeepsInvariant
  <1>4. CASE UNCHANGED vars
    BY <1>4 DEF vars, RateInvariant, TypeOK, CountersHonest, NothingAfterNow,
                WithinAllowance, SlidingBound, RefusedOnlyAfterLimit, Opened,
                Passed, Allowance, During, Moments
  <1>5. QED
    BY <1>1, <1>2, <1>3, <1>4 DEF Next

LEMMA RateInvariantHolds == Spec => []RateInvariant
  BY InitRateInvariant, NextRateInvariant, PTL DEF Spec

\* The counters of the limiter have a value and an expiry within one window,
\* and no tick admits more attempts than were made (Limiter in rate_limit.py).
THEOREM TypeCorrect == Spec => []TypeOK
  <1>1. RateInvariant => TypeOK
    BY DEF RateInvariant
  <1>2. QED
    BY <1>1, RateInvariantHolds, PTL

\* For any limit, length of a window, number of workers and pattern of
\* attempts: what reaches the endpoint under one address within one window's
\* length is less than two limits, and one more for each restart of Redis.
THEOREM AdmissionsBounded == Spec => []SlidingBound
  <1>1. RateInvariant => SlidingBound
    BY DEF RateInvariant
  <1>2. QED
    BY <1>1, RateInvariantHolds, PTL

\* A refusal always has more than a limit of attempts under its address, made
\* within one window's length, behind it.
THEOREM RefusalsDeserved == Spec => []RefusedOnlyAfterLimit
  <1>1. RateInvariant => RefusedOnlyAfterLimit
    BY DEF RateInvariant
  <1>2. QED
    BY <1>1, RateInvariantHolds, PTL
=============================================================================
