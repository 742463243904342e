-------------------------- MODULE JobListingProofs --------------------------
(***************************************************************************)
(* Proofs about JobListing, for every set of writers, readers and pages    *)
(* and every bound: the invariants its runs check on small instances, and  *)
(* that it implements ListingRegister.                                     *)
(***************************************************************************)
EXTENDS JobListing, TLAPS

LEMMA TypeCorrectInit == Init => TypeOK
<1> SUFFICES ASSUME Init
             PROVE  TypeOK
  OBVIOUS
<1>1. NoWrite \in WriteState
  BY ListingAssumption DEF NoWrite, WriteState
<1>2. IdleReader \in ReadState
  BY ListingAssumption DEF IdleReader, ReadState
<1>3. \A r \in Readers : reader[r].pc = "idle"
  BY DEF Init, IdleReader
<1> QED BY <1>1, <1>2, <1>3, ListingAssumption DEF Init, TypeOK

\* A reader's call that leaves everything else as it is.
LEMMA ReaderCallTyped ==
  ASSUME TypeOK, NEW r \in Readers, NEW q \in ReadState, q.page \in Pages,
         reader' = [reader EXCEPT ![r] = q],
         UNCHANGED <<commits, version, cache, writer, acked>>
  PROVE  TypeOK'
<1>1. reader' \in [Readers -> ReadState]
  BY DEF TypeOK
<1>2. \A p \in Readers : reader'[p].pc # "idle" => reader'[p].page \in Pages
  BY DEF TypeOK
<1> QED BY <1>1, <1>2 DEF TypeOK

LEMMA TypeCorrectNext == TypeOK /\ [Next]_vars => TypeOK'
<1> SUFFICES ASSUME TypeOK, [Next]_vars
             PROVE  TypeOK'
  OBVIOUS
<1> USE ListingAssumption DEF TypeOK, WriteState, ReadState
<1>1. ASSUME NEW w \in Writers, BeginWrite(w)
      PROVE  TypeOK'
  BY <1>1 DEF BeginWrite
<1>2. ASSUME NEW w \in Writers, Commit(w)
      PROVE  TypeOK'
  <2>1. commits' \in 0..MaxCommits
    BY <1>2 DEF Commit
  <2>2. PICK next \in {"refresh", "bump"} :
          writer' = [writer EXCEPT ![w] = [pc |-> next, at |-> commits']]
    BY <1>2 DEF Commit
  <2> QED BY <1>2, <2>1, <2>2 DEF Commit
<1>3. ASSUME NEW w \in Writers, Refresh(w)
      PROVE  TypeOK'
  BY <1>3 DEF Refresh
<1>4. ASSUME NEW w \in Writers, Bump(w)
      PROVE  TypeOK'
  BY <1>4 DEF Bump
<1>5. ASSUME NEW w \in Writers, Acknowledge(w)
      PROVE  TypeOK'
  BY <1>5 DEF Acknowledge, NoWrite
<1>6. ASSUME NEW w \in Writers, WriteAborts(w)
      PROVE  TypeOK'
  BY <1>6 DEF WriteAborts, NoWrite
<1>7. ASSUME NEW r \in Readers, NEW p \in Pages, ReadVersion(r, p)
      PROVE  TypeOK'
  <2> DEFINE q == [pc |-> "lookup", ver |-> version, page |-> p,
                   items |-> 0, total |-> 0, floor |-> acked]
  <2>1. q \in ReadState
    BY ListingAssumption
  <2>2. q.page \in Pages
    OBVIOUS
  <2>3. reader' = [reader EXCEPT ![r] = q]
    BY <1>7 DEF ReadVersion
  <2> HIDE DEF q
  <2> QED BY <1>7, <2>1, <2>2, <2>3 DEF ReadVersion
<1>8. ASSUME NEW r \in Readers, Hit(r)
      PROVE  TypeOK'
  <2>1. PICK e \in CachedFor(r) :
          reader' = [reader EXCEPT ![r] = [reader[r] EXCEPT !.pc = "respond",
                                             !.items = e.items,
                                             !.total = e.total]]
    BY <1>8 DEF Hit
  <2>2. e \in Entry
    BY DEF CachedFor
  <2> DEFINE q == [reader[r] EXCEPT !.pc = "respond", !.items = e.items,
                                    !.total = e.total]
  <2>3. reader[r] \in ReadState /\ reader[r].page \in Pages
    BY <1>8 DEF Hit
  <2>4. e.items \in 0..MaxCommits /\ e.total \in 0..MaxCommits
    BY <2>2 DEF Entry
  <2>5. q \in ReadState
    BY <2>3, <2>4
  <2>6. q.page \in Pages
    BY <2>3
  <2>7. reader' = [reader EXCEPT ![r] = q]
    BY <2>1
  <2> HIDE DEF q
  <2> QED BY <1>8, <2>5, <2>6, <2>7 DEF Hit
<1>9. ASSUME NEW r \in Readers, Miss(r)
      PROVE  TypeOK'
  <2> DEFINE q == [reader[r] EXCEPT !.pc = "items"]
  <2>1. reader[r] \in ReadState /\ reader[r].page \in Pages
    BY <1>9 DEF Miss
  <2>2. q \in ReadState /\ q.page \in Pages
    BY <2>1
  <2>3. /\ reader' = [reader EXCEPT ![r] = q]
        /\ UNCHANGED <<commits, version, cache, writer, acked>>
    BY <1>9 DEF Miss
  <2> HIDE DEF q
  <2> QED BY <2>2, <2>3, ReaderCallTyped
<1>10. ASSUME NEW r \in Readers, QueryItems(r)
       PROVE  TypeOK'
  <2> DEFINE q == [reader[r] EXCEPT !.pc = "count", !.items = commits]
  <2>1. reader[r] \in ReadState /\ reader[r].page \in Pages
    BY <1>10 DEF QueryItems
  <2>2. q \in ReadState /\ q.page \in Pages
    BY <2>1
  <2>3. /\ reader' = [reader EXCEPT ![r] = q]
        /\ UNCHANGED <<commits, version, cache, writer, acked>>
    BY <1>10 DEF QueryItems
  <2> HIDE DEF q
  <2> QED BY <2>2, <2>3, ReaderCallTyped
<1>11. ASSUME NEW r \in Readers, QueryCount(r)
       PROVE  TypeOK'
  <2> DEFINE q == [reader[r] EXCEPT !.pc = "store", !.total = commits]
  <2>1. reader[r] \in ReadState /\ reader[r].page \in Pages
    BY <1>11 DEF QueryCount
  <2>2. q \in ReadState /\ q.page \in Pages
    BY <2>1
  <2>3. /\ reader' = [reader EXCEPT ![r] = q]
        /\ UNCHANGED <<commits, version, cache, writer, acked>>
    BY <1>11 DEF QueryCount
  <2> HIDE DEF q
  <2> QED BY <2>2, <2>3, ReaderCallTyped
<1>12. ASSUME NEW r \in Readers, Store(r)
       PROVE  TypeOK'
  BY <1>12 DEF Store, CachedFor, Entry
<1>13. ASSUME NEW r \in Readers, Deliver(r)
       PROVE  TypeOK'
  BY <1>13 DEF Deliver, IdleReader
<1>14. ASSUME NEW r \in Readers, ReadFails(r)
       PROVE  TypeOK'
  BY <1>14 DEF ReadFails, IdleReader
<1>15. ASSUME NEW v \in 0..MaxBumps, NEW p \in Pages, Expire(v, p)
       PROVE  TypeOK'
  BY <1>15 DEF Expire
<1>16. ASSUME UNCHANGED vars
       PROVE  TypeOK'
  BY <1>16 DEF vars
<1> QED
  BY <1>1, <1>2, <1>3, <1>4, <1>5, <1>6, <1>7, <1>8, <1>9, <1>10, <1>11,
     <1>12, <1>13, <1>14, <1>15, <1>16 DEF Next, WriterStep, ReaderStep

\* Every variable of JobListing keeps the type TypeOK gives it, whatever the
\* order of the requests' calls to Postgres and Redis.
THEOREM TypeCorrect == SafeSpec => []TypeOK
BY TypeCorrectInit, TypeCorrectNext, PTL DEF SafeSpec

\* A reader's call changes neither what writers and Redis's counter hold nor
\* another reader, and a request keeps the version it read at its start.
LEMMA ReaderStepIsLocal ==
  ASSUME TypeOK, NEW r \in Readers, ReaderStep(r)
  PROVE  /\ UNCHANGED <<version, acked, writer>>
         /\ reader'[r].pc # "idle" => /\ reader[r].pc # "idle"
                                      /\ reader'[r].ver = reader[r].ver
                                      /\ reader'[r].floor = reader[r].floor
         /\ \A q \in Readers : q # r => reader'[q] = reader[q]
<1> USE DEF TypeOK, ReadState
<1> DEFINE Frame == /\ UNCHANGED <<version, acked, writer>>
                    /\ reader'[r].pc # "idle" =>
                         /\ reader[r].pc # "idle"
                         /\ reader'[r].ver = reader[r].ver
                         /\ reader'[r].floor = reader[r].floor
                    /\ \A q \in Readers : q # r => reader'[q] = reader[q]
<1>1. Hit(r) => Frame
  BY DEF Hit
<1>2. Miss(r) => Frame
  BY DEF Miss
<1>3. QueryItems(r) => Frame
  BY DEF QueryItems
<1>4. QueryCount(r) => Frame
  BY DEF QueryCount
<1>5. Store(r) => Frame
  BY DEF Store
<1>6. Deliver(r) => Frame
  BY DEF Deliver, IdleReader
<1>7. ReadFails(r) => Frame
  BY DEF ReadFails, IdleReader
<1> QED BY <1>1, <1>2, <1>3, <1>4, <1>5, <1>6, <1>7 DEF ReaderStep

\* The heart of the argument: no step of any request, and no expiry, makes a
\* listing stale for the version it is filed under.  A commit alone does not
\* (nobody was told yet), a bump moves the version away from the label, and a
\* reply adds to acked only what the label already covered.
LEMMA FreshStays ==
  ASSUME TypeOK, NothingAhead, [Next]_vars,
         NEW v \in 0..version, NEW n \in 0..MaxCommits, Fresh(v, n)
  PROVE  Fresh(v, n)'
<1> USE ListingAssumption DEF Fresh, TypeOK, WriteState, ReadState, NothingAhead
<1>1. ASSUME NEW w \in Writers, BeginWrite(w)
      PROVE  Fresh(v, n)'
  BY <1>1 DEF BeginWrite
<1>2. ASSUME NEW w \in Writers, Commit(w)
      PROVE  Fresh(v, n)'
  <2>1. PICK next \in {"refresh", "bump"} :
          writer' = [writer EXCEPT ![w] = [pc |-> next, at |-> commits']]
    BY <1>2 DEF Commit
  <2>2. \A u \in Writers : writer'[u].pc = "respond" => writer'[u] = writer[u]
    BY <2>1
  <2> QED BY <1>2, <2>2 DEF Commit
<1>3. ASSUME NEW w \in Writers, Refresh(w)
      PROVE  Fresh(v, n)'
  BY <1>3 DEF Refresh
<1>4. ASSUME NEW w \in Writers, Bump(w)
      PROVE  Fresh(v, n)'
  <2>1. v # version'
    BY <1>4 DEF Bump
  <2> QED BY <1>4, <2>1 DEF Bump
<1>5. ASSUME NEW w \in Writers, Acknowledge(w)
      PROVE  Fresh(v, n)'
  <2>1. v = version => writer[w].at <= n /\ acked' <= n
    BY <1>5 DEF Acknowledge
  <2>2. \A u \in Writers : writer'[u].pc = "respond" => writer'[u] = writer[u]
    BY <1>5 DEF Acknowledge, NoWrite
  <2> QED BY <1>5, <2>1, <2>2 DEF Acknowledge
<1>6. ASSUME NEW w \in Writers, WriteAborts(w)
      PROVE  Fresh(v, n)'
  BY <1>6 DEF WriteAborts, NoWrite
<1>7. ASSUME NEW r \in Readers, NEW p \in Pages, ReadVersion(r, p)
      PROVE  Fresh(v, n)'
  <2>1. reader'[r].ver = version /\ reader'[r].floor = acked
    BY <1>7 DEF ReadVersion
  <2>2. \A q \in Readers : q # r => reader'[q] = reader[q]
    BY <1>7 DEF ReadVersion
  <2> QED BY <1>7, <2>1, <2>2 DEF ReadVersion
<1>8. ASSUME NEW r \in Readers, ReaderStep(r)
      PROVE  Fresh(v, n)'
  <2>1. /\ UNCHANGED <<version, acked, writer>>
        /\ reader'[r].pc # "idle" => /\ reader[r].pc # "idle"
                                     /\ reader'[r].ver = reader[r].ver
                                     /\ reader'[r].floor = reader[r].floor
        /\ \A q \in Readers : q # r => reader'[q] = reader[q]
    BY <1>8, ReaderStepIsLocal
  <2> QED BY <2>1
<1>9. ASSUME NEW w \in 0..MaxBumps, NEW p \in Pages, Expire(w, p)
      PROVE  Fresh(v, n)'
  BY <1>9 DEF Expire
<1>10. ASSUME UNCHANGED vars
       PROVE  Fresh(v, n)'
  BY <1>10 DEF vars
<1> QED
  BY <1>1, <1>2, <1>3, <1>4, <1>5, <1>6, <1>7, <1>8, <1>9, <1>10
  DEF Next, WriterStep

\* Rows read now are fresh for any version: nobody can have been told of a
\* change that is not committed.
LEMMA FreshNow ==
  ASSUME TypeOK, NothingAhead, NEW v \in 0..MaxBumps
  PROVE  Fresh(v, commits)
BY ListingAssumption DEF TypeOK, NothingAhead, Fresh, WriteState, ReadState

LEMMA NothingAheadStays ==
  ASSUME TypeOK, NothingAhead, [Next]_vars
  PROVE  NothingAhead'
<1> USE ListingAssumption DEF TypeOK, NothingAhead, WriteState, ReadState
<1>1. ASSUME NEW w \in Writers, BeginWrite(w)
      PROVE  NothingAhead'
  BY <1>1 DEF BeginWrite
<1>2. ASSUME NEW w \in Writers, Commit(w)
      PROVE  NothingAhead'
  <2>1. PICK next \in {"refresh", "bump"} :
          writer' = [writer EXCEPT ![w] = [pc |-> next, at |-> commits']]
    BY <1>2 DEF Commit
  <2>2. writer'[w].at = commits' /\ \A u \in Writers : u # w => writer'[u] = writer[u]
    BY <2>1
  <2> QED BY <1>2, <2>2 DEF Commit
<1>3. ASSUME NEW w \in Writers, Refresh(w)
      PROVE  NothingAhead'
  BY <1>3 DEF Refresh
<1>4. ASSUME NEW w \in Writers, Bump(w)
      PROVE  NothingAhead'
  BY <1>4 DEF Bump, Entry
<1>5. ASSUME NEW w \in Writers, Acknowledge(w)
      PROVE  NothingAhead'
  <2>1. acked' <= commits /\ acked <= acked'
    BY <1>5 DEF Acknowledge
  <2>2. \A u \in Writers : writer'[u].at <= commits
    BY <1>5 DEF Acknowledge, NoWrite
  <2> QED BY <1>5, <2>1, <2>2 DEF Acknowledge
<1>6. ASSUME NEW w \in Writers, WriteAborts(w)
      PROVE  NothingAhead'
  BY <1>6 DEF WriteAborts, NoWrite
<1>7. ASSUME NEW r \in Readers, NEW p \in Pages, ReadVersion(r, p)
      PROVE  NothingAhead'
  <2>1. reader'[r].ver = version /\ reader'[r].floor = acked
    BY <1>7 DEF ReadVersion
  <2>2. \A q \in Readers : q # r => reader'[q] = reader[q]
    BY <1>7 DEF ReadVersion
  <2> QED BY <1>7, <2>1, <2>2 DEF ReadVersion
<1>8. ASSUME NEW r \in Readers, Hit(r)
      PROVE  NothingAhead'
  BY <1>8 DEF Hit
<1>9. ASSUME NEW r \in Readers, Miss(r)
      PROVE  NothingAhead'
  BY <1>9 DEF Miss
<1>10. ASSUME NEW r \in Readers, QueryItems(r)
       PROVE  NothingAhead'
  BY <1>10 DEF QueryItems
<1>11. ASSUME NEW r \in Readers, QueryCount(r)
       PROVE  NothingAhead'
  BY <1>11 DEF QueryCount
<1>12. ASSUME NEW r \in Readers, Store(r)
       PROVE  NothingAhead'
  BY <1>12 DEF Store, CachedFor
<1>13. ASSUME NEW r \in Readers, Deliver(r)
       PROVE  NothingAhead'
  BY <1>13 DEF Deliver, IdleReader
<1>14. ASSUME NEW r \in Readers, ReadFails(r)
       PROVE  NothingAhead'
  BY <1>14 DEF ReadFails, IdleReader
<1>15. ASSUME NEW v \in 0..MaxBumps, NEW p \in Pages, Expire(v, p)
       PROVE  NothingAhead'
  BY <1>15 DEF Expire
<1>16. ASSUME UNCHANGED vars
       PROVE  NothingAhead'
  BY <1>16 DEF vars
<1> QED
  BY <1>1, <1>2, <1>3, <1>4, <1>5, <1>6, <1>7, <1>8, <1>9, <1>10, <1>11,
     <1>12, <1>13, <1>14, <1>15, <1>16 DEF Next, WriterStep, ReaderStep

LEMMA CacheFreshStays ==
  ASSUME ListingInvariant, [Next]_vars
  PROVE  CacheFresh'
<1> USE ListingAssumption DEF ListingInvariant
<1>1. commits \in Nat /\ commits' \in Nat /\ commits <= commits'
  <2>1. commits' = commits \/ commits' = commits + 1
    BY DEF Next, WriterStep, ReaderStep, BeginWrite, Commit, Refresh, Bump,
           Acknowledge, WriteAborts, ReadVersion, Hit, Miss, QueryItems,
           QueryCount, Store, Deliver, ReadFails, Expire, vars
  <2> QED BY <2>1 DEF TypeOK
<1>2. ASSUME NEW e \in cache
      PROVE  e.items <= e.total /\ e.total <= commits' /\ Fresh(e.ver, e.items)'
  <2>1. e.ver \in 0..version /\ e.items \in 0..MaxCommits /\ e.total \in 0..MaxCommits
    BY DEF TypeOK, Entry, NothingAhead
  <2>2. e.items <= e.total /\ e.total <= commits /\ Fresh(e.ver, e.items)
    BY DEF CacheFresh
  <2>3. Fresh(e.ver, e.items)'
    BY <2>1, <2>2, FreshStays
  <2> QED BY <1>1, <2>1, <2>2, <2>3
<1>3. ASSUME NEW r \in Readers, Store(r), NEW e \in cache', e \notin cache
      PROVE  e.items <= e.total /\ e.total <= commits' /\ Fresh(e.ver, e.items)'
  <2>1. e = [ver |-> reader[r].ver, page |-> reader[r].page,
             items |-> reader[r].items, total |-> reader[r].total]
    BY <1>3 DEF Store
  <2>2. e.ver = reader[r].ver /\ e.items = reader[r].items /\ e.total = reader[r].total
    BY <2>1
  <2>3. e.ver \in 0..version /\ e.items \in 0..MaxCommits /\ e.total \in 0..MaxCommits
    BY <2>2 DEF TypeOK, ReadState, NothingAhead
  <2>4. e.items <= e.total /\ e.total <= commits /\ Fresh(e.ver, e.items)
    BY <1>3, <2>2 DEF ReadersFresh, Store, Fresh
  <2>5. Fresh(e.ver, e.items)'
    BY <2>3, <2>4, FreshStays
  <2> QED BY <1>1, <2>3, <2>4, <2>5
<1>4. \/ cache' \subseteq cache
      \/ \E r \in Readers : Store(r)
  BY DEF Next, WriterStep, ReaderStep, BeginWrite, Commit, Refresh, Bump,
         Acknowledge, WriteAborts, ReadVersion, Hit, Miss, QueryItems,
         QueryCount, Deliver, ReadFails, Expire, vars
<1> QED BY <1>2, <1>3, <1>4 DEF CacheFresh

LEMMA ReadersFreshStays ==
  ASSUME ListingInvariant, [Next]_vars
  PROVE  ReadersFresh'
<1> USE ListingAssumption DEF ListingInvariant
<1> DEFINE Good(q) ==
      /\ reader[q].pc = "count" => reader[q].items <= commits
      /\ reader[q].pc \in {"count", "store"} => Fresh(reader[q].ver, reader[q].items)
      /\ reader[q].pc = "respond" => reader[q].floor <= reader[q].items
      /\ reader[q].pc \in {"store", "respond"} =>
           reader[q].items <= reader[q].total /\ reader[q].total <= commits
<1>1. commits \in Nat /\ commits' \in Nat /\ commits <= commits'
  <2>1. commits' = commits \/ commits' = commits + 1
    BY DEF Next, WriterStep, ReaderStep, BeginWrite, Commit, Refresh, Bump,
           Acknowledge, WriteAborts, ReadVersion, Hit, Miss, QueryItems,
           QueryCount, Store, Deliver, ReadFails, Expire, vars
  <2> QED BY <2>1 DEF TypeOK
<1>2. ASSUME NEW q \in Readers
      PROVE  /\ reader[q].ver \in 0..version
             /\ reader[q].floor \in 0..acked
             /\ reader[q].items \in 0..MaxCommits
             /\ reader[q].total \in 0..MaxCommits
  BY DEF TypeOK, ReadState, NothingAhead
<1>3. \A v \in 0..version, n \in 0..MaxCommits : Fresh(v, n) => Fresh(v, n)'
  BY FreshStays
<1>4. ASSUME NEW q \in Readers, reader'[q] = reader[q]
      PROVE  Good(q)'
  <2>1. Good(q)
    BY DEF ReadersFresh
  <2>2. PICK v \in 0..version, n \in 0..MaxCommits :
          reader[q].ver = v /\ reader[q].items = n
    BY <1>2
  <2>3. reader[q].pc \in {"count", "store"} => Fresh(v, n)'
    BY <1>3, <2>1, <2>2
  <2>4. reader'[q].pc \in {"count", "store"} =>
          Fresh(reader[q].ver, reader[q].items)'
    BY <1>4, <2>2, <2>3 DEF Fresh
  <2> QED BY <1>1, <1>2, <1>4, <2>1, <2>4
<1>5. ASSUME NEW r \in Readers, Hit(r)
      PROVE  Good(r)'
  <2>1. PICK e \in CachedFor(r) :
          reader' = [reader EXCEPT ![r] = [reader[r] EXCEPT !.pc = "respond",
                                             !.items = e.items,
                                             !.total = e.total]]
    BY <1>5 DEF Hit
  <2>2. e \in cache /\ e.ver = reader[r].ver
    BY DEF CachedFor
  <2>3. e.items <= e.total /\ e.total <= commits /\ Fresh(reader[r].ver, e.items)
    BY <2>2 DEF CacheFresh
  <2>4. reader[r].floor <= e.items
    BY <1>5, <2>3 DEF Fresh, Hit
  <2>5. /\ reader'[r].pc = "respond" /\ reader'[r].floor = reader[r].floor
        /\ reader'[r].items = e.items /\ reader'[r].total = e.total
    BY <2>1 DEF TypeOK, ReadState
  <2>6. commits' = commits
    BY <1>5 DEF Hit
  <2> QED BY <2>3, <2>4, <2>5, <2>6
<1>6. ASSUME NEW r \in Readers, QueryItems(r)
      PROVE  Good(r)'
  <2>1. /\ reader'[r].pc = "count" /\ reader'[r].items = commits
        /\ reader'[r].ver = reader[r].ver
    BY <1>6 DEF QueryItems, TypeOK, ReadState
  <2>2. PICK v \in 0..version, n \in 0..MaxCommits :
          reader[r].ver = v /\ commits = n
    BY <1>2 DEF TypeOK
  <2>3. v \in 0..MaxBumps
    BY DEF TypeOK
  <2>4. Fresh(v, n)
    BY <2>2, <2>3, FreshNow
  <2>5. Fresh(v, n)'
    BY <1>3, <2>4
  <2>6. Fresh(reader[r].ver, reader[r].items)'
    BY <2>1, <2>2, <2>5 DEF Fresh
  <2> QED BY <1>1, <1>6, <2>1, <2>6 DEF QueryItems
<1>7. ASSUME NEW r \in Readers, QueryCount(r)
      PROVE  Good(r)'
  <2>1. /\ reader'[r].pc = "store" /\ reader'[r].total = commits
        /\ reader'[r].ver = reader[r].ver /\ reader'[r].items = reader[r].items
    BY <1>7 DEF QueryCount, TypeOK, ReadState
  <2>2. PICK v \in 0..version, n \in 0..MaxCommits :
          reader[r].ver = v /\ reader[r].items = n
    BY <1>2
  <2>3. Fresh(v, n) /\ n <= commits
    BY <1>7, <2>2 DEF ReadersFresh, QueryCount
  <2>4. Fresh(v, n)'
    BY <1>3, <2>3
  <2>5. Fresh(reader[r].ver, reader[r].items)'
    BY <2>1, <2>2, <2>4 DEF Fresh
  <2> QED BY <1>1, <1>7, <2>1, <2>2, <2>3, <2>5 DEF QueryCount
<1>8. ASSUME NEW r \in Readers, Store(r)
      PROVE  Good(r)'
  <2>1. /\ reader'[r].pc = "respond" /\ reader'[r].total = reader[r].total
        /\ reader'[r].items = reader[r].items /\ reader'[r].floor = reader[r].floor
        /\ commits' = commits
    BY <1>8 DEF Store, TypeOK, ReadState
  <2>2. Good(r)
    BY DEF ReadersFresh
  <2>3. reader[r].floor <= reader[r].items
    BY <1>8, <2>2 DEF Fresh, Store
  <2> QED BY <1>8, <2>1, <2>2, <2>3 DEF Store
<1>9. ASSUME NEW r \in Readers,
             \/ Miss(r) \/ Deliver(r) \/ ReadFails(r)
             \/ \E p \in Pages : ReadVersion(r, p)
      PROVE  Good(r)'
  <2> SUFFICES reader'[r].pc \in {"idle", "lookup", "items"}
    OBVIOUS
  <2>1. CASE Miss(r)
    BY <2>1 DEF Miss, TypeOK, ReadState
  <2>2. CASE Deliver(r)
    BY <2>2 DEF Deliver, IdleReader, TypeOK
  <2>3. CASE ReadFails(r)
    BY <2>3 DEF ReadFails, IdleReader, TypeOK
  <2>4. CASE \E p \in Pages : ReadVersion(r, p)
    BY <2>4 DEF ReadVersion, TypeOK
  <2> QED BY <1>9, <2>1, <2>2, <2>3, <2>4
<1>10. \A q \in Readers : reader'[q] = reader[q] \/ Good(q)'
  <2>1. ASSUME NEW r \in Readers,
               ReaderStep(r) \/ \E p \in Pages : ReadVersion(r, p)
        PROVE  \A q \in Readers : reader'[q] = reader[q] \/ Good(q)'
    <3>1. \A q \in Readers : q # r => reader'[q] = reader[q]
      <4>1. CASE \E p \in Pages : ReadVersion(r, p)
        BY <4>1 DEF ReadVersion, TypeOK
      <4>2. CASE ReaderStep(r)
        BY <4>2, ReaderStepIsLocal
      <4> QED BY <2>1, <4>1, <4>2
    <3>2. Good(r)'
      <4> HIDE DEF Good
      <4> QED BY <2>1, <1>5, <1>6, <1>7, <1>8, <1>9 DEF ReaderStep
    <3> HIDE DEF Good
    <3> QED BY <3>1, <3>2
  <2>2. \/ reader' = reader
        \/ \E r \in Readers : ReaderStep(r) \/ \E p \in Pages : ReadVersion(r, p)
    BY DEF Next, WriterStep, BeginWrite, Commit, Refresh, Bump, Acknowledge,
           WriteAborts, Expire, vars
  <2> HIDE DEF Good
  <2> QED BY <2>1, <2>2
<1>11. \A q \in Readers : Good(q)'
  <2> HIDE DEF Good
  <2> QED BY <1>4, <1>10
<1> QED BY <1>11 DEF ReadersFresh

-----------------------------------------------------------------------------

\* Every listing in Redis, or on its way there, is as new as the version it is
\* filed under demands, however requests, failures and expiries interleave.
THEOREM ListingInvariantHolds == SafeSpec => []ListingInvariant
<1>1. Init => ListingInvariant
  <2> SUFFICES ASSUME Init
               PROVE  ListingInvariant
    OBVIOUS
  <2>1. TypeOK
    BY TypeCorrectInit
  <2>2. /\ \A w \in Writers : writer[w] = NoWrite
        /\ \A r \in Readers : reader[r] = IdleReader
    BY DEF Init
  <2> QED
    BY <2>1, <2>2 DEF Init, ListingInvariant, NothingAhead, CacheFresh,
                      ReadersFresh, Fresh, NoWrite, IdleReader
<1>2. ListingInvariant /\ [Next]_vars => ListingInvariant'
  BY TypeCorrectNext, NothingAheadStays, CacheFreshStays, ReadersFreshStays
  DEF ListingInvariant
<1> QED BY <1>1, <1>2, PTL DEF SafeSpec

\* No listing misses a change whose writer had its reply when the listing was
\* asked for: commit, then bump, then reply, and version before rows, suffice.
THEOREM AckedWritesAlwaysVisible == SafeSpec => []AckedWritesVisible
<1>1. ListingInvariant => AckedWritesVisible
  <2> SUFFICES ASSUME ListingInvariant, NEW r \in Readers,
                      reader[r].pc = "respond"
               PROVE  /\ reader[r].floor <= reader[r].items
                      /\ reader[r].floor <= reader[r].total
    BY DEF AckedWritesVisible
  <2>1. /\ reader[r].floor \in Nat /\ reader[r].items \in Nat
        /\ reader[r].total \in Nat
    BY ListingAssumption DEF ListingInvariant, TypeOK, ReadState
  <2>2. /\ reader[r].floor <= reader[r].items
        /\ reader[r].items <= reader[r].total
    BY DEF ListingInvariant, ReadersFresh
  <2> QED BY <2>1, <2>2
<1> QED BY <1>1, ListingInvariantHolds, PTL

\* When every committed change has been replied to, no reachable entry of the
\* cache is old or torn.
THEOREM QuietPagesAlwaysExact == SafeSpec => []QuietPagesExact
<1>1. ListingInvariant => QuietPagesExact
  <2> SUFFICES ASSUME ListingInvariant, acked = commits,
                      NEW e \in cache, e.ver = version
               PROVE  e.items = commits /\ e.total = commits
    BY DEF QuietPagesExact
  <2>1. commits \in Nat /\ e.items \in Nat /\ e.total \in Nat
    BY ListingAssumption DEF ListingInvariant, TypeOK, Entry
  <2>2. commits <= e.items /\ e.items <= e.total /\ e.total <= commits
    BY DEF ListingInvariant, CacheFresh, Fresh
  <2> QED BY <2>1, <2>2
<1> QED BY <1>1, ListingInvariantHolds, PTL

-----------------------------------------------------------------------------
(* The refinement.                                                         *)

LEMMA RegisterRequestIsFunction ==
  /\ RegisterRequest = [r \in Readers |-> RegisterRequest[r]]
  /\ RegisterRequest' = [r \in Readers |-> RegisterRequest'[r]]
BY DEF RegisterRequest

LEMMA RegisterStep ==
  ASSUME ListingInvariant, ListingInvariant', [Next]_vars
  PROVE  [Register!Next]_Register!vars
<1> DEFINE Req(r) == RegisterRequest[r]
<1> USE ListingAssumption DEF ListingInvariant
<1>1. /\ commits \in Nat /\ acked \in Nat /\ acked <= commits
      /\ commits' \in Nat /\ acked' \in Nat /\ acked' <= commits'
      /\ commits' <= MaxCommits
  BY DEF TypeOK, NothingAhead
<1>2. ASSUME reader' = reader
      PROVE  RegisterRequest' = RegisterRequest
  BY <1>2 DEF RegisterRequest
<1>3. ASSUME NEW w \in Writers, Commit(w)
      PROVE  [Register!Next]_Register!vars
  <2>1. CASE commits' = commits
    BY <1>2, <1>3, <2>1 DEF Commit, Register!vars
  <2>2. CASE commits < MaxCommits /\ commits' = commits + 1
    BY <1>2, <1>3, <2>2 DEF Commit, Register!Next, Register!Commit
  <2> QED BY <1>3, <2>1, <2>2 DEF Commit
<1>4. ASSUME NEW w \in Writers, Acknowledge(w)
      PROVE  [Register!Next]_Register!vars
  <2>1. CASE acked' = acked
    BY <1>2, <1>4, <2>1 DEF Acknowledge, Register!vars
  <2>2. CASE acked' # acked
    <3>1. writer[w].at \in Nat
      BY DEF TypeOK, WriteState
    <3>2. acked' \in (acked + 1)..commits
      BY <1>1, <1>4, <2>2, <3>1 DEF Acknowledge
    <3> QED BY <1>2, <1>4, <3>2 DEF Acknowledge, Register!Next, Register!Acknowledge
  <2> QED BY <2>1, <2>2
<1>5. ASSUME NEW w \in Writers,
             BeginWrite(w) \/ Refresh(w) \/ Bump(w) \/ WriteAborts(w)
      PROVE  [Register!Next]_Register!vars
  BY <1>2, <1>5 DEF BeginWrite, Refresh, Bump, WriteAborts, Register!vars
<1>6. ASSUME NEW v \in 0..MaxBumps, NEW p \in Pages, Expire(v, p)
      PROVE  [Register!Next]_Register!vars
  BY <1>2, <1>6 DEF Expire, Register!vars
<1>7. ASSUME NEW r \in Readers, NEW p \in Pages, ReadVersion(r, p)
      PROVE  [Register!Next]_Register!vars
  <2>1. RegisterRequest' =
          [RegisterRequest EXCEPT ![r] =
             [Register!NoRequest EXCEPT !.st = "pending", !.floor = acked]]
    BY <1>7 DEF ReadVersion, RegisterRequest, Register!NoRequest, TypeOK, ReadState
  <2>2. RegisterRequest[r].st = "idle"
    BY <1>7 DEF ReadVersion, RegisterRequest
  <2>3. UNCHANGED <<commits, acked>>
    BY <1>7 DEF ReadVersion
  <2> QED BY <2>1, <2>2, <2>3 DEF Register!Next, Register!Ask
<1>8. ASSUME NEW r \in Readers, Miss(r) \/ QueryItems(r) \/ QueryCount(r)
      PROVE  [Register!Next]_Register!vars
  <2>1. /\ reader[r].pc \in {"lookup", "items", "count"}
        /\ reader'[r].pc \in {"items", "count", "store"}
        /\ reader'[r].floor = reader[r].floor
        /\ \A q \in Readers : q # r => reader'[q] = reader[q]
    <3>1. CASE Miss(r)
      BY <3>1 DEF Miss, TypeOK, ReadState
    <3>2. CASE QueryItems(r)
      BY <3>2 DEF QueryItems, TypeOK, ReadState
    <3>3. CASE QueryCount(r)
      BY <3>3 DEF QueryCount, TypeOK, ReadState
    <3> QED BY <1>8, <3>1, <3>2, <3>3
  <2>2. \A q \in Readers : RegisterRequest'[q] = RegisterRequest[q]
    BY <2>1 DEF RegisterRequest
  <2>3. RegisterRequest' = RegisterRequest
    BY <2>2 DEF RegisterRequest
  <2> QED BY <1>8, <2>3 DEF Miss, QueryItems, QueryCount, Register!vars
<1>9. ASSUME NEW r \in Readers, Hit(r) \/ Store(r)
      PROVE  [Register!Next]_Register!vars
  <2>1. /\ reader[r].pc \in {"lookup", "store"}
        /\ reader'[r].pc = "respond"
        /\ reader'[r].floor = reader[r].floor
        /\ \A q \in Readers : q # r => reader'[q] = reader[q]
    <3>1. CASE Hit(r)
      BY <3>1 DEF Hit, TypeOK, ReadState
    <3>2. CASE Store(r)
      BY <3>2 DEF Store, TypeOK, ReadState
    <3> QED BY <1>9, <3>1, <3>2
  <2>2. UNCHANGED <<commits, acked>>
    BY <1>9 DEF Hit, Store
  <2>3. /\ reader'[r].floor \in Nat /\ reader'[r].items \in Nat
        /\ reader'[r].total \in Nat
        /\ reader'[r].floor <= reader'[r].items
        /\ reader'[r].items <= reader'[r].total
        /\ reader'[r].total <= commits
    BY <2>1, <2>2 DEF TypeOK, ReadState, ReadersFresh
  <2>4. PICK items \in reader[r].floor..commits, total \in reader[r].floor..commits :
          /\ items <= total
          /\ reader'[r].items = items
          /\ reader'[r].total = total
    BY <1>1, <2>1, <2>3
  <2> DEFINE q == [st |-> "answered", floor |-> reader[r].floor,
                   items |-> items, total |-> total]
  <2>5. RegisterRequest[r] = [st |-> "pending", floor |-> reader[r].floor,
                              items |-> 0, total |-> 0]
    BY <2>1 DEF RegisterRequest
  <2>6. RegisterRequest'[r] = q
    BY <2>1, <2>4 DEF RegisterRequest
  <2>7. RegisterRequest' = [RegisterRequest EXCEPT ![r] = q]
    <3>1. \A x \in Readers : x # r => RegisterRequest'[x] = RegisterRequest[x]
      BY <2>1 DEF RegisterRequest
    <3> HIDE DEF q
    <3> QED BY <2>6, <3>1, RegisterRequestIsFunction
  <2>8. RegisterRequest[r].st = "pending" /\ RegisterRequest[r].floor = reader[r].floor
    BY <2>5
  <2>9. Register!Answer(r)
    BY <2>2, <2>4, <2>7, <2>8 DEF Register!Answer
  <2> QED BY <2>9 DEF Register!Next
<1>10. ASSUME NEW r \in Readers, Deliver(r) \/ ReadFails(r)
       PROVE  [Register!Next]_Register!vars
  <2>1. /\ reader[r].pc # "idle"
        /\ reader'[r] = IdleReader
        /\ \A q \in Readers : q # r => reader'[q] = reader[q]
    BY <1>10 DEF Deliver, ReadFails, TypeOK
  <2>2. RegisterRequest' = [RegisterRequest EXCEPT ![r] = Register!NoRequest]
    <3>1. RegisterRequest'[r] = Register!NoRequest
      BY <2>1 DEF RegisterRequest, IdleReader, Register!NoRequest
    <3>2. \A x \in Readers : x # r => RegisterRequest'[x] = RegisterRequest[x]
      BY <2>1 DEF RegisterRequest
    <3> QED BY <3>1, <3>2, RegisterRequestIsFunction
  <2>3. RegisterRequest[r].st # "idle"
    BY <2>1 DEF RegisterRequest
  <2>4. UNCHANGED <<commits, acked>>
    BY <1>10 DEF Deliver, ReadFails
  <2> QED BY <2>2, <2>3, <2>4 DEF Register!Next, Register!Finish
<1>11. ASSUME UNCHANGED vars
       PROVE  [Register!Next]_Register!vars
  BY <1>2, <1>11 DEF vars, Register!vars
<1> QED
  BY <1>3, <1>4, <1>5, <1>6, <1>7, <1>8, <1>9, <1>10, <1>11
  DEF Next, WriterStep, ReaderStep

\* Listings answered through the cache behave, at every step, as the register
\* does that reads the database at once.
THEOREM ListingImplementsRegister == SafeSpec => ImplementsRegister
<1>1. Init => Register!Init
  BY DEF Init, Register!Init, RegisterRequest, IdleReader, Register!NoRequest
<1>2. ListingInvariant /\ ListingInvariant' /\ [Next]_vars =>
        [Register!Next]_Register!vars
  BY RegisterStep
<1> QED BY <1>1, <1>2, ListingInvariantHolds, PTL
        DEF SafeSpec, ImplementsRegister, Register!Spec

-----------------------------------------------------------------------------
(* Where Redis may restart empty.                                          *)

LEMMA TypeCorrectLossy == TypeOK /\ [LossyNext]_vars => TypeOK'
<1>1. ASSUME TypeOK, RedisRestart
      PROVE  TypeOK'
  BY <1>1, ListingAssumption DEF RedisRestart, TypeOK
<1> QED BY <1>1, TypeCorrectNext DEF LossyNext

\* The types survive any number of restarts of Redis too.
THEOREM LossyTypeCorrect == LossySpec => []TypeOK
BY TypeCorrectInit, TypeCorrectLossy, PTL DEF LossySpec

\* What a reader holds shows the first c changes.
ShownBy(r, c) ==
  /\ reader[r].pc \in {"count", "store", "respond"} => c <= reader[r].items
  /\ reader[r].pc \in {"store", "respond"} => c <= reader[r].total

LEMMA ReaderKeepsSettled ==
  ASSUME TypeOK, NEW c \in 1..MaxCommits, Settled(c), NEW r \in Readers, ReaderStep(r)
  PROVE  \A q \in Readers : ShownBy(q, c)'
<1> USE DEF TypeOK, ReadState
<1>1. \A q \in Readers : q # r => reader'[q] = reader[q]
  BY DEF ReaderStep, Hit, Miss, QueryItems, QueryCount, Store, Deliver, ReadFails
<1>2. \A q \in Readers : ShownBy(q, c)
  BY DEF Settled, ShownBy
<1>3. c <= commits
  BY DEF Settled
<1>4. CASE Hit(r)
  <2>1. PICK e \in CachedFor(r) :
          reader' = [reader EXCEPT ![r] = [reader[r] EXCEPT !.pc = "respond",
                                                            !.items = e.items,
                                                            !.total = e.total]]
    BY <1>4 DEF Hit
  <2>2. c <= e.items /\ c <= e.total
    BY <2>1 DEF Settled, CachedFor
  <2>3. reader'[r].items = e.items /\ reader'[r].total = e.total
    BY <2>1
  <2> QED BY <1>1, <1>2, <2>2, <2>3 DEF ShownBy
<1>5. CASE Miss(r)
  BY <1>1, <1>2, <1>5 DEF Miss, ShownBy
<1>6. CASE QueryItems(r)
  BY <1>1, <1>2, <1>3, <1>6 DEF QueryItems, ShownBy
<1>7. CASE QueryCount(r)
  BY <1>1, <1>2, <1>3, <1>7 DEF QueryCount, ShownBy
<1>8. CASE Store(r)
  BY <1>1, <1>2, <1>8 DEF Store, ShownBy
<1>9. CASE Deliver(r) \/ ReadFails(r)
  BY <1>1, <1>2, <1>9 DEF Deliver, ReadFails, ShownBy, IdleReader
<1> QED BY <1>4, <1>5, <1>6, <1>7, <1>8, <1>9 DEF ReaderStep

LEMMA SettledStays ==
  ASSUME TypeOK, NEW c \in 1..MaxCommits, Settled(c), [LossyNext]_vars
  PROVE  Settled(c)'
<1> USE ListingAssumption
<1>1. \A r \in Readers : ShownBy(r, c)
  BY DEF Settled, ShownBy
<1>2. ASSUME reader' = reader
      PROVE  \A r \in Readers : ShownBy(r, c)'
  BY <1>1, <1>2 DEF ShownBy
<1>3. ASSUME NEW w \in Writers, Commit(w)
      PROVE  Settled(c)'
  <2>1. commits' >= commits /\ commits \in Nat /\ commits' \in Nat
    BY <1>3 DEF Commit, TypeOK
  <2>2. UNCHANGED <<cache, reader>>
    BY <1>3 DEF Commit
  <2> QED BY <2>1, <2>2 DEF Settled
<1>4. ASSUME NEW w \in Writers,
             BeginWrite(w) \/ Refresh(w) \/ Bump(w) \/ Acknowledge(w) \/ WriteAborts(w)
      PROVE  Settled(c)'
  <2>1. UNCHANGED <<commits, cache, reader>>
    BY <1>4 DEF BeginWrite, Refresh, Bump, Acknowledge, WriteAborts
  <2> QED BY <2>1 DEF Settled
<1>5. ASSUME NEW r \in Readers, NEW p \in Pages, ReadVersion(r, p)
      PROVE  Settled(c)'
  <2>1. \A q \in Readers : reader'[q] = reader[q] \/ reader'[q].pc = "lookup"
    BY <1>5 DEF ReadVersion, TypeOK
  <2>2. \A q \in Readers : ShownBy(q, c)'
    BY <1>1, <2>1 DEF ShownBy
  <2> QED BY <1>5, <2>2 DEF ReadVersion, Settled, ShownBy
<1>6. ASSUME NEW r \in Readers, ReaderStep(r)
      PROVE  Settled(c)'
  <2>1. \A q \in Readers : ShownBy(q, c)'
    BY <1>6, ReaderKeepsSettled
  <2>2. commits' = commits
    BY <1>6 DEF ReaderStep, Hit, Miss, QueryItems, QueryCount, Store, Deliver, ReadFails
  <2>3. \A e \in cache' : c <= e.items /\ c <= e.total
    <3>1. CASE Store(r)
      <4>1. \A e \in cache' : \/ e \in cache
                              \/ e.items = reader[r].items /\ e.total = reader[r].total
        BY <3>1 DEF Store
      <4>2. c <= reader[r].items /\ c <= reader[r].total
        BY <1>1, <3>1 DEF Store, ShownBy
      <4> QED BY <4>1, <4>2 DEF Settled
    <3>2. CASE cache' = cache
      BY <3>2 DEF Settled
    <3> QED BY <1>6, <3>1, <3>2
            DEF ReaderStep, Hit, Miss, QueryItems, QueryCount, Deliver, ReadFails
  <2> QED BY <2>1, <2>2, <2>3 DEF Settled, ShownBy
<1>7. ASSUME NEW v \in 0..MaxBumps, NEW p \in Pages, Expire(v, p)
      PROVE  Settled(c)'
  <2>1. cache' \subseteq cache /\ UNCHANGED <<commits, reader>>
    BY <1>7 DEF Expire
  <2> QED BY <2>1 DEF Settled
<1>8. CASE RedisRestart
  BY <1>8 DEF RedisRestart, Settled
<1>9. CASE UNCHANGED vars
  BY <1>9 DEF vars, Settled
<1> QED BY <1>3, <1>4, <1>5, <1>6, <1>7, <1>8, <1>9 DEF LossyNext, Next, WriterStep

\* Once every listing in Redis and under way shows a change, no listing ever
\* lacks it again, whatever Redis loses: the half of EventuallyVisible that
\* needs no fairness.
THEOREM SettledHolds == LossySpec => SettledForGood
<1>1. TypeOK /\ [LossyNext]_vars =>
        [\A c \in 1..MaxCommits : Settled(c) => Settled(c)']_vars
  BY SettledStays
<1> QED BY <1>1, LossyTypeCorrect, PTL DEF LossySpec, SettledForGood
=============================================================================
