---------------------------- MODULE ResumeProofs ----------------------------
(***************************************************************************)
(* Theorems about ResumeIndex, for any candidates, requests, matchers,     *)
(* names and bounds.                                                       *)
(*                                                                         *)
(* None of the promises is inductive: what the stores hold is right because *)
(* of what the uploads that are under way have already done elsewhere, so  *)
(* each is strengthened by a statement about those uploads.                *)
(***************************************************************************)
EXTENDS ResumeIndex, TLAPS

Uploads == {q \in Requests : Active(q) /\ request[q].op = "upload"}

Early(q) == request[q].pc \in {"put", "commit"}

\* What an upload r knows of the stores: its file is in the bucket before it
\* commits, and its key committed before it writes an embedding.  Before its
\* commit, one that met no other knows the name in the row; after it, one that
\* met no other still finds its key there.
Sound(r, rows, keys, done) ==
  /\ r.key.user = r.user
  /\ r.pc # "put" => r.key \in keys
  /\ r.pc \in {"put", "commit"} =>
       \/ "before" \in r.raced
       \/ /\ rows[r.user] # None
          /\ rows[r.user].name = r.loaded.name
  /\ r.pc \notin {"put", "commit"} =>
       /\ r.key \in done
       /\ \/ "after" \in r.raced
          \/ /\ rows[r.user] # None
             /\ rows[r.user].key = r.key
             /\ \/ rows[r.user].name = r.key.name
                \/ "before" \in r.raced

UploadsSound == \A q \in Uploads : Sound(request[q], profile, bucket, committed)

\* Embeddings come from commits, and matches from embeddings.
IndexCommitted ==
  \A c \in Candidates : index[c] # None => index[c] \in committed /\ index[c].user = c

MatchesCommitted ==
  \A m \in Matchers : \A c \in matcher[m].left \cup matcher[m].shown :
    \E k \in committed : k.user = c

\* Of an undisturbed candidate, at most one upload has still to be indexed,
\* and the row has its key.
OneToIndex ==
  \A c \in Candidates \ disturbed : \A q \in ToIndex(c) :
    /\ ToIndex(c) = {q}
    /\ profile[c] # None
    /\ profile[c].key = request[q].key

Committed == IndexCommitted /\ MatchesCommitted
Follows == OneToIndex /\ IndexFollowsProfile

ResumeInv == ResumeTypeOK /\ UploadsSound /\ ResumeStored /\ Committed /\ Follows

-----------------------------------------------------------------------------
(* Requests, their kinds, and what a commit of another leaves of them.     *)

LEMMA Kinded ==
  ASSUME ResumeTypeOK, NEW q \in Requests
  PROVE  /\ request[q] = NoRequest <=> ~Active(q)
         /\ Active(q) => request[q] \in Upsert \cup Upload
         /\ q \in Uploads <=> request[q] \in Upload
         /\ request[q] \in Upsert <=> Active(q) /\ request[q].op = "upsert"
         /\ request[q].pc \in {"put", "index"} => q \in Uploads
<1>1. request[q] \in {NoRequest} \cup Upsert \cup Upload
  BY DEF ResumeTypeOK
<1>2. CASE request[q] = NoRequest
  BY <1>2 DEF NoRequest, Active, Upsert, Upload, Uploads
<1>3. CASE request[q] \in Upsert
  BY <1>3 DEF NoRequest, Active, Upsert, Upload, Uploads
<1>4. CASE request[q] \in Upload
  BY <1>4 DEF NoRequest, Active, Upsert, Upload, Uploads
<1> QED BY <1>1, <1>2, <1>3, <1>4

\* What Raced makes of the request p.
LEMMA RacedRequest ==
  ASSUME ResumeTypeOK, NEW c \in Candidates, NEW q, NEW p \in Requests
  PROVE  LET r == Raced(c, q)[p] IN
         /\ p \notin Uploads => r = request[p]
         /\ p \in Uploads =>
              /\ r \in Upload
              /\ r.pc = request[p].pc /\ r.user = request[p].user
              /\ r.key = request[p].key /\ r.loaded = request[p].loaded
              /\ request[p].raced \subseteq r.raced
              /\ p # q /\ request[p].user = c =>
                   (IF Early(p) THEN "before" ELSE "after") \in r.raced
<1> DEFINE r == Raced(c, q)[p]
           hit == p # q /\ Active(p) /\ request[p].op = "upload" /\ request[p].user = c
           mark == IF request[p].pc \in {"put", "commit"} THEN "before" ELSE "after"
<1>1. r = IF hit THEN [request[p] EXCEPT !.raced = @ \cup {mark}] ELSE request[p]
  BY DEF Raced
<1>2. hit => p \in Uploads
  BY DEF Uploads
<1>3. ASSUME p \in Uploads
      PROVE  request[p] \in Upload
  BY <1>3, Kinded
<1>4. CASE hit
  BY <1>1, <1>2, <1>3, <1>4 DEF Upload, Early
<1>5. CASE ~hit
  BY <1>1, <1>3, <1>5 DEF Upload, Uploads
<1> QED BY <1>4, <1>5

LEMMA RacedOther ==
  ASSUME ResumeTypeOK, NEW c \in Candidates, NEW q, NEW p \in Requests, p \notin Uploads
  PROVE  Raced(c, q)[p] = request[p]
BY RacedRequest

LEMMA RacedUpload ==
  ASSUME ResumeTypeOK, NEW c \in Candidates, NEW q, NEW p \in Uploads
  PROVE  LET r == Raced(c, q)[p] IN
         /\ r \in Upload
         /\ r.pc = request[p].pc /\ r.user = request[p].user
         /\ r.key = request[p].key /\ r.loaded = request[p].loaded
         /\ r.op = "upload" /\ request[p].op = "upload"
<1>1. p \in Requests /\ request[p] \in Upload
  BY Kinded DEF Uploads
<1>2. \A r \in Upload : r.op = "upload"
  BY DEF Upload
<1> QED BY <1>1, <1>2, RacedRequest

-----------------------------------------------------------------------------
(* Types.                                                                  *)

Requested == {NoRequest} \cup Upsert \cup Upload

LEMMA RacedTyped ==
  ASSUME ResumeTypeOK, NEW c \in Candidates, NEW q
  PROVE  Raced(c, q) \in [Requests -> Requested]
<1>1. ASSUME NEW p \in Requests
      PROVE  Raced(c, q)[p] \in Requested
  BY <1>1, RacedRequest DEF ResumeTypeOK, Requested
<1> QED BY <1>1 DEF Raced

LEMMA RowTyped ==
  ASSUME ResumeTypeOK, NEW c \in Candidates, profile[c] # None
  PROVE  profile[c] \in Profile
BY DEF ResumeTypeOK

\* Another stage of the same request.
LEMMA StageTyped ==
  ASSUME NEW p \in Upload
  PROVE  /\ [p EXCEPT !.pc = "commit"] \in Upload
         /\ [p EXCEPT !.pc = "refresh"] \in Upload
         /\ [p EXCEPT !.pc = "reply"] \in Upload
BY DEF Upload

LEMMA UpsertTypes ==
  ASSUME ResumeTypeOK, NEW q \in Requests,
         \/ \E c \in Candidates, h \in Headlines \cup {None} : BeginUpsert(q, c, h)
         \/ InsertProfile(q) \/ UpdateProfile(q)
  PROVE  ResumeTypeOK'
<1> USE ResumeAssumption DEF ResumeTypeOK
<1>1. ASSUME NEW c \in Candidates, NEW h \in Headlines \cup {None}, BeginUpsert(q, c, h)
      PROVE  ResumeTypeOK'
  <2>1. request'[q] \in Upsert
    BY <1>1 DEF BeginUpsert, Upsert
  <2> QED BY <1>1, <2>1 DEF BeginUpsert
<1>2. CASE InsertProfile(q)
  <2>1. request[q] \in Upsert
    BY <1>2, Kinded DEF InsertProfile, Active
  <2>2. profiles' \in 1..MaxProfiles
    BY <1>2 DEF InsertProfile
  <2> DEFINE row == [id |-> profiles', headline |-> request[q].headline,
                     key |-> None, name |-> None]
  <2>3. row \in Profile
    BY <2>1, <2>2 DEF Upsert, Profile
  <2>4. request[q].user \in Candidates
    BY <2>1 DEF Upsert
  <2>5. profile' = [profile EXCEPT ![request[q].user] = row]
    BY <1>2 DEF InsertProfile
  <2>6. request' = [request EXCEPT ![q] = [request[q] EXCEPT !.pc = "refresh", !.loaded = row]]
    BY <1>2, <2>4, <2>5 DEF InsertProfile
  <2>7. [request[q] EXCEPT !.pc = "refresh", !.loaded = row] \in Upsert
    BY <2>1, <2>3 DEF Upsert
  <2>8. UNCHANGED <<bucket, index, matcher, files, committed, disturbed>>
    BY <1>2 DEF InsertProfile
  <2> HIDE DEF row
  <2> QED BY <2>2, <2>3, <2>4, <2>5, <2>6, <2>7, <2>8
<1>3. CASE UpdateProfile(q)
  <2>1. request[q] \in Upsert
    BY <1>3, Kinded DEF UpdateProfile, Active
  <2>2. request[q].user \in Candidates /\ request[q].headline \in Headlines \cup {None}
    BY <2>1 DEF Upsert
  <2>3. [request[q] EXCEPT !.pc = "refresh"] \in Upsert
    BY <2>1 DEF Upsert
  <2>4. profile' \in [Candidates -> Profile \cup {None}]
    <3>1. CASE UNCHANGED profile
      BY <3>1
    <3>2. CASE StillThere(q) /\ profile' = [profile EXCEPT ![request[q].user].headline =
                                                           request[q].headline]
      <4>1. profile[request[q].user] \in Profile
        BY <2>2, <3>2, RowTyped DEF StillThere
      <4>2. [profile[request[q].user] EXCEPT !.headline = request[q].headline] \in Profile
        BY <2>2, <4>1 DEF Profile
      <4> QED BY <2>2, <3>2, <4>2
    <3> QED BY <1>3, <3>1, <3>2 DEF UpdateProfile
  <2> QED BY <1>3, <2>3, <2>4 DEF UpdateProfile
<1> QED BY <1>1, <1>2, <1>3

LEMMA UploadTypes ==
  ASSUME ResumeTypeOK, NEW q \in Requests,
         \/ \E c \in Candidates, n \in Names, k \in Kinds : BeginUpload(q, c, n, k)
         \/ PutObject(q) \/ CommitUpload(q) \/ IndexResume(q)
  PROVE  ResumeTypeOK'
<1> USE ResumeAssumption DEF ResumeTypeOK
<1>1. ASSUME NEW c \in Candidates, NEW n \in Names, NEW k \in Kinds, BeginUpload(q, c, n, k)
      PROVE  ResumeTypeOK'
  <2>1. files' \in 1..MaxFiles /\ profile[c] \in Profile
    BY <1>1, RowTyped DEF BeginUpload
  <2>2. [user |-> c, id |-> files', name |-> n] \in Key
    BY <2>1 DEF Key
  <2>3. request'[q] \in Upload
    BY <1>1, <2>1, <2>2 DEF BeginUpload, Upload
  <2> QED BY <1>1, <2>1, <2>3 DEF BeginUpload
<1>2. CASE PutObject(q)
  <2>1. request[q] \in Upload
    BY <1>2, Kinded DEF PutObject
  <2>2. request[q].key \in Key /\ [request[q] EXCEPT !.pc = "commit"] \in Upload
    BY <2>1, StageTyped DEF Upload
  <2> QED BY <1>2, <2>2 DEF PutObject
<1>3. CASE CommitUpload(q)
  <2>1. request[q] \in Upload
    BY <1>3, Kinded DEF CommitUpload, Active, Uploads
  <2> DEFINE u == request[q].user
             key == request[q].key
             name == IF key.name # request[q].loaded.name THEN key.name ELSE profile[u].name
  <2>2. u \in Candidates /\ key \in Key /\ key.name \in Names
    BY <2>1 DEF Upload, Key
  <2>3. profile[u] \in Profile
    BY <1>3, <2>2, RowTyped DEF CommitUpload, StillThere
  <2>4. [profile[u] EXCEPT !.key = key, !.name = name] \in Profile
    BY <2>2, <2>3 DEF Profile
  <2>5. profile' = [profile EXCEPT ![u] = [profile[u] EXCEPT !.key = key, !.name = name]]
    BY <1>3, <2>2 DEF CommitUpload
  <2>6. Raced(u, q) \in [Requests -> Requested]
    BY <2>2, RacedTyped
  <2>7. Raced(u, q)[q] \in Upload
    BY <2>1, <2>2, RacedRequest, Kinded
  <2>8. request' = [Raced(u, q) EXCEPT ![q] = [Raced(u, q)[q] EXCEPT !.pc = "refresh"]]
    BY <1>3, <2>6 DEF CommitUpload
  <2>9. request' \in [Requests -> Requested]
    BY <2>6, <2>7, <2>8, StageTyped DEF Requested
  <2> HIDE DEF name
  <2> QED BY <1>3, <2>2, <2>4, <2>5, <2>9 DEF CommitUpload, Requested
<1>4. CASE IndexResume(q)
  <2>1. request[q] \in Upload
    BY <1>4, Kinded DEF IndexResume
  <2>2. /\ request[q].key \in Key /\ request[q].user \in Candidates
        /\ [request[q] EXCEPT !.pc = "reply"] \in Upload
    BY <2>1, StageTyped DEF Upload
  <2> QED BY <1>4, <2>2 DEF IndexResume
<1> QED BY <1>1, <1>2, <1>3, <1>4

LEMMA OtherTypes ==
  ASSUME ResumeTypeOK, NEW q \in Requests,
         RefuseUpload(q) \/ Refresh(q) \/ Reply(q) \/ Abort(q)
  PROVE  ResumeTypeOK'
<1> USE ResumeAssumption DEF ResumeTypeOK
<1>1. CASE RefuseUpload(q)
  BY <1>1 DEF RefuseUpload, vars
<1>2. CASE Refresh(q)
  <2>1. Active(q)
    BY <1>2 DEF Refresh, Active
  <2>2. request[q] \in Upsert \cup Upload /\ request[q].user \in Candidates
    BY <2>1, Kinded DEF Upsert, Upload
  <2>3. profile[request[q].user] \in Profile
    BY <1>2, <2>2, RowTyped DEF Refresh, StillThere
  <2> DEFINE next == IF request[q].op = "upload" THEN "index" ELSE "reply"
             new == [request[q] EXCEPT !.pc = next, !.loaded = profile[request[q].user]]
  <2>4. new \in Upsert \cup Upload
    BY <2>2, <2>3 DEF Upsert, Upload
  <2>5. request' = [request EXCEPT ![q] = new]
    BY <1>2 DEF Refresh
  <2>6. UNCHANGED <<profile, bucket, index, matcher, files, profiles, committed, disturbed>>
    BY <1>2 DEF Refresh
  <2> HIDE DEF new
  <2> QED BY <2>4, <2>5, <2>6
<1>3. CASE Reply(q)
  BY <1>3 DEF Reply
<1>4. CASE Abort(q)
  <2>1. request[q].user \in Candidates
    BY <1>4, Kinded DEF Abort, Upsert, Upload
  <2> QED BY <1>4, <2>1 DEF Abort
<1> HIDE DEF ResumeTypeOK
<1> QED BY <1>1, <1>2, <1>3, <1>4

LEMMA RemovalTypes ==
  ASSUME ResumeTypeOK, NEW c \in Candidates, RemoveProfile(c)
  PROVE  ResumeTypeOK'
<1>1. request' \in [Requests -> Requested]
  BY RacedTyped DEF RemoveProfile
<1> QED BY <1>1 DEF RemoveProfile, Requested, ResumeTypeOK

LEMMA MatchingTypes ==
  ASSUME ResumeTypeOK, NEW m \in Matchers,
         \/ QueryIndex(m) \/ EndMatching(m)
         \/ \E c \in Candidates : ReadProfile(m, c)
  PROVE  /\ ResumeTypeOK'
         /\ UNCHANGED <<profile, bucket, index, request, files, profiles, committed, disturbed>>
<1> USE DEF ResumeTypeOK
<1>1. CASE QueryIndex(m)
  BY <1>1 DEF QueryIndex, Indexed
<1>2. CASE EndMatching(m)
  BY <1>2 DEF EndMatching, NoMatcher
<1>3. ASSUME NEW c \in Candidates, ReadProfile(m, c)
      PROVE  /\ ResumeTypeOK'
             /\ UNCHANGED <<profile, bucket, index, request, files, profiles, committed,
                            disturbed>>
  <2> DEFINE shown == IF profile[c] # None THEN matcher[m].shown \cup {c} ELSE matcher[m].shown
             new == [matcher[m] EXCEPT !.left = matcher[m].left \ {c}, !.shown = shown]
  <2>1. new \in [pc : {"idle", "profiles"}, left : SUBSET Candidates, shown : SUBSET Candidates]
    OBVIOUS
  <2>2. matcher' = [matcher EXCEPT ![m] = new]
    BY <1>3 DEF ReadProfile
  <2>3. UNCHANGED <<profile, bucket, index, request, files, profiles, committed, disturbed>>
    BY <1>3 DEF ReadProfile
  <2> HIDE DEF new
  <2> QED BY <2>1, <2>2, <2>3
<1> QED BY <1>1, <1>2, <1>3

-----------------------------------------------------------------------------
(* What a step leaves of the uploads.                                      *)

\* No upload begins or goes on, though one may end.
Fewer == Uploads' \subseteq Uploads /\ \A p \in Uploads' : request'[p] = request[p]

\* A row that is there keeps its key and its file name, and none comes with
\* a key.
RowKept(c) ==
  /\ profile[c] # None => /\ profile'[c] # None
                          /\ profile'[c].key = profile[c].key
                          /\ profile'[c].name = profile[c].name
  /\ profile[c] = None => profile'[c] = None \/ profile'[c].key = None

RowsKept == \A c \in Candidates : RowKept(c)

\* Of undisturbed candidates, the uploads that are to be indexed stay the same.
SameToIndex ==
  /\ disturbed \subseteq disturbed'
  /\ \A c \in Candidates \ disturbed' :
       /\ ToIndex(c)' = ToIndex(c)
       /\ \A q \in ToIndex(c) : request'[q].key = request[q].key

LEMMA Moved ==
  ASSUME ResumeTypeOK, NEW q \in Requests, NEW r, request' = [request EXCEPT ![q] = r]
  PROVE  /\ request'[q] = r
         /\ \A p \in Requests \ {q} : request'[p] = request[p]
         /\ \A p \in Requests \ {q} : p \in Uploads' <=> p \in Uploads
         /\ q \in Uploads' <=> r.pc # "idle" /\ r.op = "upload"
BY DEF ResumeTypeOK, Uploads, Active

LEMMA MovedAway ==
  ASSUME ResumeTypeOK, NEW q \in Requests, NEW r, request' = [request EXCEPT ![q] = r],
         r.pc = "idle" \/ r.op # "upload"
  PROVE  Fewer
<1>1. Uploads' \subseteq Requests
  BY DEF Uploads
<1> QED BY <1>1, Moved DEF Fewer

LEMMA UpsertSteps ==
  ASSUME ResumeTypeOK, NEW q \in Requests,
         \/ \E c \in Candidates, h \in Headlines \cup {None} : BeginUpsert(q, c, h)
         \/ InsertProfile(q) \/ UpdateProfile(q)
  PROVE  Fewer /\ RowsKept
<1>1. ASSUME NEW c \in Candidates, NEW h \in Headlines \cup {None}, BeginUpsert(q, c, h)
      PROVE  Fewer /\ RowsKept
  <2> DEFINE r == [pc |-> "commit", op |-> "upsert", user |-> c, headline |-> h,
                   loaded |-> profile[c]]
  <2>1. request' = [request EXCEPT ![q] = r] /\ UNCHANGED profile
    BY <1>1 DEF BeginUpsert
  <2>2. r.op = "upsert"
    OBVIOUS
  <2> HIDE DEF r
  <2>3. Fewer
    BY <2>1, <2>2, MovedAway
  <2> QED BY <2>1, <2>3 DEF RowsKept, RowKept
<1>2. CASE InsertProfile(q)
  <2>1. request[q] \in Upsert /\ q \notin Uploads
    BY <1>2, Kinded DEF InsertProfile, Active, Uploads
  <2>2. request[q].user \in Candidates
    BY <2>1 DEF Upsert
  <2> DEFINE r == [request[q] EXCEPT !.pc = "refresh", !.loaded = profile'[request[q].user]]
  <2>3. request' = [request EXCEPT ![q] = r]
    <3>1. profile'[request[q].user] = [id |-> profiles', headline |-> request[q].headline,
                                       key |-> None, name |-> None]
      BY <1>2, <2>2 DEF InsertProfile, ResumeTypeOK
    <3> QED BY <1>2, <3>1 DEF InsertProfile
  <2>4. r.op = "upsert"
    BY <2>1 DEF Upsert
  <2>5. Fewer
    <3> HIDE DEF r
    <3> QED BY <2>3, <2>4, MovedAway
  <2>6. RowsKept
    BY <1>2, <2>2 DEF InsertProfile, RowsKept, RowKept, ResumeTypeOK
  <2> QED BY <2>5, <2>6
<1>3. CASE UpdateProfile(q)
  <2>1. request[q] \in Upsert /\ q \notin Uploads
    BY <1>3, Kinded DEF UpdateProfile, Active, Uploads
  <2>2. request[q].user \in Candidates
    BY <2>1 DEF Upsert
  <2> DEFINE r == [request[q] EXCEPT !.pc = "refresh"]
  <2>3. request' = [request EXCEPT ![q] = r]
    BY <1>3 DEF UpdateProfile
  <2>4. r.op = "upsert"
    BY <2>1 DEF Upsert
  <2>5. Fewer
    <3> HIDE DEF r
    <3> QED BY <2>3, <2>4, MovedAway
  <2>6. RowsKept
    <3>1. CASE UNCHANGED profile
      BY <3>1 DEF RowsKept, RowKept
    <3>2. CASE StillThere(q) /\ profile' = [profile EXCEPT ![request[q].user].headline =
                                                           request[q].headline]
      <4>1. profile[request[q].user] \in Profile
        BY <2>2, <3>2, RowTyped DEF StillThere
      <4> DEFINE row == [profile[request[q].user] EXCEPT !.headline = request[q].headline]
      <4>2. /\ row.key = profile[request[q].user].key
            /\ row.name = profile[request[q].user].name
        BY <4>1 DEF Profile
      <4>3. row # None
        BY <4>1, <2>1, ResumeAssumption DEF Profile, Upsert
      <4>4. profile' = [profile EXCEPT ![request[q].user] = row]
        BY <2>2, <3>2
      <4>5. profile[request[q].user] # None
        BY <3>2 DEF StillThere
      <4> HIDE DEF row
      <4> QED BY <2>2, <4>2, <4>3, <4>4, <4>5 DEF RowsKept, RowKept, ResumeTypeOK
    <3> QED BY <1>3, <3>1, <3>2 DEF UpdateProfile
  <2> QED BY <2>5, <2>6
<1> QED BY <1>1, <1>2, <1>3

LEMMA EndingSteps ==
  ASSUME ResumeTypeOK, NEW q \in Requests,
         \/ Reply(q) \/ Abort(q) \/ RefuseUpload(q)
         \/ /\ Refresh(q)
            /\ q \notin Uploads
  PROVE  Fewer /\ RowsKept /\ UNCHANGED <<profile, bucket, index, committed>>
<1>1. CASE Reply(q) \/ Abort(q)
  <2>1. request' = [request EXCEPT ![q] = NoRequest]
    BY <1>1 DEF Reply, Abort
  <2>2. Fewer
    <3>1. NoRequest.pc = "idle"
      BY DEF NoRequest
    <3> QED BY <2>1, <3>1, MovedAway
  <2> QED BY <1>1, <2>2 DEF Reply, Abort, RowsKept, RowKept
<1>2. CASE Refresh(q) /\ q \notin Uploads
  <2> DEFINE r == [request[q] EXCEPT
                     !.pc = IF request[q].op = "upload" THEN "index" ELSE "reply",
                     !.loaded = profile[request[q].user]]
  <2>1. request[q] \in Upsert /\ r.op = "upsert"
    BY <1>2, Kinded DEF Refresh, Active, Upsert
  <2>2. request' = [request EXCEPT ![q] = r]
    BY <1>2 DEF Refresh
  <2>3. Fewer
    <3> HIDE DEF r
    <3> QED BY <2>1, <2>2, MovedAway
  <2> QED BY <1>2, <2>3 DEF Refresh, RowsKept, RowKept
<1>3. CASE RefuseUpload(q)
  BY <1>3 DEF RefuseUpload, Fewer, RowsKept, RowKept, Uploads, Active, vars
<1> QED BY <1>1, <1>2, <1>3

LEMMA FewerSound ==
  ASSUME ResumeTypeOK, UploadsSound, Fewer, RowsKept, UNCHANGED <<bucket, committed>>
  PROVE  UploadsSound'
<1>1. ASSUME NEW p \in Uploads'
      PROVE  Sound(request'[p], profile', bucket', committed')
  <2>1. p \in Uploads /\ request'[p] = request[p]
    BY <1>1 DEF Fewer
  <2>2. request[p].user \in Candidates
    BY <2>1, Kinded DEF Upload, Uploads
  <2>3. Sound(request[p], profile, bucket, committed)
    BY <2>1 DEF UploadsSound
  <2> QED BY <2>1, <2>2, <2>3 DEF Sound, RowsKept, RowKept
<1> QED BY <1>1 DEF UploadsSound

-----------------------------------------------------------------------------
(* Uploads that go on.                                                     *)

LEMMA AdvanceSound ==
  ASSUME ResumeTypeOK, UploadsSound,
         NEW q \in Requests, NEW r, request' = [request EXCEPT ![q] = r],
         Sound(r, profile, bucket', committed),
         bucket \subseteq bucket', UNCHANGED <<profile, committed>>
  PROVE  UploadsSound'
<1>1. ASSUME NEW p \in Uploads'
      PROVE  Sound(request'[p], profile', bucket', committed')
  <2>1. p \in Requests
    BY <1>1 DEF Uploads
  <2>2. CASE p = q
    BY <2>2, Moved
  <2>3. CASE p # q
    <3>1. p \in Uploads /\ request'[p] = request[p]
      BY <1>1, <2>1, <2>3, Moved
    <3>2. Sound(request[p], profile, bucket, committed)
      BY <3>1 DEF UploadsSound
    <3> QED BY <3>1, <3>2 DEF Sound
  <2> QED BY <2>2, <2>3
<1> QED BY <1>1 DEF UploadsSound

LEMMA UploadGoesOn ==
  ASSUME ResumeTypeOK, UploadsSound, NEW q \in Requests,
         \/ \E c \in Candidates, n \in Names, k \in Kinds : BeginUpload(q, c, n, k)
         \/ PutObject(q) \/ IndexResume(q)
         \/ /\ Refresh(q)
            /\ q \in Uploads
  PROVE  UploadsSound'
<1>1. ASSUME NEW c \in Candidates, NEW n \in Names, NEW k \in Kinds, BeginUpload(q, c, n, k)
      PROVE  UploadsSound'
  <2> DEFINE r == [pc |-> "put", op |-> "upload", user |-> c,
                   kind |-> k, loaded |-> profile[c],
                   key |-> [user |-> c, id |-> files', name |-> n],
                   raced |-> {}]
  <2>1. request' = [request EXCEPT ![q] = r] /\ profile[c] # None
    BY <1>1 DEF BeginUpload
  <2>2. UNCHANGED <<profile, bucket, committed>>
    BY <1>1 DEF BeginUpload
  <2>3. Sound(r, profile, bucket', committed)
    BY <2>1 DEF Sound
  <2> HIDE DEF r
  <2> QED BY <2>1, <2>2, <2>3, AdvanceSound
<1>2. CASE PutObject(q)
  <2>1. request[q] \in Upload /\ Sound(request[q], profile, bucket, committed)
    BY <1>2, Kinded DEF PutObject, UploadsSound
  <2> DEFINE r == [request[q] EXCEPT !.pc = "commit"]
  <2>2. /\ request' = [request EXCEPT ![q] = r]
        /\ bucket' = bucket \cup {request[q].key}
        /\ request[q].pc = "put"
        /\ UNCHANGED <<profile, committed>>
    BY <1>2 DEF PutObject
  <2>3. Sound(r, profile, bucket', committed)
    BY <2>1, <2>2 DEF Sound, Upload
  <2> HIDE DEF r
  <2> QED BY <2>2, <2>3, AdvanceSound
<1>3. CASE IndexResume(q)
  <2>1. request[q] \in Upload /\ Sound(request[q], profile, bucket, committed)
    BY <1>3, Kinded DEF IndexResume, UploadsSound
  <2> DEFINE r == [request[q] EXCEPT !.pc = "reply"]
  <2>2. /\ request' = [request EXCEPT ![q] = r]
        /\ request[q].pc = "index"
        /\ UNCHANGED <<bucket, profile, committed>>
    BY <1>3 DEF IndexResume
  <2>3. Sound(r, profile, bucket', committed)
    BY <2>1, <2>2 DEF Sound, Upload
  <2> HIDE DEF r
  <2> QED BY <2>2, <2>3, AdvanceSound
<1>4. CASE Refresh(q) /\ q \in Uploads
  <2>1. request[q] \in Upload /\ Sound(request[q], profile, bucket, committed)
    BY <1>4, Kinded DEF UploadsSound
  <2> DEFINE r == [request[q] EXCEPT !.pc = "index", !.loaded = profile[request[q].user]]
  <2>2. /\ request' = [request EXCEPT ![q] = r]
        /\ request[q].pc = "refresh"
        /\ UNCHANGED <<bucket, profile, committed>>
    BY <1>4, <2>1 DEF Refresh, Upload
  <2>3. Sound(r, profile, bucket', committed)
    BY <2>1, <2>2 DEF Sound, Upload
  <2> HIDE DEF r
  <2> QED BY <2>2, <2>3, AdvanceSound
<1> QED BY <1>1, <1>2, <1>3, <1>4

\* A commit of another upload, or the removal of the row, is on the record of
\* those it met, so they promise nothing about the row any more.
LEMMA RacedSound ==
  ASSUME ResumeTypeOK, NEW c \in Candidates, NEW q, NEW p \in Uploads, p # q,
         Sound(request[p], profile, bucket, committed),
         NEW rows, \A d \in Candidates \ {c} : rows[d] = profile[d],
         NEW done, committed \subseteq done
  PROVE  Sound(Raced(c, q)[p], rows, bucket, done)
<1> DEFINE r == Raced(c, q)[p]
<1>1. request[p] \in Upload /\ p \in Requests
  BY Kinded DEF Uploads
<1>2. /\ r.pc = request[p].pc /\ r.user = request[p].user
      /\ r.key = request[p].key /\ r.loaded = request[p].loaded
  BY RacedUpload
<1>3. /\ request[p].raced \subseteq r.raced
      /\ request[p].user = c =>
           (IF Early(p) THEN "before" ELSE "after") \in r.raced
  BY <1>1, RacedRequest
<1>4. request[p].user \in Candidates
  BY <1>1 DEF Upload
<1> HIDE DEF r
<1>5. ASSUME request[p].user = c
      PROVE  Sound(r, rows, bucket, done)
  BY <1>2, <1>3, <1>5 DEF Sound, Early
<1>6. ASSUME request[p].user # c
      PROVE  Sound(r, rows, bucket, done)
  <2>1. rows[request[p].user] = profile[request[p].user]
    BY <1>4, <1>6
  <2> QED BY <1>2, <1>3, <2>1 DEF Sound
<1>7. Sound(r, rows, bucket, done)
  BY <1>5, <1>6
<1> QED BY <1>7 DEF r

LEMMA CommitSound ==
  ASSUME ResumeTypeOK, UploadsSound, NEW q \in Requests, CommitUpload(q)
  PROVE  UploadsSound'
<1> DEFINE u == request[q].user
           key == request[q].key
           name == IF key.name # request[q].loaded.name THEN key.name ELSE profile[u].name
           row == [profile[u] EXCEPT !.key = key, !.name = name]
           raced == Raced(u, q)
           r == [raced[q] EXCEPT !.pc = "refresh"]
<1>1. request[q] \in Upload /\ q \in Uploads
  BY Kinded DEF CommitUpload, Active, Uploads
<1>2. u \in Candidates
  BY <1>1 DEF Upload
<1>3. profile[u] \in Profile
  BY <1>2, RowTyped DEF CommitUpload, StillThere
<1>4. profile' = [profile EXCEPT ![u] = row]
  BY <1>2 DEF CommitUpload, ResumeTypeOK
<1>5. row \in Profile /\ row.key = key /\ row.name = name
  BY <1>1, <1>3 DEF Profile, Upload, Key
<1>6. profile'[u] = row /\ \A d \in Candidates \ {u} : profile'[d] = profile[d]
  BY <1>2, <1>4 DEF ResumeTypeOK
<1>7. /\ request' = [raced EXCEPT ![q] = r]
      /\ committed' = committed \cup {key}
      /\ bucket' = bucket
  BY DEF CommitUpload
<1>8. raced \in [Requests -> Requested]
  BY <1>2, RacedTyped
<1>9. r.pc = "refresh" /\ r.user = u /\ r.key = key /\ r.raced = request[q].raced
  <2>1. raced[q] = request[q]
    BY DEF Raced
  <2> QED BY <1>1, <2>1 DEF Upload
<1>10. Sound(request[q], profile, bucket, committed) /\ request[q].pc = "commit"
  BY <1>1 DEF UploadsSound, CommitUpload
<1>11. Sound(r, profile', bucket', committed')
  <2>1. row # None
    BY <1>5, ResumeAssumption
  <2> HIDE DEF r, row
  <2>2. "before" \notin request[q].raced => row.name = key.name
    BY <1>5, <1>10 DEF Sound
  <2>3. key \in bucket /\ key.user = u
    BY <1>10 DEF Sound
  <2> QED BY <1>5, <1>6, <1>7, <1>9, <2>1, <2>2, <2>3 DEF Sound
<1>12. ASSUME NEW p \in Uploads'
       PROVE  Sound(request'[p], profile', bucket', committed')
  <2>1. p \in Requests
    BY DEF Uploads
  <2>2. CASE p = q
    BY <1>7, <1>8, <1>11, <2>1, <2>2
  <2>3. CASE p # q
    <3>1. request'[p] = raced[p]
      BY <1>7, <1>8, <2>1, <2>3
    <3>2. p \in Uploads
      <4> SUFFICES ASSUME p \notin Uploads
                   PROVE  FALSE
        OBVIOUS
      <4>1. request'[p] = request[p]
        BY <1>2, <2>1, <3>1, RacedOther
      <4> QED BY <2>1, <4>1 DEF Uploads, Active
    <3>3. Sound(request[p], profile, bucket, committed)
      BY <3>2 DEF UploadsSound
    <3>4. Sound(raced[p], profile', bucket, committed')
      BY <1>2, <1>6, <1>7, <2>3, <3>2, <3>3, RacedSound
    <3> QED BY <1>7, <3>1, <3>4
  <2> QED BY <2>2, <2>3
<1> QED BY <1>12 DEF UploadsSound

LEMMA RemoveSound ==
  ASSUME ResumeTypeOK, UploadsSound, NEW c \in Candidates, RemoveProfile(c)
  PROVE  UploadsSound'
<1>1. ASSUME NEW p \in Uploads'
      PROVE  Sound(request'[p], profile', bucket', committed')
  <2>1. p \in Requests /\ p # None
    BY ResumeAssumption DEF Uploads
  <2>2. request'[p] = Raced(c, None)[p]
    BY DEF RemoveProfile
  <2>3. p \in Uploads
    <3> SUFFICES ASSUME p \notin Uploads
                 PROVE  FALSE
      OBVIOUS
    <3>1. request'[p] = request[p]
      BY <2>1, <2>2, RacedOther
    <3> QED BY <2>1, <3>1 DEF Uploads, Active
  <2>4. Sound(request[p], profile, bucket, committed)
    BY <2>3 DEF UploadsSound
  <2>5. \A d \in Candidates \ {c} : profile'[d] = profile[d]
    BY DEF RemoveProfile, ResumeTypeOK
  <2>6. bucket' = bucket /\ committed' = committed
    BY DEF RemoveProfile
  <2> QED BY <2>1, <2>2, <2>3, <2>4, <2>5, <2>6, RacedSound
<1> QED BY <1>1 DEF UploadsSound

-----------------------------------------------------------------------------
(* What is indexed, and what is behind.                                    *)

LEMMA StoredKept ==
  ASSUME ResumeStored, RowsKept, bucket \subseteq bucket'
  PROVE  ResumeStored'
BY DEF ResumeStored, RowsKept, RowKept

LEMMA StoredByCommit ==
  ASSUME ResumeTypeOK, UploadsSound, ResumeStored, NEW q \in Requests, CommitUpload(q)
  PROVE  ResumeStored'
<1> DEFINE u == request[q].user
           key == request[q].key
<1>1. request[q] \in Upload /\ q \in Uploads
  BY Kinded DEF CommitUpload, Active, Uploads
<1>2. u \in Candidates
  BY <1>1 DEF Upload
<1>3. key \in bucket /\ key.user = u
  BY <1>1 DEF UploadsSound, Sound, CommitUpload
<1>4. profile[u] \in Profile
  BY <1>2, RowTyped DEF CommitUpload, StillThere
<1>5. profile'[u].key = key /\ \A d \in Candidates \ {u} : profile'[d] = profile[d]
  BY <1>2, <1>4 DEF CommitUpload, ResumeTypeOK, Profile
<1>6. bucket' = bucket
  BY DEF CommitUpload
<1> QED BY <1>2, <1>3, <1>5, <1>6 DEF ResumeStored

LEMMA CommittedSteps ==
  ASSUME ResumeTypeOK, UploadsSound, Committed, Next
  PROVE  Committed'
<1>1. committed \subseteq committed'
  BY DEF Next, BeginUpsert, BeginUpload, RefuseUpload, InsertProfile, UpdateProfile,
         PutObject, CommitUpload, IndexResume, Refresh, Reply, Abort, RemoveProfile,
         QueryIndex, EndMatching, ReadProfile, vars
<1>2. IndexCommitted'
  <2>1. CASE UNCHANGED index
    BY <1>1, <2>1 DEF Committed, IndexCommitted
  <2>2. ASSUME NEW q \in Requests, IndexResume(q),
               index' = [index EXCEPT ![request[q].user] = request[q].key]
        PROVE  IndexCommitted'
    <3>1. q \in Uploads /\ request[q].pc = "index"
      BY <2>2, Kinded DEF IndexResume
    <3>2. request[q].key \in committed /\ request[q].key.user = request[q].user
      BY <3>1 DEF UploadsSound, Sound
    <3> QED BY <1>1, <2>2, <3>2 DEF Committed, IndexCommitted, ResumeTypeOK
  <2> QED BY <2>1, <2>2 DEF Next, BeginUpsert, BeginUpload, RefuseUpload, InsertProfile,
         UpdateProfile, PutObject, CommitUpload, IndexResume, Refresh, Reply, Abort,
         RemoveProfile, QueryIndex, EndMatching, ReadProfile, vars
<1>3. MatchesCommitted'
  <2>1. CASE UNCHANGED matcher
    BY <1>1, <2>1 DEF Committed, MatchesCommitted
  <2>2. ASSUME NEW m \in Matchers, QueryIndex(m)
        PROVE  MatchesCommitted'
    <3>1. \A c \in Indexed : \E k \in committed : k.user = c
      BY DEF Committed, IndexCommitted, Indexed
    <3>2. PICK found \in SUBSET Indexed :
            matcher' = [matcher EXCEPT ![m] = [pc |-> "profiles", left |-> found, shown |-> {}]]
      BY <2>2 DEF QueryIndex
    <3>3. /\ matcher'[m].left = found
          /\ matcher'[m].shown = {}
          /\ \A n \in Matchers \ {m} : matcher'[n] = matcher[n]
      BY <3>2 DEF ResumeTypeOK
    <3> QED BY <1>1, <3>1, <3>3 DEF Committed, MatchesCommitted
  <2>3. ASSUME NEW m \in Matchers, EndMatching(m)
        PROVE  MatchesCommitted'
    <3>1. /\ matcher'[m] = NoMatcher
          /\ \A n \in Matchers \ {m} : matcher'[n] = matcher[n]
      BY <2>3 DEF EndMatching, ResumeTypeOK
    <3> QED BY <1>1, <3>1 DEF Committed, MatchesCommitted, NoMatcher
  <2>4. ASSUME NEW m \in Matchers, NEW c \in Candidates, ReadProfile(m, c)
        PROVE  MatchesCommitted'
    <3>1. /\ matcher'[m].left \cup matcher'[m].shown \subseteq
               matcher[m].left \cup matcher[m].shown
          /\ \A n \in Matchers \ {m} : matcher'[n] = matcher[n]
      BY <2>4 DEF ReadProfile, ResumeTypeOK
    <3> QED BY <1>1, <3>1 DEF Committed, MatchesCommitted
  <2> QED BY <2>1, <2>2, <2>3, <2>4 DEF Next, BeginUpsert, BeginUpload, RefuseUpload,
         InsertProfile, UpdateProfile, PutObject, CommitUpload, IndexResume, Refresh,
         Reply, Abort, RemoveProfile, vars
<1> QED BY <1>2, <1>3 DEF Committed

-----------------------------------------------------------------------------
(* How far the index is behind.                                            *)

Pending(r) == r.pc \in {"refresh", "index"} /\ r.op = "upload"

LEMMA MovedToIndex ==
  ASSUME ResumeTypeOK, disturbed \subseteq disturbed',
         NEW q \in Requests, NEW r, request' = [request EXCEPT ![q] = r],
         Pending(r) => q \in ToIndex(r.user) /\ r.key = request[q].key,
         \A c \in Candidates \ disturbed' : q \in ToIndex(c) => Pending(r) /\ r.user = c
  PROVE  SameToIndex
<1>1. ASSUME NEW c \in Candidates \ disturbed', NEW p \in Requests
      PROVE  /\ p \in ToIndex(c)' <=> p \in ToIndex(c)
             /\ p \in ToIndex(c) => request'[p].key = request[p].key
  <2>1. CASE p = q
    <3>1. request'[p] = r
      BY <2>1, Moved, ZenonT(30)
    <3>2. q \in ToIndex(r.user) => request[q].user = r.user
      BY DEF ToIndex
    <3>3. p \in ToIndex(c)' <=> Pending(r) /\ r.user = c
      BY <3>1 DEF ToIndex, Pending
    <3> QED BY <2>1, <3>1, <3>2, <3>3
  <2>2. CASE p # q
    <3>1. request'[p] = request[p]
      BY <2>2, Moved
    <3> QED BY <3>1 DEF ToIndex
  <2> QED BY <2>1, <2>2
<1>2. ASSUME NEW c \in Candidates \ disturbed'
      PROVE  /\ ToIndex(c)' = ToIndex(c)
             /\ \A p \in ToIndex(c) : request'[p].key = request[p].key
  <2>1. ToIndex(c) \subseteq Requests /\ ToIndex(c)' \subseteq Requests
    BY DEF ToIndex
  <2> QED BY <1>1, <2>1
<1> QED BY <1>2 DEF SameToIndex

LEMMA FollowsKept ==
  ASSUME Follows, SameToIndex, UNCHANGED index,
         \A c \in Candidates \ disturbed' : RowKept(c)
  PROVE  Follows'
<1>1. ASSUME NEW c \in Candidates \ disturbed'
      PROVE  /\ c \in Candidates \ disturbed
             /\ ToIndex(c)' = ToIndex(c)
             /\ \A q \in ToIndex(c) : request'[q].key = request[q].key
             /\ RowKept(c)
  BY DEF SameToIndex
<1>2. OneToIndex'
  <2> SUFFICES ASSUME NEW c \in Candidates \ disturbed', NEW q \in ToIndex(c)'
               PROVE  /\ ToIndex(c)' = {q}
                      /\ profile'[c] # None
                      /\ profile'[c].key = request'[q].key
    BY DEF OneToIndex
  <2>1. /\ ToIndex(c) = {q}
        /\ profile[c] # None
        /\ profile[c].key = request[q].key
    BY <1>1 DEF Follows, OneToIndex
  <2> QED BY <1>1, <2>1 DEF RowKept
<1>3. IndexFollowsProfile'
  <2> SUFFICES ASSUME NEW c \in Candidates \ disturbed', ToIndex(c)' = {}
               PROVE  index'[c] = IF profile'[c] = None THEN None ELSE profile'[c].key
    BY DEF IndexFollowsProfile
  <2>1. index[c] = IF profile[c] = None THEN None ELSE profile[c].key
    BY <1>1 DEF Follows, IndexFollowsProfile
  <2> QED BY <1>1, <2>1 DEF RowKept
<1> QED BY <1>2, <1>3 DEF Follows

LEMMA SameSteps ==
  ASSUME ResumeTypeOK, NEW q \in Requests,
         \/ \E c \in Candidates, h \in Headlines \cup {None} : BeginUpsert(q, c, h)
         \/ \E c \in Candidates, n \in Names, k \in Kinds : BeginUpload(q, c, n, k)
         \/ InsertProfile(q) \/ UpdateProfile(q) \/ PutObject(q)
         \/ RefuseUpload(q) \/ Refresh(q) \/ Reply(q) \/ Abort(q)
  PROVE  SameToIndex
<1>1. ASSUME NEW c \in Candidates, NEW h \in Headlines \cup {None}, BeginUpsert(q, c, h)
      PROVE  SameToIndex
  <2> DEFINE r == [pc |-> "commit", op |-> "upsert", user |-> c, headline |-> h,
                   loaded |-> profile[c]]
  <2>1. request' = [request EXCEPT ![q] = r] /\ disturbed' = disturbed
    BY <1>1 DEF BeginUpsert
  <2>2. ~Pending(r) /\ \A d \in Candidates : q \notin ToIndex(d)
    BY <1>1 DEF Pending, ToIndex, BeginUpsert, Active
  <2> HIDE DEF r
  <2> QED BY <2>1, <2>2, MovedToIndex
<1>2. ASSUME NEW c \in Candidates, NEW n \in Names, NEW k \in Kinds, BeginUpload(q, c, n, k)
      PROVE  SameToIndex
  <2> DEFINE r == [pc |-> "put", op |-> "upload", user |-> c,
                   kind |-> k, loaded |-> profile[c],
                   key |-> [user |-> c, id |-> files', name |-> n],
                   raced |-> {}]
  <2>1. request' = [request EXCEPT ![q] = r] /\ disturbed' = disturbed
    BY <1>2 DEF BeginUpload
  <2>2. ~Pending(r) /\ \A d \in Candidates : q \notin ToIndex(d)
    BY <1>2 DEF Pending, ToIndex, BeginUpload, Active
  <2> HIDE DEF r
  <2> QED BY <2>1, <2>2, MovedToIndex
<1>3. CASE InsertProfile(q) \/ UpdateProfile(q)
  <2>1. request[q] \in Upsert /\ q \notin Uploads
    BY <1>3, Kinded DEF InsertProfile, UpdateProfile, Active, Uploads
  <2>2. PICK row : request' = [request EXCEPT ![q] =
                                 [request[q] EXCEPT !.pc = "refresh", !.loaded = row]]
    <3>1. ASSUME UpdateProfile(q)
          PROVE  request' = [request EXCEPT ![q] =
                   [request[q] EXCEPT !.pc = "refresh", !.loaded = request[q].loaded]]
      <4>1. [request[q] EXCEPT !.pc = "refresh"] =
              [request[q] EXCEPT !.pc = "refresh", !.loaded = request[q].loaded]
        BY <2>1 DEF Upsert
      <4> QED BY <3>1, <4>1 DEF UpdateProfile
    <3>2. ASSUME InsertProfile(q)
          PROVE  request' = [request EXCEPT ![q] =
                   [request[q] EXCEPT !.pc = "refresh", !.loaded = profile'[request[q].user]]]
      <4>1. profile'[request[q].user] = [id |-> profiles', headline |-> request[q].headline,
                                         key |-> None, name |-> None]
        BY <2>1, <3>2 DEF InsertProfile, ResumeTypeOK, Upsert
      <4> QED BY <3>2, <4>1 DEF InsertProfile
    <3> QED BY <1>3, <3>1, <3>2
  <2> DEFINE r == [request[q] EXCEPT !.pc = "refresh", !.loaded = row]
  <2>3. ~Pending(r) /\ \A d \in Candidates : q \notin ToIndex(d)
    BY <2>1 DEF Pending, ToIndex, Upsert
  <2>4. disturbed' = disturbed
    BY <1>3 DEF InsertProfile, UpdateProfile
  <2> HIDE DEF r
  <2>5. request' = [request EXCEPT ![q] = r]
    BY <2>2 DEF r
  <2> QED BY <2>3, <2>4, <2>5, MovedToIndex
<1>4. CASE PutObject(q)
  <2> DEFINE r == [request[q] EXCEPT !.pc = "commit"]
  <2>1. request[q] \in Upload
    BY <1>4, Kinded DEF PutObject
  <2>2. request' = [request EXCEPT ![q] = r] /\ disturbed' = disturbed
    BY <1>4 DEF PutObject
  <2>3. ~Pending(r) /\ \A d \in Candidates : q \notin ToIndex(d)
    BY <1>4, <2>1 DEF Pending, ToIndex, PutObject, Upload
  <2> HIDE DEF r
  <2> QED BY <2>2, <2>3, MovedToIndex
<1>5. CASE Refresh(q)
  <2> DEFINE r == [request[q] EXCEPT
                     !.pc = IF request[q].op = "upload" THEN "index" ELSE "reply",
                     !.loaded = profile[request[q].user]]
  <2>1. request[q] \in Upsert \cup Upload
    BY <1>5, Kinded DEF Refresh, Active
  <2>2. request' = [request EXCEPT ![q] = r] /\ disturbed' = disturbed
    BY <1>5 DEF Refresh
  <2>3. /\ r.op = request[q].op /\ r.user = request[q].user
        /\ r.pc = IF request[q].op = "upload" THEN "index" ELSE "reply"
        /\ r.op = "upload" => r.key = request[q].key
    BY <2>1 DEF Upsert, Upload
  <2>4. request[q].pc = "refresh"
    BY <1>5 DEF Refresh
  <2> HIDE DEF r
  <2>5. Pending(r) => q \in ToIndex(r.user) /\ r.key = request[q].key
    BY <2>3, <2>4 DEF Pending, ToIndex
  <2>6. \A d \in Candidates : q \in ToIndex(d) => Pending(r) /\ r.user = d
    BY <2>3 DEF Pending, ToIndex
  <2> QED BY <2>2, <2>5, <2>6, MovedToIndex
<1>6. CASE Reply(q) \/ Abort(q)
  <2>1. request' = [request EXCEPT ![q] = NoRequest] /\ ~Pending(NoRequest)
    BY <1>6 DEF Reply, Abort, NoRequest, Pending
  <2>2. disturbed \subseteq disturbed'
    BY <1>6 DEF Reply, Abort
  <2>3. \A d \in Candidates \ disturbed' : q \notin ToIndex(d)
    BY <1>6 DEF Reply, Abort, ToIndex
  <2> QED BY <2>1, <2>2, <2>3, MovedToIndex
<1>7. CASE RefuseUpload(q)
  BY <1>7 DEF RefuseUpload, vars, SameToIndex, ToIndex
<1> QED BY <1>1, <1>2, <1>3, <1>4, <1>5, <1>6, <1>7

LEMMA RemovalSame ==
  ASSUME ResumeTypeOK, NEW c \in Candidates, RemoveProfile(c)
  PROVE  SameToIndex
<1>1. ASSUME NEW d \in Candidates, NEW p \in Requests
      PROVE  /\ p \in ToIndex(d)' <=> p \in ToIndex(d)
             /\ p \in ToIndex(d) => request'[p].key = request[p].key
  <2>1. request'[p] = Raced(c, None)[p]
    BY DEF RemoveProfile
  <2>2. CASE p \in Uploads
    <3>1. /\ request'[p].pc = request[p].pc
          /\ request'[p].op = request[p].op
          /\ request'[p].user = request[p].user
          /\ request'[p].key = request[p].key
      BY <2>1, <2>2, RacedUpload
    <3> QED BY <3>1 DEF ToIndex
  <2>3. CASE p \notin Uploads
    BY <2>1, <2>3, RacedOther DEF ToIndex
  <2> QED BY <2>2, <2>3
<1>2. ASSUME NEW d \in Candidates
      PROVE  ToIndex(d)' = ToIndex(d)
  BY <1>1 DEF ToIndex
<1>3. disturbed \subseteq disturbed'
  BY DEF RemoveProfile
<1>4. \A d \in Candidates : ToIndex(d) \subseteq Requests
  BY DEF ToIndex
<1> QED BY <1>1, <1>2, <1>3, <1>4 DEF SameToIndex

LEMMA CommitFollows ==
  ASSUME ResumeTypeOK, Follows, NEW q \in Requests, CommitUpload(q)
  PROVE  Follows'
<1> DEFINE u == request[q].user
           key == request[q].key
<1>1. request[q] \in Upload /\ q \in Uploads
  BY Kinded DEF CommitUpload, Active, Uploads
<1>2. u \in Candidates
  BY <1>1 DEF Upload
<1>3. profile[u] \in Profile
  BY <1>2, RowTyped DEF CommitUpload, StillThere
<1>4. /\ profile'[u] # None /\ profile'[u].key = key
      /\ \A d \in Candidates \ {u} : profile'[d] = profile[d]
  <2> DEFINE name == IF key.name # request[q].loaded.name THEN key.name ELSE profile[u].name
             row == [profile[u] EXCEPT !.key = key, !.name = name]
  <2>1. row \in Profile /\ row.key = key
    BY <1>1, <1>3 DEF Profile, Upload, Key
  <2>2. profile' = [profile EXCEPT ![u] = row]
    BY <1>2 DEF CommitUpload, ResumeTypeOK
  <2> HIDE DEF row
  <2> QED BY <1>2, <2>1, <2>2, ResumeAssumption DEF ResumeTypeOK
<1>5. /\ request'[q].pc = "refresh" /\ request'[q].op = "upload"
      /\ request'[q].user = u /\ request'[q].key = key
  <2>1. Raced(u, q)[q] = request[q]
    BY DEF Raced
  <2>2. Raced(u, q) \in [Requests -> Requested]
    BY <1>2, RacedTyped
  <2>3. request'[q] = [request[q] EXCEPT !.pc = "refresh"]
    BY <2>1, <2>2 DEF CommitUpload
  <2> QED BY <1>1, <2>3 DEF Upload
<1>6. ASSUME NEW p \in Requests \ {q}, NEW c \in Candidates
      PROVE  /\ p \in ToIndex(c)' <=> p \in ToIndex(c)
             /\ p \in ToIndex(c) => request'[p].key = request[p].key
  <2>1. request'[p] = Raced(u, q)[p]
    <3>1. Raced(u, q) \in [Requests -> Requested]
      BY <1>2, RacedTyped
    <3> QED BY <3>1 DEF CommitUpload
  <2>2. CASE p \in Uploads
    <3>1. /\ request'[p].pc = request[p].pc
          /\ request'[p].op = request[p].op
          /\ request'[p].user = request[p].user
          /\ request'[p].key = request[p].key
      BY <1>2, <2>1, <2>2, RacedUpload
    <3> QED BY <3>1 DEF ToIndex
  <2>3. CASE p \notin Uploads
    BY <1>2, <2>1, <2>3, RacedOther DEF ToIndex
  <2> QED BY <2>2, <2>3
<1>7. \A c \in Candidates : q \in ToIndex(c)' <=> c = u
  BY <1>5 DEF ToIndex
<1>8. \A c \in Candidates : q \notin ToIndex(c)
  BY DEF ToIndex, CommitUpload
<1>9. ASSUME NEW c \in Candidates
      PROVE  ToIndex(c)' = IF c = u THEN ToIndex(c) \cup {q} ELSE ToIndex(c)
  <2>1. ToIndex(c) \subseteq Requests /\ ToIndex(c)' \subseteq Requests
    BY DEF ToIndex
  <2>2. \A p \in Requests \ {q} : p \in ToIndex(c)' <=> p \in ToIndex(c)
    BY <1>6
  <2>3. q \in ToIndex(c)' <=> c = u
    BY <1>7
  <2>4. q \notin ToIndex(c)
    BY <1>8
  <2> HIDE DEF u
  <2> QED BY <2>1, <2>2, <2>3, <2>4
<1>10. /\ disturbed' = IF ToIndex(u) = {} THEN disturbed \ {u} ELSE disturbed \cup {u}
       /\ index' = index
  BY DEF CommitUpload
<1>11. OneToIndex'
  <2> SUFFICES ASSUME NEW c \in Candidates \ disturbed', NEW p \in ToIndex(c)'
               PROVE  /\ ToIndex(c)' = {p}
                      /\ profile'[c] # None
                      /\ profile'[c].key = request'[p].key
    BY DEF OneToIndex
  <2>1. CASE c = u
    <3>1. ToIndex(c) = {} /\ ToIndex(c)' = {q}
      BY <1>9, <1>10, <2>1
    <3> QED BY <1>4, <1>5, <2>1, <3>1
  <2>2. CASE c # u
    <3>1. c \in Candidates \ disturbed /\ p \in ToIndex(c) /\ ToIndex(c)' = ToIndex(c)
      BY <1>9, <1>10, <2>2
    <3>2. p \in Requests \ {q}
      BY <1>8, <3>1 DEF ToIndex
    <3> QED BY <1>4, <1>6, <2>2, <3>1, <3>2 DEF Follows, OneToIndex
  <2> QED BY <2>1, <2>2
<1>12. IndexFollowsProfile'
  <2> SUFFICES ASSUME NEW c \in Candidates \ disturbed', ToIndex(c)' = {}
               PROVE  index'[c] = IF profile'[c] = None THEN None ELSE profile'[c].key
    BY DEF IndexFollowsProfile
  <2>1. c # u /\ c \in Candidates \ disturbed /\ ToIndex(c) = {}
    BY <1>7, <1>9, <1>10
  <2> QED BY <1>4, <1>10, <2>1 DEF Follows, IndexFollowsProfile
<1> QED BY <1>11, <1>12 DEF Follows

LEMMA IndexFollows ==
  ASSUME ResumeTypeOK, Follows, NEW q \in Requests, IndexResume(q)
  PROVE  Follows'
<1> DEFINE u == request[q].user
           key == request[q].key
           r == [request[q] EXCEPT !.pc = "reply"]
<1>1. request[q] \in Upload /\ q \in Uploads
  BY Kinded DEF IndexResume
<1>2. u \in Candidates /\ q \in ToIndex(u)
  BY <1>1 DEF Upload, ToIndex, IndexResume
<1>3. request' = [request EXCEPT ![q] = r] /\ ~Pending(r)
  BY <1>1 DEF IndexResume, Pending, Upload
<1>4. ASSUME NEW c \in Candidates
      PROVE  /\ ToIndex(c)' = ToIndex(c) \ {q}
             /\ \A p \in ToIndex(c)' : request'[p] = request[p]
  <2> HIDE DEF r
  <2>1. ASSUME NEW p \in Requests \ {q}
        PROVE  request'[p] = request[p] /\ (p \in ToIndex(c)' <=> p \in ToIndex(c))
    BY <1>3, Moved DEF ToIndex
  <2>2. q \notin ToIndex(c)'
    BY <1>3, Moved DEF ToIndex, Pending
  <2>3. ToIndex(c) \subseteq Requests /\ ToIndex(c)' \subseteq Requests
    BY DEF ToIndex
  <2> QED BY <2>1, <2>2, <2>3
<1>5. \A c \in Candidates \ {u} : q \notin ToIndex(c)
  BY DEF ToIndex
<1>6. /\ profile' = profile
      /\ disturbed' \in {disturbed, disturbed \cup {u}}
      /\ u \in disturbed' \/ index'[u] = key
      /\ \A c \in Candidates \ {u} : index'[c] = index[c]
  BY <1>2 DEF IndexResume, ResumeTypeOK
<1>7. u \notin disturbed => /\ ToIndex(u) = {q}
                           /\ profile[u] # None
                           /\ profile[u].key = key
  BY <1>2 DEF Follows, OneToIndex
<1>8. OneToIndex'
  <2> SUFFICES ASSUME NEW c \in Candidates \ disturbed', NEW p \in ToIndex(c)'
               PROVE  /\ ToIndex(c)' = {p}
                      /\ profile'[c] # None
                      /\ profile'[c].key = request'[p].key
    BY DEF OneToIndex
  <2>1. c # u
    BY <1>4, <1>6, <1>7
  <2>2. c \in Candidates \ disturbed /\ ToIndex(c)' = ToIndex(c) /\ request'[p] = request[p]
    BY <1>4, <1>5, <1>6, <2>1
  <2> QED BY <1>6, <2>2 DEF Follows, OneToIndex
<1>9. IndexFollowsProfile'
  <2> SUFFICES ASSUME NEW c \in Candidates \ disturbed', ToIndex(c)' = {}
               PROVE  index'[c] = IF profile'[c] = None THEN None ELSE profile'[c].key
    BY DEF IndexFollowsProfile
  <2>1. CASE c = u
    BY <1>6, <1>7, <2>1
  <2>2. CASE c # u
    <3>1. c \in Candidates \ disturbed /\ ToIndex(c) = {}
      BY <1>4, <1>5, <1>6, <2>2
    <3> QED BY <1>6, <2>2, <3>1 DEF Follows, IndexFollowsProfile
  <2> QED BY <2>1, <2>2
<1> QED BY <1>8, <1>9 DEF Follows

-----------------------------------------------------------------------------
(* The theorems.                                                           *)

LEMMA InitResume == Init => ResumeInv
<1> SUFFICES ASSUME Init
             PROVE  ResumeInv
  OBVIOUS
<1>1. ResumeTypeOK
  BY ResumeAssumption DEF Init, ResumeTypeOK, NoMatcher
<1>2. Uploads = {} /\ \A c \in Candidates : ToIndex(c) = {}
  BY DEF Init, Uploads, ToIndex, Active, NoRequest
<1>3. UploadsSound /\ ResumeStored
  BY <1>2 DEF Init, UploadsSound, ResumeStored
<1>4. Committed
  BY DEF Init, Committed, IndexCommitted, MatchesCommitted, NoMatcher
<1>5. Follows
  BY <1>2 DEF Init, Follows, OneToIndex, IndexFollowsProfile
<1> QED BY <1>1, <1>3, <1>4, <1>5 DEF ResumeInv

LEMMA UpsertKeeps ==
  ASSUME ResumeInv, NEW q \in Requests,
         \/ \E c \in Candidates, h \in Headlines \cup {None} : BeginUpsert(q, c, h)
         \/ InsertProfile(q) \/ UpdateProfile(q)
  PROVE  ResumeTypeOK' /\ UploadsSound' /\ ResumeStored' /\ Follows'
<1> USE DEF ResumeInv
<1>1. ResumeTypeOK'
  BY UpsertTypes
<1>2. Fewer /\ RowsKept
  BY UpsertSteps
<1>3. UNCHANGED <<bucket, committed, index>>
  BY DEF BeginUpsert, InsertProfile, UpdateProfile
<1>4. SameToIndex
  BY SameSteps
<1>5. UploadsSound' /\ ResumeStored'
  BY <1>2, <1>3, FewerSound, StoredKept
<1>6. Follows'
  BY <1>2, <1>3, <1>4, FollowsKept DEF RowsKept
<1> QED BY <1>1, <1>5, <1>6

LEMMA UploadKeeps ==
  ASSUME ResumeInv, NEW q \in Requests,
         \/ \E c \in Candidates, n \in Names, k \in Kinds : BeginUpload(q, c, n, k)
         \/ PutObject(q) \/ CommitUpload(q) \/ IndexResume(q)
  PROVE  ResumeTypeOK' /\ UploadsSound' /\ ResumeStored' /\ Follows'
<1> USE DEF ResumeInv
<1>1. ResumeTypeOK'
  BY UploadTypes
<1>2. ASSUME \/ \E c \in Candidates, n \in Names, k \in Kinds : BeginUpload(q, c, n, k)
             \/ PutObject(q) \/ IndexResume(q)
      PROVE  UploadsSound' /\ ResumeStored'
  <2>1. RowsKept /\ bucket \subseteq bucket'
    BY <1>2 DEF BeginUpload, PutObject, IndexResume, RowsKept, RowKept
  <2> QED BY <1>2, <2>1, UploadGoesOn, StoredKept
<1>3. ASSUME \/ \E c \in Candidates, n \in Names, k \in Kinds : BeginUpload(q, c, n, k)
             \/ PutObject(q)
      PROVE  Follows'
  <2>1. UNCHANGED <<index, profile>> /\ \A c \in Candidates : RowKept(c)
    BY <1>3 DEF BeginUpload, PutObject, RowKept
  <2>2. SameToIndex
    BY <1>3, SameSteps
  <2> QED BY <2>1, <2>2, FollowsKept
<1>4. CASE CommitUpload(q)
  BY <1>1, <1>4, CommitSound, StoredByCommit, CommitFollows
<1>5. CASE IndexResume(q)
  BY <1>1, <1>2, <1>5, IndexFollows
<1> QED BY <1>1, <1>2, <1>3, <1>4, <1>5

LEMMA EndKeeps ==
  ASSUME ResumeInv, NEW q \in Requests,
         RefuseUpload(q) \/ Refresh(q) \/ Reply(q) \/ Abort(q)
  PROVE  ResumeTypeOK' /\ UploadsSound' /\ ResumeStored' /\ Follows'
<1> USE DEF ResumeInv
<1>1. ResumeTypeOK'
  BY OtherTypes
<1>2. SameToIndex
  BY SameSteps
<1>3. UNCHANGED <<profile, bucket, index, committed>>
  BY DEF RefuseUpload, Refresh, Reply, Abort, vars
<1>4. RowsKept
  BY <1>3 DEF RowsKept, RowKept
<1>5. UploadsSound'
  <2>1. CASE Refresh(q) /\ q \in Uploads
    BY <2>1, UploadGoesOn
  <2>2. CASE ~(Refresh(q) /\ q \in Uploads)
    BY <1>3, <2>2, EndingSteps, FewerSound
  <2> QED BY <2>1, <2>2
<1>6. ResumeStored' /\ Follows'
  BY <1>2, <1>3, <1>4, StoredKept, FollowsKept DEF RowsKept
<1> QED BY <1>1, <1>5, <1>6

LEMMA RemovalKeeps ==
  ASSUME ResumeInv, NEW c \in Candidates, RemoveProfile(c)
  PROVE  ResumeTypeOK' /\ UploadsSound' /\ ResumeStored' /\ Follows'
<1> USE DEF ResumeInv
<1>1. ResumeTypeOK' /\ UploadsSound' /\ SameToIndex
  BY RemovalTypes, RemoveSound, RemovalSame
<1>2. /\ profile'[c] = None /\ \A d \in Candidates \ {c} : profile'[d] = profile[d]
      /\ c \in disturbed' /\ UNCHANGED <<bucket, index>>
  BY DEF RemoveProfile, ResumeTypeOK
<1>3. ResumeStored'
  BY <1>2 DEF ResumeStored
<1>4. \A d \in Candidates \ disturbed' : RowKept(d)
  BY <1>2 DEF RowKept
<1>5. Follows'
  BY <1>1, <1>2, <1>4, FollowsKept
<1> QED BY <1>1, <1>3, <1>5

LEMMA MatchingKeeps ==
  ASSUME ResumeInv, UNCHANGED <<profile, bucket, index, request, committed, disturbed>>
  PROVE  UploadsSound' /\ ResumeStored' /\ Follows'
BY DEF ResumeInv, UploadsSound, Uploads, Active, Sound, ResumeStored, Follows, OneToIndex,
       IndexFollowsProfile, ToIndex

LEMMA NextResume == ResumeInv /\ [Next]_vars => ResumeInv'
<1> SUFFICES ASSUME ResumeInv, [Next]_vars
             PROVE  ResumeInv'
  OBVIOUS
<1>1. CASE Next
  <2>1. Committed'
    BY <1>1, CommittedSteps DEF ResumeInv
  <2>2. ASSUME NEW q \in Requests,
               \/ \E c \in Candidates, h \in Headlines \cup {None} : BeginUpsert(q, c, h)
               \/ InsertProfile(q) \/ UpdateProfile(q)
        PROVE  ResumeInv'
    BY <2>1, <2>2, UpsertKeeps DEF ResumeInv
  <2>3. ASSUME NEW q \in Requests,
               \/ \E c \in Candidates, n \in Names, k \in Kinds : BeginUpload(q, c, n, k)
               \/ PutObject(q) \/ CommitUpload(q) \/ IndexResume(q)
        PROVE  ResumeInv'
    BY <2>1, <2>3, UploadKeeps DEF ResumeInv
  <2>4. ASSUME NEW q \in Requests,
               RefuseUpload(q) \/ Refresh(q) \/ Reply(q) \/ Abort(q)
        PROVE  ResumeInv'
    BY <2>1, <2>4, EndKeeps DEF ResumeInv
  <2>5. ASSUME NEW c \in Candidates, RemoveProfile(c)
        PROVE  ResumeInv'
    BY <2>1, <2>5, RemovalKeeps DEF ResumeInv
  <2>6. ASSUME NEW m \in Matchers,
               \/ QueryIndex(m) \/ EndMatching(m)
               \/ \E c \in Candidates : ReadProfile(m, c)
        PROVE  ResumeInv'
    <3>1. /\ ResumeTypeOK'
          /\ UNCHANGED <<profile, bucket, index, request, committed, disturbed>>
      BY <2>6, MatchingTypes DEF ResumeInv
    <3> QED BY <2>1, <3>1, MatchingKeeps DEF ResumeInv
  <2> QED BY <1>1, <2>2, <2>3, <2>4, <2>5, <2>6 DEF Next
<1>2. CASE UNCHANGED vars
  <2>1. UploadsSound' /\ ResumeStored' /\ Follows'
    BY <1>2, MatchingKeeps DEF vars
  <2>2. ResumeTypeOK' /\ Committed'
    BY <1>2 DEF ResumeInv, ResumeTypeOK, Committed, IndexCommitted, MatchesCommitted, vars
  <2> QED BY <2>1, <2>2 DEF ResumeInv
<1> QED BY <1>1, <1>2

\* The invariant that the promises rest on.
THEOREM ResumeInvHolds == Spec => []ResumeInv
BY InitResume, NextResume, PTL DEF Spec

\* The three stores and the requests are always what the model says they are.
THEOREM TypeCorrect == Spec => []ResumeTypeOK
<1>1. ResumeInv => ResumeTypeOK
  BY DEF ResumeInv
<1> QED BY <1>1, ResumeInvHolds, PTL

\* A profile's key is always that of a stored file of its candidate, so
\* GET /me/resume-url never signs a URL to nothing.
THEOREM ResumeAlwaysStored == Spec => []ResumeStored
<1>1. ResumeInv => ResumeStored
  BY DEF ResumeInv
<1> QED BY <1>1, ResumeInvHolds, PTL

\* What is searchable, and who is shown as a match, was always committed by an
\* upload of that candidate.
THEOREM OnlyCommittedEverIndexed == Spec => []OnlyCommittedIndexed
<1>1. ResumeInv => OnlyCommittedIndexed
  BY DEF ResumeInv, Committed, IndexCommitted, MatchesCommitted, OnlyCommittedIndexed
<1> QED BY <1>1, ResumeInvHolds, PTL

\* An upload that is about to be answered, and that no other followed, is what
\* the profile row shows, however edits and uploads interleave.
THEOREM AckedUploadAlwaysStored == Spec => []AckedUploadStored
<1>1. ResumeInv => AckedUploadStored
  <2> SUFFICES ASSUME ResumeInv,
                      NEW q \in Requests, request[q].pc = "reply",
                      request[q].op = "upload", "after" \notin request[q].raced
               PROVE  /\ profile[request[q].user] # None
                      /\ profile[request[q].user].key = request[q].key
                      /\ \/ profile[request[q].user].name = request[q].key.name
                         \/ "before" \in request[q].raced
    BY DEF AckedUploadStored
  <2>1. q \in Uploads
    BY DEF Uploads, Active
  <2> QED BY <2>1 DEF ResumeInv, UploadsSound, Sound
<1> QED BY <1>1, ResumeInvHolds, PTL

\* The index is behind the profile only for a reason on record.
THEOREM IndexAlwaysFollows == Spec => []IndexFollowsProfile
<1>1. ResumeInv => IndexFollowsProfile
  BY DEF ResumeInv, Follows
<1> QED BY <1>1, ResumeInvHolds, PTL

-----------------------------------------------------------------------------
(* No key comes twice.                                                     *)

\* Keys are numbered by files; each is that of one upload, and is committed
\* once, by that upload.
KeysOnce ==
  /\ \A k \in committed : k.id <= files
  /\ \A q \in Uploads : request[q].key.id <= files
  /\ \A q \in Uploads : Early(q) => request[q].key \notin committed
  /\ \A p, q \in Uploads : request[p].key = request[q].key => p = q

\* Uploads that end or go on, and none that begins or commits.
LEMMA KeysKept ==
  ASSUME KeysOnce, UNCHANGED <<files, committed>>,
         \A p \in Uploads' : /\ p \in Uploads
                             /\ request'[p].key = request[p].key
                             /\ request'[p].pc \in {"put", "commit"} => Early(p)
  PROVE  KeysOnce'
BY DEF KeysOnce, Early

LEMMA FewerKeys ==
  ASSUME KeysOnce, Fewer, UNCHANGED <<files, committed>>
  PROVE  KeysOnce'
BY KeysKept DEF Fewer, Early

LEMMA StageKeys ==
  ASSUME ResumeTypeOK, KeysOnce, NEW q \in Uploads, NEW r,
         request' = [request EXCEPT ![q] = r], UNCHANGED <<files, committed>>,
         r.key = request[q].key, r.pc \in {"put", "commit"} => Early(q)
  PROVE  KeysOnce'
<1>1. q \in Requests
  BY DEF Uploads
<1>2. ASSUME NEW p \in Uploads'
      PROVE  /\ p \in Uploads
             /\ request'[p].key = request[p].key
             /\ request'[p].pc \in {"put", "commit"} => Early(p)
  <2>1. p \in Requests
    BY <1>2 DEF Uploads
  <2>2. CASE p = q
    BY <1>1, <2>2, Moved
  <2>3. CASE p # q
    BY <1>1, <1>2, <2>1, <2>3, Moved DEF Early
  <2> QED BY <2>2, <2>3
<1> QED BY <1>2, KeysKept

\* The uuid4 of a new file is like no other.
LEMMA NewKey ==
  ASSUME ResumeTypeOK, KeysOnce, NEW q \in Requests, NEW c \in Candidates,
         NEW n \in Names, NEW k \in Kinds, BeginUpload(q, c, n, k)
  PROVE  KeysOnce'
<1> DEFINE key == [user |-> c, id |-> files', name |-> n]
           r == [pc |-> "put", op |-> "upload", user |-> c, kind |-> k,
                 loaded |-> profile[c], key |-> key, raced |-> {}]
<1>1. /\ request' = [request EXCEPT ![q] = r] /\ committed' = committed
      /\ files' = files + 1 /\ q \notin Uploads
  BY DEF BeginUpload, Uploads
<1>2. files \in Nat /\ key.id = files + 1 /\ r.key = key /\ r.pc = "put" /\ r.op = "upload"
  BY <1>1, ResumeAssumption DEF ResumeTypeOK
<1>3. \A j \in committed : j.id \in Nat /\ j.id <= files
  BY ResumeAssumption DEF KeysOnce, ResumeTypeOK, Key
<1>4. \A p \in Uploads : request[p].key.id \in Nat /\ request[p].key.id <= files
  BY ResumeAssumption, Kinded DEF KeysOnce, Upload, Key, Uploads
<1> HIDE DEF r, key
<1>5. key \notin committed /\ \A p \in Uploads : request[p].key # key
  BY <1>2, <1>3, <1>4
<1>6. \A p \in Uploads' : \/ p = q
                          \/ p \in Uploads /\ p # q /\ request'[p] = request[p]
  BY <1>1, Moved DEF Uploads
<1>7. request'[q] = r
  BY <1>1, Moved
<1>8. \A j \in committed' : j.id <= files'
  BY <1>1, <1>2, <1>3
<1>9. \A p \in Uploads' : request'[p].key.id <= files'
  BY <1>1, <1>2, <1>4, <1>6, <1>7
<1>10. \A p \in Uploads' : Early(p)' => request'[p].key \notin committed'
  BY <1>1, <1>2, <1>5, <1>6, <1>7 DEF KeysOnce, Early
<1>11. \A p, s \in Uploads' : request'[p].key = request'[s].key => p = s
  BY <1>2, <1>5, <1>6, <1>7 DEF KeysOnce
<1> QED BY <1>8, <1>9, <1>10, <1>11 DEF KeysOnce

\* The commit of an upload, which leaves a mark on the uploads it meets.
LEMMA CommitKeys ==
  ASSUME ResumeTypeOK, KeysOnce, NEW q \in Requests, CommitUpload(q)
  PROVE  KeysOnce'
<1> DEFINE c == request[q].user
           key == request[q].key
           r == [Raced(c, q)[q] EXCEPT !.pc = "refresh"]
<1>1. request[q] \in Upload /\ q \in Uploads
  BY Kinded DEF CommitUpload, Active, Uploads
<1>2. c \in Candidates
  BY <1>1 DEF Upload
<1>3. /\ request' = [Raced(c, q) EXCEPT ![q] = r]
      /\ committed' = committed \cup {key} /\ files' = files
  BY DEF CommitUpload
<1>4. Raced(c, q) \in [Requests -> Requested]
  BY <1>2, RacedTyped
<1>5. request'[q] = r /\ r.pc = "refresh" /\ r.key = key
  <2>1. Raced(c, q)[q] \in Upload /\ Raced(c, q)[q].key = key
    BY <1>1, <1>2, RacedUpload
  <2> QED BY <1>3, <1>4, <2>1 DEF Upload
<1>6. ASSUME NEW p \in Uploads', p # q
      PROVE  p \in Uploads /\ request'[p].key = request[p].key
               /\ request'[p].pc = request[p].pc
  <2>1. p \in Requests /\ request'[p] = Raced(c, q)[p]
    BY <1>3, <1>4, <1>6 DEF Uploads
  <2>2. p \in Uploads
    <3> SUFFICES ASSUME p \notin Uploads
                 PROVE  FALSE
      OBVIOUS
    <3>1. request'[p] = request[p]
      BY <1>2, <2>1, RacedOther
    <3> QED BY <1>6, <2>1, <3>1 DEF Uploads, Active
  <2> QED BY <1>2, <2>1, <2>2, RacedUpload
<1> HIDE DEF r, key
<1>7. key.id <= files /\ \A p \in Uploads : request[p].key = key => p = q
  BY <1>1 DEF KeysOnce, key
<1>8. \A k \in committed' : k.id <= files'
  BY <1>3, <1>7 DEF KeysOnce
<1>9. \A p \in Uploads' : request'[p].key.id <= files'
  BY <1>3, <1>5, <1>6, <1>7 DEF KeysOnce
<1>10. \A p \in Uploads' : Early(p)' => request'[p].key \notin committed'
  BY <1>3, <1>5, <1>6, <1>7 DEF KeysOnce, Early
<1>11. \A p, s \in Uploads' : request'[p].key = request'[s].key => p = s
  BY <1>5, <1>6, <1>7 DEF KeysOnce
<1> QED BY <1>8, <1>9, <1>10, <1>11 DEF KeysOnce

LEMMA RemovalKeys ==
  ASSUME ResumeTypeOK, KeysOnce, NEW c \in Candidates, RemoveProfile(c)
  PROVE  KeysOnce'
<1>1. ASSUME NEW p \in Uploads'
      PROVE  /\ p \in Uploads
             /\ request'[p].key = request[p].key
             /\ request'[p].pc \in {"put", "commit"} => Early(p)
  <2>1. p \in Requests /\ request'[p] = Raced(c, None)[p]
    BY <1>1 DEF Uploads, RemoveProfile
  <2>2. p \in Uploads
    <3> SUFFICES ASSUME p \notin Uploads
                 PROVE  FALSE
      OBVIOUS
    <3>1. request'[p] = request[p]
      BY <2>1, RacedOther
    <3> QED BY <1>1, <2>1, <3>1 DEF Uploads, Active
  <2> QED BY <2>1, <2>2, RacedUpload DEF Early
<1>2. UNCHANGED <<files, committed>>
  BY DEF RemoveProfile
<1> QED BY <1>1, <1>2, KeysKept

LEMMA NextKeys == ResumeInv /\ KeysOnce /\ [Next]_vars => KeysOnce'
<1> SUFFICES ASSUME ResumeInv, KeysOnce, [Next]_vars
             PROVE  KeysOnce'
  OBVIOUS
<1>0. ResumeTypeOK
  BY DEF ResumeInv
<1>1. ASSUME NEW q \in Requests,
             \/ \E c \in Candidates, h \in Headlines \cup {None} : BeginUpsert(q, c, h)
             \/ InsertProfile(q) \/ UpdateProfile(q)
      PROVE  KeysOnce'
  <2>1. UNCHANGED <<files, committed>>
    BY <1>1 DEF BeginUpsert, InsertProfile, UpdateProfile
  <2> QED BY <1>0, <1>1, <2>1, UpsertSteps, FewerKeys
<1>2. ASSUME NEW q \in Requests, PutObject(q)
      PROVE  KeysOnce'
  <2> DEFINE r == [request[q] EXCEPT !.pc = "commit"]
  <2>1. q \in Uploads /\ request[q] \in Upload /\ Early(q)
    BY <1>0, <1>2, Kinded DEF PutObject, Early
  <2>2. request' = [request EXCEPT ![q] = r] /\ UNCHANGED <<files, committed>>
    BY <1>2 DEF PutObject
  <2>3. r.key = request[q].key
    BY <2>1 DEF Upload
  <2> HIDE DEF r
  <2> QED BY <1>0, <2>1, <2>2, <2>3, StageKeys
<1>3. ASSUME NEW q \in Requests, IndexResume(q)
      PROVE  KeysOnce'
  <2> DEFINE r == [request[q] EXCEPT !.pc = "reply"]
  <2>1. q \in Uploads /\ request[q] \in Upload
    BY <1>0, <1>3, Kinded DEF IndexResume
  <2>2. request' = [request EXCEPT ![q] = r] /\ UNCHANGED <<files, committed>>
    BY <1>3 DEF IndexResume
  <2>3. r.key = request[q].key /\ r.pc = "reply"
    BY <2>1 DEF Upload
  <2> HIDE DEF r
  <2> QED BY <1>0, <2>1, <2>2, <2>3, StageKeys
<1>4. ASSUME NEW q \in Uploads, Refresh(q)
      PROVE  KeysOnce'
  <2> DEFINE r == [request[q] EXCEPT !.pc = "index", !.loaded = profile[request[q].user]]
  <2>1. q \in Requests /\ request[q] \in Upload
    BY <1>0, Kinded DEF Uploads
  <2>2. request' = [request EXCEPT ![q] = r] /\ UNCHANGED <<files, committed>>
    BY <1>4, <2>1 DEF Refresh, Upload
  <2>3. r.key = request[q].key /\ r.pc = "index"
    BY <2>1 DEF Upload
  <2> HIDE DEF r
  <2> QED BY <1>0, <2>1, <2>2, <2>3, StageKeys
<1>5. ASSUME NEW q \in Requests,
             \/ Reply(q) \/ Abort(q) \/ RefuseUpload(q)
             \/ /\ Refresh(q)
                /\ q \notin Uploads
      PROVE  KeysOnce'
  <2>1. UNCHANGED <<files, committed>>
    BY <1>5 DEF Reply, Abort, RefuseUpload, Refresh, vars
  <2> QED BY <1>0, <1>5, <2>1, EndingSteps, FewerKeys
<1>6. CASE UNCHANGED <<request, files, committed>>
  <2>1. Uploads' = Uploads
    BY <1>6 DEF Uploads, Active
  <2> QED BY <1>6, <2>1, KeysKept DEF Early
<1>7. ASSUME NEW m \in Matchers,
             QueryIndex(m) \/ EndMatching(m) \/ \E c \in Candidates : ReadProfile(m, c)
      PROVE  KeysOnce'
  BY <1>6, <1>7 DEF QueryIndex, EndMatching, ReadProfile
<1>8. CASE UNCHANGED vars
  BY <1>6, <1>8 DEF vars
<1> QED
  BY <1>0, <1>1, <1>2, <1>3, <1>4, <1>5, <1>7, <1>8, NewKey, CommitKeys, RemovalKeys DEF Next

\* Edits and uploads of one profile do not undo each other, though each writes
\* to a row it loaded long before: an UPDATE holds only the fields that were
\* set (upsert_own_profile), and upload_resume makes up a key for each upload.
THEOREM EditsNeverUndo == Spec => EditsDoNotUndo
<1>1. Init => KeysOnce
  BY DEF Init, KeysOnce, Uploads, Active, NoRequest
<1>2. ResumeInv /\ KeysOnce /\ [Next]_vars =>
        [\A c \in Candidates :
           (profile[c] # None /\ profile'[c] # None /\ profile'[c] # profile[c]) =>
             \/ profile'[c].key = profile[c].key /\ profile'[c].name = profile[c].name
             \/ /\ profile'[c].headline = profile[c].headline
                /\ profile'[c].key \in Key \ committed]_vars
  <2> SUFFICES ASSUME ResumeInv, KeysOnce, Next,
                      NEW c \in Candidates,
                      profile[c] # None, profile'[c] # None, profile'[c] # profile[c]
               PROVE  \/ profile'[c].key = profile[c].key /\ profile'[c].name = profile[c].name
                      \/ /\ profile'[c].headline = profile[c].headline
                         /\ profile'[c].key \in Key \ committed
    OBVIOUS
  <2>0. ResumeTypeOK
    BY DEF ResumeInv
  <2>1. ASSUME NEW q \in Requests, InsertProfile(q) \/ UpdateProfile(q)
        PROVE  profile'[c].key = profile[c].key /\ profile'[c].name = profile[c].name
    BY <2>0, <2>1, UpsertSteps DEF RowsKept, RowKept
  <2>2. ASSUME NEW q \in Requests, CommitUpload(q)
        PROVE  /\ profile'[c].headline = profile[c].headline
               /\ profile'[c].key \in Key \ committed
    <3> DEFINE u == request[q].user
               key == request[q].key
               name == IF key.name # request[q].loaded.name THEN key.name ELSE profile[u].name
               row == [profile[u] EXCEPT !.key = key, !.name = name]
    <3>1. request[q] \in Upload /\ q \in Uploads /\ Early(q)
      BY <2>0, <2>2, Kinded DEF CommitUpload, Active, Uploads, Early
    <3>2. u \in Candidates /\ key \in Key
      BY <3>1 DEF Upload
    <3>3. profile[u] \in Profile
      BY <2>0, <2>2, <3>2, RowTyped DEF CommitUpload, StillThere
    <3>4. profile' = [profile EXCEPT ![u] = row]
      BY <2>0, <2>2, <3>2 DEF CommitUpload, ResumeTypeOK
    <3>5. row.headline = profile[u].headline /\ row.key = key
      BY <3>3 DEF Profile
    <3>6. key \notin committed
      BY <3>1 DEF KeysOnce
    <3> HIDE DEF row, key, u
    <3>7. c = u /\ profile'[c] = row
      BY <2>0, <3>2, <3>4 DEF ResumeTypeOK
    <3> QED BY <3>2, <3>5, <3>6, <3>7
  <2>3. ASSUME NEW d \in Candidates, RemoveProfile(d)
        PROVE  FALSE
    BY <2>0, <2>3 DEF RemoveProfile, ResumeTypeOK
  <2>4. profile' # profile
    OBVIOUS
  <2> QED
    BY <2>1, <2>2, <2>3, <2>4 DEF Next, BeginUpsert, BeginUpload, RefuseUpload, PutObject,
       IndexResume, Refresh, Reply, Abort, QueryIndex, EndMatching, ReadProfile, vars
<1> QED BY <1>1, <1>2, ResumeInvHolds, NextKeys, PTL DEF Spec, EditsDoNotUndo
=============================================================================
