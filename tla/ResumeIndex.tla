----------------------------- MODULE ResumeIndex -----------------------------
(***************************************************************************)
(* A candidate's profile and resume, kept in three stores that share no    *)
(* transaction: the profile row in Postgres, the file in the S3 bucket and *)
(* the embedding in Chroma, from which recruiters' matches are drawn       *)
(* (app/services/candidate_profile_service.py, app/ai/*.py,                *)
(* app/core/storage.py, get_matching_candidates of                         *)
(* app/services/job_posting_service.py).                                   *)
(*                                                                         *)
(* One action is one call to one store.  A file is known by the key it is  *)
(* stored under, whose uuid4 is a number never used twice; its embedding   *)
(* is known by the same key.  Of the text fields of a profile, headline    *)
(* stands for all: they are set and left alone together.                   *)
(***************************************************************************)
EXTENDS Naturals, FiniteSets

CONSTANTS Candidates,    \* users with the candidate role
          Requests,      \* requests of candidates: POST /me, POST /me/resume
          Matchers,      \* requests of recruiters: GET /jobs/{id}/matches
          Names,         \* file names
          Kinds,         \* content types that occur, see Indexable
          Headlines,     \* values of headline that are sent
          TopK,          \* top_k of a match request
          MaxFiles,      \* bound: files uploaded
          MaxProfiles,   \* bound: profile rows inserted
          None           \* None, NULL, no row, no document

\* resumes/{user_id}/{uuid4}_{filename}
Key == [user : Candidates, id : 1..MaxFiles, name : Names]

Profile == [id : 1..MaxProfiles, headline : Headlines \cup {None},
            key : Key \cup {None}, name : Names \cup {None}]

ASSUME ResumeAssumption ==
  /\ MaxFiles \in Nat /\ MaxProfiles \in Nat /\ TopK \in Nat
  /\ Kinds \subseteq {"pdf", "doc"}
  /\ None \notin Profile \cup Requests

VARIABLES profile,       \* profile[c]: the row of c, or None
          bucket,        \* keys of the objects in the bucket
          index,         \* index[c]: key of the file embedded for c, or None
          request,       \* request[q]: where q stands and what it loaded
          matcher,       \* matcher[m]: ids still to look up, matches so far
          files,         \* uuid4s given to files so far
          profiles,      \* uuid4s given to profile rows so far
          committed,     \* history: keys some commit put in a profile
          disturbed      \* history: candidates whose index may be behind

vars == <<profile, bucket, index, request, matcher, files, profiles,
          committed, disturbed>>

\* extract_text knows PDF only; DOC and DOCX raise UnsupportedResumeFormat.
Indexable(kind) == kind = "pdf"

NoRequest == [pc |-> "idle"]
NoMatcher == [pc |-> "idle", left |-> {}, shown |-> {}]

Init == /\ profile = [c \in Candidates |-> None]
        /\ bucket = {}
        /\ index = [c \in Candidates |-> None]
        /\ request = [q \in Requests |-> NoRequest]
        /\ matcher = [m \in Matchers |-> NoMatcher]
        /\ files = 0
        /\ profiles = 0
        /\ committed = {}
        /\ disturbed = {}

Active(q) == request[q].pc # "idle"

\* Uploads of c whose commit is done and whose embedding may still be written.
ToIndex(c) == {q \in Requests : /\ request[q].pc \in {"refresh", "index"}
                                /\ request[q].op = "upload"
                                /\ request[q].user = c}

\* The row a request holds is still there: an UPDATE or a refresh finds it.
StillThere(q) ==
  /\ profile[request[q].user] # None
  /\ request[q].loaded # None
  /\ profile[request[q].user].id = request[q].loaded.id

-----------------------------------------------------------------------------
(* POST /api/v1/candidates/me: upsert_own_profile.                         *)

\* h is None for a headline sent as null or blank, or not sent to a profile
\* that does not exist yet; one that equals the stored headline stands for a
\* body without it.
BeginUpsert(q, c, h) ==
  /\ ~Active(q)
  /\ request' = [request EXCEPT ![q] = [pc |-> "commit", op |-> "upsert", user |-> c,
                                        headline |-> h, loaded |-> profile[c]]]
  /\ UNCHANGED <<profile, bucket, index, matcher, files, profiles, committed,
                 disturbed>>

\* No row was found: INSERT.  user_id is unique, so the INSERT fails when
\* another request has inserted meanwhile, and only Abort is left.
InsertProfile(q) ==
  /\ request[q].pc = "commit" /\ request[q].op = "upsert"
  /\ request[q].loaded = None
  /\ profile[request[q].user] = None
  /\ profiles < MaxProfiles
  /\ profiles' = profiles + 1
  /\ profile' = [profile EXCEPT ![request[q].user] =
                   [id |-> profiles', headline |-> request[q].headline,
                    key |-> None, name |-> None]]
  /\ request' = [request EXCEPT ![q].pc = "refresh",
                                ![q].loaded = profile'[request[q].user]]
  /\ UNCHANGED <<bucket, index, matcher, files, committed, disturbed>>

\* Mutant: the UPDATE holds every column of the loaded row.
UpdateWholeProfile(q) ==
  /\ request[q].pc = "commit" /\ request[q].op = "upsert"
  /\ StillThere(q)
  /\ profile' = [profile EXCEPT ![request[q].user] =
                   [request[q].loaded EXCEPT !.headline = request[q].headline]]
  /\ request' = [request EXCEPT ![q].pc = "refresh"]
  /\ UNCHANGED <<bucket, index, matcher, files, profiles, committed, disturbed>>

\* A row was found: UPDATE of the fields sent that differ from it; no
\* statement when none differs; an error when the row is gone.
UpdateProfile(q) ==
  /\ request[q].pc = "commit" /\ request[q].op = "upsert"
  /\ request[q].loaded # None
  /\ \/ /\ request[q].headline # request[q].loaded.headline
        /\ StillThere(q)
        /\ profile' = [profile EXCEPT ![request[q].user].headline =
                                        request[q].headline]
     \/ /\ request[q].headline = request[q].loaded.headline
        /\ UNCHANGED profile
  /\ request' = [request EXCEPT ![q].pc = "refresh"]
  /\ UNCHANGED <<bucket, index, matcher, files, profiles, committed, disturbed>>

-----------------------------------------------------------------------------
(* POST /api/v1/candidates/me/resume: upload_resume.                       *)

\* The profile is read; type and size are checked; the key is made up.
\* raced is history: whether another request's commit set or dropped the
\* key "before" this one's commit, or "after" it.
BeginUpload(q, c, n, k) ==
  /\ ~Active(q)
  /\ profile[c] # None
  /\ files < MaxFiles
  /\ files' = files + 1
  /\ request' = [request EXCEPT ![q] = [pc |-> "put", op |-> "upload", user |-> c,
                                        kind |-> k, loaded |-> profile[c],
                                        key |-> [user |-> c, id |-> files', name |-> n],
                                        raced |-> {}]]
  /\ UNCHANGED <<profile, bucket, index, matcher, profiles, committed, disturbed>>

\* No profile (404), a type that is not allowed or more than 5 MB (422).
RefuseUpload(q) ==
  /\ ~Active(q)
  /\ UNCHANGED vars

\* Mutant: the upload to S3 is left to the client.
PutNothing(q) ==
  /\ request[q].pc = "put"
  /\ request' = [request EXCEPT ![q].pc = "commit"]
  /\ UNCHANGED <<profile, bucket, index, matcher, files, profiles, committed,
                 disturbed>>

PutObject(q) ==
  /\ request[q].pc = "put"
  /\ bucket' = bucket \cup {request[q].key}
  /\ request' = [request EXCEPT ![q].pc = "commit"]
  /\ UNCHANGED <<profile, index, matcher, files, profiles, committed, disturbed>>

\* The requests once every upload of c but q has it on record that the row's
\* key was written.
Raced(c, q) ==
  [p \in Requests |->
     IF p # q /\ Active(p) /\ request[p].op = "upload" /\ request[p].user = c
       THEN [request[p] EXCEPT !.raced = @ \cup
               {IF request[p].pc \in {"put", "commit"} THEN "before" ELSE "after"}]
       ELSE request[p]]

\* The key always differs from the loaded one; the file name is part of the
\* UPDATE only when it does.
CommitUpload(q) ==
  LET c == request[q].user
      key == request[q].key IN
  /\ request[q].pc = "commit" /\ request[q].op = "upload"
  /\ StillThere(q)
  /\ profile' = [profile EXCEPT
                   ![c].key = key,
                   ![c].name = IF key.name # request[q].loaded.name THEN key.name ELSE @]
  /\ request' = [Raced(c, q) EXCEPT ![q].pc = "refresh"]
  /\ committed' = committed \cup {key}
  /\ disturbed' = IF ToIndex(c) = {} THEN disturbed \ {c} ELSE disturbed \cup {c}
  /\ UNCHANGED <<bucket, index, matcher, files, profiles>>

\* Mutant: the resume is indexed before its row is committed.
IndexBeforeCommit(q) ==
  /\ request[q].pc = "commit" /\ request[q].op = "upload"
  /\ index' = [index EXCEPT ![request[q].user] = request[q].key]
  /\ UNCHANGED <<profile, bucket, request, matcher, files, profiles, committed,
                 disturbed>>

\* Mutant: collection.add, which keeps the document an id already has.
IndexByAdd(q) ==
  LET c == request[q].user IN
  /\ request[q].pc = "index"
  /\ request' = [request EXCEPT ![q].pc = "reply"]
  /\ \/ /\ Indexable(request[q].kind)
        /\ index' = [index EXCEPT ![c] = IF @ = None THEN request[q].key ELSE @]
        /\ UNCHANGED disturbed
     \/ /\ UNCHANGED index
        /\ disturbed' = disturbed \cup {c}
  /\ UNCHANGED <<profile, bucket, matcher, files, profiles, committed>>

\* _index_resume_for_search: the embedding replaces the one of c.  A format
\* without text extraction, a file without text, and any exception leave the
\* index as it is; the request goes on.
IndexResume(q) ==
  LET c == request[q].user IN
  /\ request[q].pc = "index"
  /\ request' = [request EXCEPT ![q].pc = "reply"]
  /\ \/ /\ Indexable(request[q].kind)
        /\ index' = [index EXCEPT ![c] = request[q].key]
        /\ UNCHANGED disturbed
     \/ /\ UNCHANGED index
        /\ disturbed' = disturbed \cup {c}
  /\ UNCHANGED <<profile, bucket, matcher, files, profiles, committed>>

-----------------------------------------------------------------------------
(* Both.                                                                   *)

Refresh(q) ==
  /\ request[q].pc = "refresh"
  /\ StillThere(q)
  /\ request' = [request EXCEPT ![q].pc = IF request[q].op = "upload" THEN "index"
                                                                       ELSE "reply",
                                ![q].loaded = profile[request[q].user]]
  /\ UNCHANGED <<profile, bucket, index, matcher, files, profiles, committed,
                 disturbed>>

Reply(q) ==
  /\ request[q].pc = "reply"
  /\ request' = [request EXCEPT ![q] = NoRequest]
  /\ UNCHANGED <<profile, bucket, index, matcher, files, profiles, committed,
                 disturbed>>

\* Mutant: a failed request leaves its thread holding the request.
AbortForgets(q) ==
  /\ Active(q)
  /\ request' = [request EXCEPT ![q] = [pc |-> "failed"]]
  /\ UNCHANGED <<profile, bucket, index, matcher, files, profiles, committed,
                 disturbed>>

\* A store fails under the request, its commit is refused, or its worker
\* dies: what was done in the other stores stays done.
Abort(q) ==
  /\ Active(q)
  /\ request' = [request EXCEPT ![q] = NoRequest]
  /\ disturbed' = IF \E c \in Candidates : q \in ToIndex(c)
                    THEN disturbed \cup {request[q].user} ELSE disturbed
  /\ UNCHANGED <<profile, bucket, index, matcher, files, profiles, committed>>

\* A profile row is deleted by hand or with its user (ON DELETE CASCADE): no
\* endpoint does it, get_matching_candidates provides for it.
RemoveProfile(c) ==
  /\ profile[c] # None
  /\ profile' = [profile EXCEPT ![c] = None]
  /\ request' = Raced(c, None)
  /\ disturbed' = disturbed \cup {c}
  /\ UNCHANGED <<bucket, index, matcher, files, profiles, committed>>

-----------------------------------------------------------------------------
(* GET /api/v1/jobs/{job_id}/matches: get_matching_candidates.             *)

Indexed == {c \in Candidates : index[c] # None}

\* query_similar_candidates: the top_k nearest documents, whichever they are.
QueryIndex(m) ==
  /\ matcher[m].pc = "idle"
  /\ \E found \in SUBSET Indexed :
       /\ Cardinality(found) = IF Cardinality(Indexed) < TopK
                                 THEN Cardinality(Indexed) ELSE TopK
       /\ matcher' = [matcher EXCEPT ![m] = [pc |-> "profiles", left |-> found,
                                             shown |-> {}]]
  /\ UNCHANGED <<profile, bucket, index, request, files, profiles, committed,
                 disturbed>>

\* One SELECT per match; a match without a profile is skipped.
ReadProfile(m, c) ==
  /\ matcher[m].pc = "profiles"
  /\ c \in matcher[m].left
  /\ matcher' = [matcher EXCEPT ![m].left = @ \ {c},
                                ![m].shown = IF profile[c] # None THEN @ \cup {c} ELSE @]
  /\ UNCHANGED <<profile, bucket, index, request, files, profiles, committed,
                 disturbed>>

\* The list is sent, or the request fails on the way.
EndMatching(m) ==
  /\ matcher[m].pc # "idle"
  /\ matcher' = [matcher EXCEPT ![m] = NoMatcher]
  /\ UNCHANGED <<profile, bucket, index, request, files, profiles, committed,
                 disturbed>>

Next ==
  \/ \E q \in Requests, c \in Candidates :
       \/ \E h \in Headlines \cup {None} : BeginUpsert(q, c, h)
       \/ \E n \in Names, k \in Kinds : BeginUpload(q, c, n, k)
  \/ \E q \in Requests :
       \/ RefuseUpload(q)
       \/ InsertProfile(q) \/ UpdateProfile(q)
       \/ PutObject(q) \/ CommitUpload(q) \/ IndexResume(q)
       \/ Refresh(q) \/ Reply(q) \/ Abort(q)
  \/ \E c \in Candidates : RemoveProfile(c)
  \/ \E m \in Matchers : \/ QueryIndex(m) \/ EndMatching(m)
                         \/ \E c \in Candidates : ReadProfile(m, c)

Spec == Init /\ [][Next]_vars

-----------------------------------------------------------------------------
(* What is promised.                                                       *)

Upsert == [pc : {"commit", "refresh", "reply"}, op : {"upsert"}, user : Candidates,
           headline : Headlines \cup {None}, loaded : Profile \cup {None}]
Upload == [pc : {"put", "commit", "refresh", "index", "reply"}, op : {"upload"},
           user : Candidates, kind : Kinds, loaded : Profile, key : Key,
           raced : SUBSET {"before", "after"}]

ResumeTypeOK ==
  /\ profile \in [Candidates -> Profile \cup {None}]
  /\ bucket \subseteq Key
  /\ index \in [Candidates -> Key \cup {None}]
  /\ request \in [Requests -> {NoRequest} \cup Upsert \cup Upload]
  /\ matcher \in [Matchers -> [pc : {"idle", "profiles"}, left : SUBSET Candidates,
                              shown : SUBSET Candidates]]
  /\ files \in 0..MaxFiles
  /\ profiles \in 0..MaxProfiles
  /\ committed \subseteq Key
  /\ disturbed \subseteq Candidates

\* A key in a profile is the key of an object in the bucket, and of a file of
\* that candidate: GET /me/resume-url never signs a URL to nothing, whatever
\* failed between the bucket and the commit.
ResumeStored ==
  \A c \in Candidates :
    (profile[c] # None /\ profile[c].key # None) =>
      profile[c].key \in bucket /\ profile[c].key.user = c

\* No file is searchable, and no candidate is shown as a match, on the strength
\* of an upload that was never committed.
OnlyCommittedIndexed ==
  /\ \A c \in Candidates :
       index[c] # None => index[c] \in committed /\ index[c].user = c
  /\ \A m \in Matchers : \A c \in matcher[m].shown : \E k \in committed : k.user = c

\* When an upload is about to be answered, and no other upload or removal came
\* after its commit, the profile has its key, and, unless another came between
\* its load and its commit, its file name too.
AckedUploadStored ==
  \A q \in Requests :
    (/\ request[q].pc = "reply"
     /\ request[q].op = "upload"
     /\ "after" \notin request[q].raced) =>
       /\ profile[request[q].user] # None
       /\ profile[request[q].user].key = request[q].key
       /\ \/ profile[request[q].user].name = request[q].key.name
          \/ "before" \in request[q].raced

\* Edits and uploads of one profile do not undo each other, whatever row each
\* of them loaded before: a step on a stored profile is an edit that leaves the
\* resume, or the commit of an upload that leaves the headline and brings a
\* key no commit has brought before, so a resume once replaced stays replaced.
EditsDoNotUndo ==
  [][\A c \in Candidates :
       (profile[c] # None /\ profile'[c] # None /\ profile'[c] # profile[c]) =>
         \/ profile'[c].key = profile[c].key /\ profile'[c].name = profile[c].name
         \/ /\ profile'[c].headline = profile[c].headline
            /\ profile'[c].key \in Key \ committed]_vars

\* The index is behind the profile only for a reason on record: a format that
\* is not indexed, an indexing that failed, a request that ended between its
\* commit and its indexing, two uploads that overlapped there, or a profile
\* that was removed; and the next undisturbed upload makes it right again.
IndexFollowsProfile ==
  \A c \in Candidates \ disturbed :
    ToIndex(c) = {} =>
      index[c] = IF profile[c] = None THEN None ELSE profile[c].key

\* "re-uploading a resume should replace the previous embedding": when an
\* upload that met no other is about to be answered, what is searchable is not
\* an earlier resume.
ReuploadReplaces ==
  \A q \in Requests :
    (/\ request[q].pc = "reply"
     /\ request[q].op = "upload"
     /\ request[q].raced = {}) => index[request[q].user] \in {None, request[q].key}
=============================================================================
