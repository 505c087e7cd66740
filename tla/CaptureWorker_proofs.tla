------------------------- MODULE CaptureWorker_proofs -------------------------
(***************************************************************************)
(* Proofs about CaptureWorker, for every number of workers, requests,      *)
(* posts, crashes and replays.  The argument: what the holder of the write *)
(* lock has written is, at every point of its program, a known change of   *)
(* the committed database (HolderOK); the change it commits keeps the      *)
(* database good and is a step of the pipeline (Step); and what a request  *)
(* has read still holds as long as its snapshot is not stale (ReaderOK).   *)
(***************************************************************************)
EXTENDS CaptureWorker, JobTable_proofs

Tables == UNION {[D -> JobRow] : D \in SUBSET JobIds}

Database ==
    [jobs : Tables, posts : SUBSET Keys, inbox : SUBSET Keys,
     features : SUBSET Keys, tokens : Int]

AtRest(row) ==
    /\ row.status # "running"
    /\ \A n \in DOMAIN row.attempts : row.attempts[n] # "running"

\* A database between two transactions.
Good(d) ==
    /\ d.posts = d.inbox
    /\ d.posts = {d.jobs[j].key : j \in DOMAIN d.jobs}
    /\ UniqueActive(d.jobs)
    /\ \A j \in DOMAIN d.jobs : AtRest(d.jobs[j])
    /\ \A k \in Keys :
        k \in d.features <=>
            \E j \in DOMAIN d.jobs :
                d.jobs[j].key = k /\ d.jobs[j].status = "completed"

QueuedKeys(d) == {k \in Keys : Active(d.jobs, k) # {}}

BuriedKeys(d) ==
    {k \in Keys : \E j \in DOMAIN d.jobs :
        d.jobs[j].key = k /\ d.jobs[j].status = "dead"}

\* The steps of CapturePipeline, and the stutter, from one database to another.
Accepts(d, e) ==
    \E k \in Keys :
        /\ k \notin d.posts
        /\ e.posts = d.posts \cup {k}
        /\ QueuedKeys(e) = QueuedKeys(d) \cup {k}
        /\ e.features = d.features
        /\ BuriedKeys(e) = BuriedKeys(d)

Finishes(d, e) ==
    \E k \in QueuedKeys(d) :
        /\ e.posts = d.posts
        /\ QueuedKeys(e) = QueuedKeys(d) \ {k}
        /\ e.features = d.features \cup {k}
        /\ BuriedKeys(e) = BuriedKeys(d)

Buries(d, e) ==
    \E k \in QueuedKeys(d) :
        /\ e.posts = d.posts
        /\ QueuedKeys(e) = QueuedKeys(d) \ {k}
        /\ e.features = d.features
        /\ BuriedKeys(e) = BuriedKeys(d) \cup {k}

Replays(d, e) ==
    \E k \in BuriedKeys(d) \ QueuedKeys(d) :
        /\ e.posts = d.posts
        /\ QueuedKeys(e) = QueuedKeys(d) \cup {k}
        /\ e.features = d.features
        /\ BuriedKeys(e) = BuriedKeys(d)

Stutters(d, e) ==
    /\ e.posts = d.posts
    /\ QueuedKeys(e) = QueuedKeys(d)
    /\ e.features = d.features
    /\ BuriedKeys(e) = BuriedKeys(d)

\* What a transaction may commit.
Step(d, e) ==
    /\ Good(e)
    /\ d.posts \subseteq e.posts
    /\ \/ Accepts(d, e) \/ Finishes(d, e) \/ Buries(d, e) \/ Replays(d, e)
       \/ Stutters(d, e)

SameRows(d, e) ==
    /\ e.jobs = d.jobs
    /\ e.posts = d.posts
    /\ e.inbox = d.inbox
    /\ e.features = d.features

-----------------------------------------------------------------------------
(* Databases and tables, without the state of the module.                  *)

\* Tables is the set of the tables that JobTable describes.
LEMMA TablesMeaning ==
    ASSUME NEW t
    PROVE  t \in Tables <=> IsTable(t)
  BY DEF Tables, IsTable

\* A write to one table leaves the other tables alone.
LEMMA WithJobs ==
    ASSUME NEW d \in Database, NEW t \in Tables
    PROVE  LET e == [d EXCEPT !.jobs = t]
           IN /\ e \in Database
              /\ e.jobs = t /\ e.posts = d.posts /\ e.inbox = d.inbox
              /\ e.features = d.features /\ e.tokens = d.tokens
  BY DEF Database

\* Likewise for the bucket.
LEMMA WithTokens ==
    ASSUME NEW d \in Database, NEW n \in Int
    PROVE  LET e == [d EXCEPT !.tokens = n]
           IN e \in Database /\ SameRows(d, e)
  BY DEF Database, SameRows

\* Likewise for the features.
LEMMA WithFeatures ==
    ASSUME NEW d \in Database, NEW f \in SUBSET Keys
    PROVE  LET e == [d EXCEPT !.features = f]
           IN /\ e \in Database
              /\ e.jobs = d.jobs /\ e.posts = d.posts /\ e.inbox = d.inbox
              /\ e.features = f
  BY DEF Database

\* A job is queued or not, whatever of its posts.
LEMMA QueuedMeaning ==
    ASSUME NEW d, NEW k \in Keys
    PROVE  k \in QueuedKeys(d) <=>
              \E j \in DOMAIN d.jobs :
                 d.jobs[j].key = k /\ d.jobs[j].status \in ActiveStatus
  BY DEF QueuedKeys, Active

\* Databases with the same rows are equally good, and the pipeline cannot tell
\* them apart.
LEMMA SameRowsStep ==
    ASSUME NEW d, NEW e, Good(d), SameRows(d, e)
    PROVE  Step(d, e)
  <1>1. Good(e)
    <2>1. e.posts = e.inbox /\ e.posts = {e.jobs[j].key : j \in DOMAIN e.jobs}
      <3>1. {e.jobs[j].key : j \in DOMAIN e.jobs} = {d.jobs[j].key : j \in DOMAIN d.jobs}
        BY DEF SameRows
      <3> QED
        BY <3>1 DEF Good, SameRows
    <2>2. UniqueActive(e.jobs) /\ \A j \in DOMAIN e.jobs : AtRest(e.jobs[j])
      BY DEF Good, SameRows
    <2>3. ASSUME NEW k \in Keys
          PROVE  k \in e.features <=>
                    \E j \in DOMAIN e.jobs :
                        e.jobs[j].key = k /\ e.jobs[j].status = "completed"
      BY DEF Good, SameRows
    <2> QED
      BY <2>1, <2>2, <2>3 DEF Good
  <1>2. QueuedKeys(e) = QueuedKeys(d) /\ BuriedKeys(e) = BuriedKeys(d)
    BY DEF QueuedKeys, BuriedKeys, SameRows
  <1> QED
    BY <1>1, <1>2 DEF Step, Stutters, SameRows

\* Settling a queued job, once and for all or until a retry, is a step.
LEMMA SettleStep ==
    ASSUME NEW d \in Database, Good(d), NEW e \in Database,
           NEW j \in DOMAIN d.jobs, d.jobs[j].status \in QueuedStatus,
           NEW s \in JobRow, s.key = d.jobs[j].key, AtRest(s),
           s.status \in {"retry", "dead", "completed"},
           e.jobs = [d.jobs EXCEPT ![j] = s],
           e.posts = d.posts, e.inbox = d.inbox,
           e.features = IF s.status = "completed"
                        THEN d.features \cup {s.key} ELSE d.features
    PROVE  Step(d, e)
  <1> DEFINE k == s.key
  <1>1. IsTable(d.jobs) /\ d.jobs[j] \in JobRow /\ k \in Keys
    BY TablesMeaning, RowType DEF Database, JobRow
  <1>2. /\ DOMAIN e.jobs = DOMAIN d.jobs
        /\ e.jobs[j] = s
        /\ \A i \in DOMAIN d.jobs : i # j => e.jobs[i] = d.jobs[i]
    BY <1>1, UpdateRowFacts
  <1>3. \A i \in DOMAIN d.jobs : e.jobs[i].key = d.jobs[i].key
    BY <1>2
  <1>4. \A i \in DOMAIN d.jobs :
            d.jobs[i].key = k /\ d.jobs[i].status \in ActiveStatus => i = j
    BY DEF Good, UniqueActive, QueuedStatus, ActiveStatus
  <1>5. k \in QueuedKeys(d)
    BY <1>1, QueuedMeaning DEF QueuedStatus, ActiveStatus
  <1>6. Good(e)
    <2>1. {e.jobs[i].key : i \in DOMAIN e.jobs} = {d.jobs[i].key : i \in DOMAIN d.jobs}
      BY <1>2, <1>3
    <2>2. UniqueActive(e.jobs)
      BY <1>2, <1>4 DEF Good, UniqueActive
    <2>3. \A i \in DOMAIN e.jobs : AtRest(e.jobs[i])
      BY <1>2 DEF Good
    <2>4. ASSUME NEW q \in Keys
          PROVE  q \in e.features <=>
                    \E i \in DOMAIN e.jobs :
                        e.jobs[i].key = q /\ e.jobs[i].status = "completed"
      <3>1. \A i \in DOMAIN d.jobs : i # j => e.jobs[i].status = d.jobs[i].status
        BY <1>2
      <3>2. d.jobs[j].status # "completed"
        BY DEF QueuedStatus
      <3>3. q \in d.features <=>
                \E i \in DOMAIN d.jobs :
                    d.jobs[i].key = q /\ d.jobs[i].status = "completed"
        BY DEF Good
      <3> QED
        BY <1>2, <1>3, <3>1, <3>2, <3>3
    <2> QED
      BY <2>1, <2>2, <2>3, <2>4 DEF Good
  <1>7. CASE s.status = "retry"
    <2>1. QueuedKeys(e) = QueuedKeys(d)
      <3>1. ASSUME NEW q \in Keys
            PROVE  q \in QueuedKeys(e) <=> q \in QueuedKeys(d)
        BY <1>2, <1>3, <1>7, QueuedMeaning DEF QueuedStatus, ActiveStatus
      <3> QED
        BY <3>1 DEF QueuedKeys
    <2>2. BuriedKeys(e) = BuriedKeys(d)
      BY <1>2, <1>3, <1>7 DEF BuriedKeys, QueuedStatus
    <2> QED
      BY <1>6, <1>7, <2>1, <2>2 DEF Step, Stutters
  <1>8. CASE s.status # "retry"
    <2>1. QueuedKeys(e) = QueuedKeys(d) \ {k}
      <3>1. ASSUME NEW q \in Keys
            PROVE  q \in QueuedKeys(e) <=> q \in QueuedKeys(d) /\ q # k
        BY <1>2, <1>3, <1>4, <1>8, QueuedMeaning DEF QueuedStatus, ActiveStatus
      <3> QED
        BY <3>1 DEF QueuedKeys
    <2>2. CASE s.status = "dead"
      <3>1. BuriedKeys(e) = BuriedKeys(d) \cup {k}
        BY <1>1, <1>2, <1>3, <2>2 DEF BuriedKeys, QueuedStatus
      <3> QED
        BY <1>5, <1>6, <2>1, <2>2, <3>1 DEF Step, Buries
    <2>3. CASE s.status = "completed"
      <3>1. BuriedKeys(e) = BuriedKeys(d)
        BY <1>2, <1>3, <2>3 DEF BuriedKeys, QueuedStatus
      <3> QED
        BY <1>5, <1>6, <2>1, <2>3, <3>1 DEF Step, Finishes
    <2> QED
      BY <1>8, <2>2, <2>3
  <1> QED
    BY <1>7, <1>8

\* Adding a pending job, with its post or under the key of a dead job, is a step.
LEMMA EnqueueStep ==
    ASSUME NEW d \in Database, Good(d), NEW e \in Database,
           NEW j \in JobIds \ DOMAIN d.jobs, NEW k \in Keys, NEW p \in Priority,
           Active(d.jobs, k) = {},
           k \notin d.posts \/ k \in BuriedKeys(d),
           e.jobs = EnqueueJob(d.jobs, j, k, p),
           e.posts = d.posts \cup {k}, e.inbox = e.posts,
           e.features = d.features
    PROVE  Step(d, e)
  <1>1. IsTable(d.jobs)
    BY TablesMeaning DEF Database
  <1>2. /\ DOMAIN e.jobs = DOMAIN d.jobs \cup {j}
        /\ e.jobs[j] = NewRow(k, p)
        /\ \A i \in DOMAIN d.jobs : e.jobs[i] = d.jobs[i]
    <2> DEFINE t == d.jobs
    <2>1. IsTable(t) /\ j \in JobIds \ DOMAIN t /\ e.jobs = EnqueueJob(t, j, k, p)
      BY <1>1
    <2> HIDE DEF t
    <2>2. /\ DOMAIN e.jobs = DOMAIN t \cup {j}
          /\ e.jobs[j] = NewRow(k, p)
          /\ \A i \in DOMAIN t : e.jobs[i] = t[i]
      BY <2>1, EnqueueJobFacts
    <2> QED
      BY <2>2 DEF t
  <1>3. /\ e.jobs[j].key = k /\ e.jobs[j].status = "pending"
        /\ AtRest(e.jobs[j])
    BY <1>2 DEF NewRow, AtRest
  <1>4. \A i \in DOMAIN d.jobs :
            ~(d.jobs[i].key = k /\ d.jobs[i].status \in ActiveStatus)
    BY DEF Active
  <1>5. k \notin QueuedKeys(d)
    BY <1>4, QueuedMeaning
  <1>6. Good(e)
    <2>1. e.posts = {e.jobs[i].key : i \in DOMAIN e.jobs}
      BY <1>2, <1>3 DEF Good
    <2>2. UniqueActive(e.jobs)
      BY <1>2, <1>3, <1>4 DEF Good, UniqueActive
    <2>3. \A i \in DOMAIN e.jobs : AtRest(e.jobs[i])
      BY <1>2, <1>3 DEF Good
    <2>4. ASSUME NEW q \in Keys
          PROVE  q \in e.features <=>
                    \E i \in DOMAIN e.jobs :
                        e.jobs[i].key = q /\ e.jobs[i].status = "completed"
      BY <1>2, <1>3 DEF Good
    <2> QED
      BY <2>1, <2>2, <2>3, <2>4 DEF Good
  <1>7. QueuedKeys(e) = QueuedKeys(d) \cup {k}
    <2>1. ASSUME NEW q \in Keys
          PROVE  q \in QueuedKeys(e) <=> q \in QueuedKeys(d) \/ q = k
      BY <1>2, <1>3, QueuedMeaning DEF ActiveStatus
    <2> QED
      BY <2>1 DEF QueuedKeys
  <1>8. BuriedKeys(e) = BuriedKeys(d)
    BY <1>2, <1>3 DEF BuriedKeys
  <1>9. CASE k \notin d.posts
    BY <1>6, <1>7, <1>8, <1>9 DEF Step, Accepts
  <1>10. CASE k \in d.posts
    BY <1>5, <1>6, <1>7, <1>8, <1>10 DEF Step, Replays
  <1> QED
    BY <1>9, <1>10

-----------------------------------------------------------------------------
(* The inductive invariant.                                                *)

Held == {"admit", "claim", "handle", "handled", "inserted", "commit"}
Free == {"idle", "down", "capturing", "replaying"}
JobRefs == JobIds \cup {0}
PostRefs == Keys \cup {Nobody}
Answers == {"none", "duplicate", "error", "accepted"}

Typed ==
    /\ db \in Database /\ view \in Database /\ saved \in Database
    /\ lock \in Procs \cup {Nobody}
    /\ pc \in [Procs -> Held \cup Free]
    /\ job \in [Procs -> JobRefs]
    /\ post \in [Requests -> PostRefs]
    /\ answer \in [Requests -> Answers]

LockAgrees == \A p \in Procs : lock = p <=> pc[p] \in Held

\* The savepoint of p holds db with one queued job claimed.
Claimed(p) ==
    /\ job[p] \in DOMAIN db.jobs
    /\ db.jobs[job[p]].status \in QueuedStatus
    /\ saved.jobs = ClaimJob(db.jobs, job[p])
    /\ saved.posts = db.posts
    /\ saved.inbox = db.inbox
    /\ saved.features = db.features

\* What the holder of the lock has made of db so far.
HolderOK(p) ==
    /\ pc[p] \in {"admit", "claim"} => SameRows(db, view)
    /\ pc[p] = "handle" => Claimed(p) /\ SameRows(saved, view)
    /\ pc[p] = "handled" =>
        /\ Claimed(p)
        /\ view.jobs = saved.jobs
        /\ view.posts = db.posts
        /\ view.inbox = db.inbox
        /\ view.features = db.features \cup {db.jobs[job[p]].key}
    /\ pc[p] = "inserted" =>
        /\ p \in Requests
        /\ post[p] \in Keys \ db.posts
        /\ view.jobs = db.jobs
        /\ view.posts = db.posts \cup {post[p]}
        /\ view.inbox = view.posts
        /\ view.features = db.features
    /\ pc[p] = "commit" =>
        /\ Step(db, view)
        /\ p \in Requests => post[p] \in view.posts

\* What a request has read is so, unless its snapshot is stale.
ReaderOK(r) ==
    /\ pc[r] \in {"capturing", "replaying"} => post[r] \in Keys
    /\ pc[r] = "capturing" /\ r \notin stale => post[r] \notin db.posts
    /\ pc[r] = "replaying" /\ r \notin stale =>
        /\ job[r] \in DOMAIN db.jobs
        /\ db.jobs[job[r]].status = "dead"
        /\ db.jobs[job[r]].key = post[r]

AnswerOK(r) == answer[r] \in {"accepted", "duplicate"} => post[r] \in db.posts

IInv ==
    /\ Typed
    /\ LockAgrees
    /\ Good(db)
    /\ \A p \in Procs : HolderOK(p)
    /\ \A r \in Requests : ReaderOK(r) /\ AnswerOK(r)

\* The empty database is one.
LEMMA EmptyFacts ==
    /\ EmptyDatabase \in Database
    /\ Good(EmptyDatabase)
  <1>1. EmptyTable \in Tables /\ DOMAIN EmptyTable = {}
    BY TablesMeaning DEF EmptyTable, IsTable
  <1>2. EmptyDatabase \in Database
    BY <1>1, CaptureWorkerAssumption DEF EmptyDatabase, Database
  <1>3. Good(EmptyDatabase)
    BY <1>1 DEF EmptyDatabase, Good, UniqueActive
  <1> QED
    BY <1>2, <1>3

\* An idle system with an empty database satisfies the invariant.
LEMMA InitIInv == Init => IInv
  <1> SUFFICES ASSUME Init PROVE IInv
    OBVIOUS
  <1> USE DEF Init
  <1>4. Typed
    BY EmptyFacts, CaptureWorkerAssumption
    DEF Typed, Free, JobRefs, PostRefs, Answers
  <1>5. LockAgrees
    BY CaptureWorkerAssumption DEF LockAgrees, Held, Procs
  <1>6. ASSUME NEW p \in Procs PROVE HolderOK(p)
    BY DEF HolderOK
  <1>7. ASSUME NEW r \in Requests PROVE ReaderOK(r) /\ AnswerOK(r)
    BY DEF ReaderOK, AnswerOK, Procs
  <1> QED
    BY <1>4, <1>5, <1>6, <1>7, EmptyFacts DEF IInv

\* The holder of the lock, or the process that takes it, writes its own view.
LEMMA Writes ==
    ASSUME IInv, NEW p \in Procs, lock \in {p, Nobody}, lock' = p,
           db' = db, stale' = stale, post' = post, answer' = answer,
           view' \in Database, saved' \in Database,
           NEW l \in Held, pc' = [pc EXCEPT ![p] = l],
           job' \in [Procs -> JobRefs],
           \A q \in Procs \ {p} : job'[q] = job[q],
           HolderOK(p)'
    PROVE  IInv'
  <1>1. Typed'
    BY DEF IInv, Typed
  <1>2. pc'[p] = l /\ \A q \in Procs \ {p} : pc'[q] = pc[q]
    BY DEF IInv, Typed
  <1>3. \A q \in Procs \ {p} : pc[q] \notin Held
    BY CaptureWorkerAssumption DEF IInv, LockAgrees, Procs
  <1>4. LockAgrees'
    BY <1>2, <1>3 DEF LockAgrees
  <1>5. ASSUME NEW q \in Procs PROVE HolderOK(q)'
    BY <1>2, <1>3 DEF HolderOK, Held
  <1>6. ASSUME NEW r \in Requests PROVE ReaderOK(r)' /\ AnswerOK(r)'
    <2>1. r \in Procs
      BY DEF Procs
    <2>2. CASE r = p
      BY <1>2, <2>1, <2>2 DEF ReaderOK, AnswerOK, IInv, Held
    <2>3. CASE r # p
      BY <1>2, <2>1, <2>3 DEF ReaderOK, AnswerOK, IInv
    <2> QED
      BY <2>2, <2>3
  <1> QED
    BY <1>1, <1>4, <1>5, <1>6 DEF IInv

\* A process goes on without the lock, or gives it back without a commit.
LEMMA Drops ==
    ASSUME IInv, NEW p \in Procs,
           lock' = IF lock = p THEN Nobody ELSE lock,
           db' = db, \A r \in Requests \ {p} : r \in stale' <=> r \in stale,
           view' \in Database, saved' \in Database,
           lock # p => view' = view /\ saved' = saved,
           NEW l \in Free, pc' = [pc EXCEPT ![p] = l],
           job' \in [Procs -> JobRefs],
           \A q \in Procs \ {p} : job'[q] = job[q],
           post' \in [Requests -> PostRefs],
           \A q \in Requests \ {p} : post'[q] = post[q],
           answer' \in [Requests -> Answers],
           \A q \in Requests \ {p} : answer'[q] = answer[q],
           p \in Requests => ReaderOK(p)' /\ AnswerOK(p)'
    PROVE  IInv'
  <1>1. Typed'
    BY DEF IInv, Typed
  <1>2. pc'[p] = l /\ \A q \in Procs \ {p} : pc'[q] = pc[q]
    BY DEF IInv, Typed
  <1>3. \A q \in Procs \ {p} : lock = p => pc[q] \notin Held
    BY DEF IInv, LockAgrees
  <1>4. LockAgrees'
    BY <1>2, <1>3, CaptureWorkerAssumption DEF IInv, LockAgrees, Held, Free, Procs
  <1>5. ASSUME NEW q \in Procs PROVE HolderOK(q)'
    <2>1. CASE q = p
      BY <1>2, <2>1 DEF HolderOK, Free
    <2>2. CASE q # p /\ lock = p
      BY <1>2, <1>3, <2>2 DEF HolderOK, Held
    <2>3. CASE q # p /\ lock # p
      <3>1. q \in Requests => post'[q] = post[q]
        BY <2>3
      <3> QED
        BY <1>2, <2>3, <3>1 DEF HolderOK, Claimed, IInv
    <2> QED
      BY <2>1, <2>2, <2>3
  <1>6. ASSUME NEW r \in Requests PROVE ReaderOK(r)' /\ AnswerOK(r)'
    <2>1. r \in Procs
      BY DEF Procs
    <2>2. CASE r # p
      BY <1>2, <2>1, <2>2 DEF ReaderOK, AnswerOK, IInv
    <2> QED
      BY <2>2
  <1> QED
    BY <1>1, <1>4, <1>5, <1>6 DEF IInv

\* A commit replaces db by a view that is one step of the pipeline away, and the
\* requests that have read the old db are stale.
LEMMA Commits ==
    ASSUME IInv, NEW p \in Procs, pc[p] = "commit", Commit(p), post' = post,
           answer' \in [Requests -> Answers],
           \A q \in Requests \ {p} : answer'[q] = answer[q]
    PROVE  IInv' /\ Step(db, db')
  <1>1. lock = p
    BY DEF IInv, LockAgrees, Held
  <1>2. /\ db' = view /\ lock' = Nobody
        /\ view' = EmptyDatabase /\ saved' = EmptyDatabase
        /\ stale' = stale \cup Readers
        /\ pc' = [pc EXCEPT ![p] = "idle"]
        /\ job' = [job EXCEPT ![p] = 0]
    BY <1>1 DEF Commit, Close, Goto
  <1>3. Step(db, view) /\ (p \in Requests => post[p] \in view.posts)
    BY DEF IInv, HolderOK
  <1>4. Step(db, db') /\ Good(db') /\ db.posts \subseteq (db').posts
    BY <1>2, <1>3 DEF Step
  <1>6. Typed'
    BY <1>2, EmptyFacts DEF IInv, Typed, JobRefs, Free
  <1>7. pc'[p] = "idle" /\ \A q \in Procs \ {p} : pc'[q] = pc[q]
    BY <1>2 DEF IInv, Typed
  <1>8. \A q \in Procs : pc'[q] \notin Held
    BY <1>1, <1>7 DEF IInv, LockAgrees, Held
  <1>9. LockAgrees'
    BY <1>2, <1>8, CaptureWorkerAssumption DEF LockAgrees, Procs
  <1>10. ASSUME NEW q \in Procs PROVE HolderOK(q)'
    BY <1>8 DEF HolderOK, Held
  <1>11. ASSUME NEW r \in Requests PROVE ReaderOK(r)'
    <2>1. r \in Procs
      BY DEF Procs
    <2>2. CASE r = p
      BY <1>7, <2>2 DEF ReaderOK
    <2>3. CASE r # p
      <3>1. pc[r] \in {"capturing", "replaying"} => r \in stale'
        BY <1>2 DEF Readers
      <3> QED
        BY <1>7, <2>1, <2>3, <3>1 DEF ReaderOK, IInv
    <2> QED
      BY <2>2, <2>3
  <1>12. ASSUME NEW r \in Requests PROVE AnswerOK(r)'
    <2>1. CASE r = p
      BY <1>2, <1>3, <2>1 DEF AnswerOK
    <2>2. CASE r # p
      BY <1>4, <2>2 DEF AnswerOK, IInv
    <2> QED
      BY <2>1, <2>2
  <1> QED
    BY <1>4, <1>6, <1>9, <1>10, <1>11, <1>12 DEF IInv

-----------------------------------------------------------------------------
(* The steps of a worker.                                                  *)

\* Nothing runs between transactions, so there is nothing to recover.
LEMMA NothingToRecover ==
    ASSUME NEW d \in Database, Good(d)
    PROVE  RecoverExpiredLeases(d.jobs) = d.jobs
  <1> DEFINE t == d.jobs
  <1>1. IsTable(t)
    BY TablesMeaning DEF Database
  <1>2. \A j \in DOMAIN t : RecoverRow(t[j]) = t[j]
    BY DEF Good, AtRest, RecoverRow
  <1> HIDE DEF t
  <1>3. t = [j \in DOMAIN t |-> t[j]]
    BY <1>1 DEF IsTable
  <1> QED
    BY <1>2, <1>3 DEF RecoverExpiredLeases, t

\* A poll starts on the rows of db, as there is no lease to recover.
LEMMA PollStep ==
    ASSUME IInv, NEW w \in Workers, Poll(w)
    PROVE  IInv'
  <1>1. /\ lock = Nobody /\ lock' = w
        /\ view' = [db EXCEPT !.jobs = RecoverExpiredLeases(db.jobs)]
        /\ pc' = [pc EXCEPT ![w] = "admit"]
        /\ UNCHANGED <<db, saved, job, post, stale, answer>>
    BY DEF Poll, TakeLock, Goto
  <1>2. w \in Procs /\ db \in Database /\ Good(db) /\ saved \in Database
    BY DEF Procs, IInv, Typed
  <1>3. RecoverExpiredLeases(db.jobs) = db.jobs /\ db.jobs \in Tables
    BY <1>2, NothingToRecover DEF Database
  <1>4. view' \in Database /\ SameRows(db, view')
    BY <1>1, <1>2, <1>3, WithJobs DEF SameRows
  <1>5. pc'[w] = "admit"
    BY <1>1, <1>2 DEF IInv, Typed
  <1>6. HolderOK(w)'
    BY <1>1, <1>4, <1>5 DEF HolderOK, SameRows
  <1> QED
    BY <1>1, <1>2, <1>4, <1>6, Writes DEF IInv, Typed, Held

\* The bucket is no row of the pipeline.
LEMMA AdmitStep ==
    ASSUME IInv, NEW w \in Workers, Admit(w)
    PROVE  IInv'
  <1>1. /\ pc[w] = "admit" /\ w \in Procs
        /\ UNCHANGED <<db, lock, saved, job, post, stale, answer>>
    BY DEF Admit, Procs
  <1>2. /\ lock = w /\ SameRows(db, view)
        /\ db \in Database /\ view \in Database /\ saved \in Database /\ Good(db)
    BY <1>1 DEF IInv, Typed, LockAgrees, Held, HolderOK
  <1>3. CASE view.tokens = 0
    <2>1. pc' = [pc EXCEPT ![w] = "commit"] /\ view' = view
      BY <1>3 DEF Admit, Goto
    <2>2. pc'[w] = "commit"
      BY <1>1, <2>1 DEF IInv, Typed
    <2>3. Step(db, view) /\ w \notin Requests
      BY <1>2, SameRowsStep, CaptureWorkerAssumption
    <2>4. HolderOK(w)'
      BY <1>1, <2>1, <2>2, <2>3 DEF HolderOK
    <2> QED
      BY <1>1, <1>2, <2>1, <2>4, Writes DEF IInv, Typed, Held
  <1>4. CASE view.tokens > 0
    <2>1. /\ pc' = [pc EXCEPT ![w] = "claim"]
          /\ view' = [view EXCEPT !.tokens = view.tokens - 1]
      BY <1>3, <1>4 DEF Admit, Goto
    <2>2. pc'[w] = "claim"
      BY <1>1, <2>1 DEF IInv, Typed
    <2>3. view.tokens - 1 \in Int
      BY <1>2 DEF Database
    <2>4. view' \in Database /\ SameRows(view, view')
      BY <1>2, <2>1, <2>3, WithTokens
    <2>5. SameRows(db, view')
      BY <1>2, <2>4 DEF SameRows
    <2>6. HolderOK(w)'
      BY <1>1, <2>2, <2>5 DEF HolderOK, SameRows
    <2> QED
      BY <1>1, <1>2, <2>1, <2>4, <2>6, Writes DEF IInv, Typed, Held
  <1> QED
    BY <1>3, <1>4 DEF Admit

\* An empty-handed poll commits the rows of db.
LEMMA FindNothingStep ==
    ASSUME IInv, NEW w \in Workers, FindNothing(w)
    PROVE  IInv'
  <1>1. /\ pc[w] = "claim" /\ w \in Procs
        /\ pc' = [pc EXCEPT ![w] = "commit"]
        /\ UNCHANGED <<db, lock, view, saved, job, post, stale, answer>>
    BY DEF FindNothing, Goto, Procs
  <1>2. /\ lock = w /\ SameRows(db, view)
        /\ db \in Database /\ view \in Database /\ saved \in Database /\ Good(db)
    BY <1>1 DEF IInv, Typed, LockAgrees, Held, HolderOK
  <1>3. pc'[w] = "commit"
    BY <1>1 DEF IInv, Typed
  <1>4. Step(db, view) /\ w \notin Requests
    BY <1>2, SameRowsStep, CaptureWorkerAssumption
  <1>5. HolderOK(w)'
    BY <1>1, <1>3, <1>4 DEF HolderOK
  <1> QED
    BY <1>1, <1>2, <1>5, Writes DEF IInv, Typed, Held

\* A claimable job is queued.
LEMMA ClaimableFacts ==
    ASSUME NEW t, NEW c, NEW j \in Claimable(t, c)
    PROVE  j \in DOMAIN t /\ t[j].status \in QueuedStatus
  BY DEF Claimable, Candidates, Queued

\* A claim is kept at the savepoint.
LEMMA ClaimStep ==
    ASSUME IInv, NEW w \in Workers, Claim(w)
    PROVE  IInv'
  <1>1. /\ pc[w] = "claim" /\ w \in Procs
        /\ pc' = [pc EXCEPT ![w] = "handle"]
        /\ UNCHANGED <<db, lock, post, stale, answer>>
    BY DEF Claim, Goto, Procs
  <1>2. /\ lock = w /\ SameRows(db, view)
        /\ db \in Database /\ view \in Database /\ Good(db)
    BY <1>1 DEF IInv, Typed, LockAgrees, Held, HolderOK
  <1>3. PICK j \in Claimable(view.jobs, PolledClass) :
            /\ view' = [view EXCEPT !.jobs = ClaimJob(view.jobs, j)]
            /\ saved' = view'
            /\ job' = [job EXCEPT ![w] = j]
    BY DEF Claim
  <1>4. j \in DOMAIN db.jobs /\ db.jobs[j].status \in QueuedStatus
    BY <1>2, ClaimableFacts DEF SameRows
  <1>5. IsTable(db.jobs) /\ db.jobs[j] \in JobRow /\ j \in JobIds
    BY <1>2, <1>4, TablesMeaning, RowType DEF Database, IsTable
  <1>6. ClaimRow(db.jobs[j]) \in JobRow
    BY <1>5, ClaimRowFacts
  <1>7. ClaimJob(db.jobs, j) \in Tables
    BY <1>4, <1>5, <1>6, UpdateRowFacts, TablesMeaning DEF ClaimJob
  <1>8. /\ view' \in Database
        /\ (view').jobs = ClaimJob(db.jobs, j)
        /\ (view').posts = db.posts /\ (view').inbox = db.inbox
        /\ (view').features = db.features
    BY <1>2, <1>3, <1>7, WithJobs DEF SameRows
  <1>9. pc'[w] = "handle" /\ job'[w] = j
    BY <1>1, <1>3 DEF IInv, Typed
  <1>10. HolderOK(w)'
    <2>1. Claimed(w)'
      BY <1>1, <1>3, <1>4, <1>8, <1>9 DEF Claimed
    <2> QED
      BY <1>3, <1>9, <2>1 DEF HolderOK, SameRows
  <1>11. /\ job' \in [Procs -> JobRefs]
         /\ \A q \in Procs \ {w} : job'[q] = job[q]
    BY <1>3, <1>5 DEF IInv, Typed, JobRefs
  <1> QED
    BY <1>1, <1>2, <1>3, <1>8, <1>10, <1>11, Writes DEF Held

\* A job that was claimed and has failed is settled in one step.
LEMMA ClaimedAndFailed ==
    ASSUME NEW d \in Database, Good(d), NEW j \in DOMAIN d.jobs,
           d.jobs[j].status \in QueuedStatus, NEW retryable \in BOOLEAN,
           NEW c \in Database, c.jobs = ClaimJob(d.jobs, j),
           c.posts = d.posts, c.inbox = d.inbox, c.features = d.features,
           NEW e, e = [c EXCEPT !.jobs = FailJob(c.jobs, j, retryable)]
    PROVE  e \in Database /\ Step(d, e)
  <1> DEFINE r == ClaimRow(d.jobs[j])
             s == FailRow(r, retryable)
  <1>1. IsTable(d.jobs) /\ d.jobs[j] \in JobRow
    BY TablesMeaning, RowType DEF Database
  <1>2. r \in JobRow /\ r.key = d.jobs[j].key
    BY <1>1, ClaimRowFacts
  <1>3. /\ s \in JobRow /\ s.key = d.jobs[j].key /\ AtRest(s)
        /\ s.status \in {"retry", "dead"}
    <2> HIDE DEF r
    <2> QED
      BY <1>2, FailRowFacts DEF AtRest
  <1>4. /\ IsTable(c.jobs) /\ DOMAIN c.jobs = DOMAIN d.jobs /\ c.jobs[j] = r
        /\ c.jobs = [d.jobs EXCEPT ![j] = r]
    BY <1>1, <1>2, UpdateRowFacts DEF ClaimJob
  <1>5. FailJob(c.jobs, j, retryable) = [c.jobs EXCEPT ![j] = s]
    BY <1>4 DEF FailJob
  <1> HIDE DEF r, s
  <1>6. [c.jobs EXCEPT ![j] = s] = [d.jobs EXCEPT ![j] = s]
    BY <1>1, <1>4 DEF IsTable
  <1>7. [d.jobs EXCEPT ![j] = s] \in Tables
    BY <1>1, <1>3, UpdateRowFacts, TablesMeaning
  <1>8. /\ e \in Database
        /\ e.jobs = [d.jobs EXCEPT ![j] = s]
        /\ e.posts = d.posts /\ e.inbox = d.inbox /\ e.features = d.features
    BY <1>5, <1>6, <1>7, WithJobs
  <1>9. /\ s.status \in {"retry", "dead", "completed"}
        /\ e.features = IF s.status = "completed"
                        THEN d.features \cup {s.key} ELSE d.features
    BY <1>3, <1>8
  <1>10. Step(d, e)
    BY <1>3, <1>8, <1>9, SettleStep
  <1> QED
    BY <1>8, <1>10

\* A job without a handler is claimed and buried in one commit.
LEMMA ClaimUnhandledStep ==
    ASSUME IInv, NEW w \in Workers, ClaimUnhandled(w)
    PROVE  IInv'
  <1>1. /\ pc[w] = "claim" /\ w \in Procs /\ w \notin Requests
        /\ pc' = [pc EXCEPT ![w] = "commit"]
        /\ UNCHANGED <<db, lock, saved, job, post, stale, answer>>
    BY CaptureWorkerAssumption DEF ClaimUnhandled, Goto, Procs
  <1>2. /\ lock = w /\ SameRows(db, view) /\ saved \in Database
        /\ db \in Database /\ view \in Database /\ Good(db)
    BY <1>1 DEF IInv, Typed, LockAgrees, Held, HolderOK
  <1>3. PICK j \in Claimable(view.jobs, PolledClass) :
            view' = [view EXCEPT !.jobs = FailJob(ClaimJob(view.jobs, j), j, FALSE)]
    BY DEF ClaimUnhandled
  <1>4. j \in DOMAIN db.jobs /\ db.jobs[j].status \in QueuedStatus
    BY <1>2, ClaimableFacts DEF SameRows
  <1>5. IsTable(db.jobs) /\ db.jobs[j] \in JobRow
    BY <1>2, <1>4, TablesMeaning, RowType DEF Database
  <1>6. ClaimJob(db.jobs, j) \in Tables
    BY <1>4, <1>5, ClaimRowFacts, UpdateRowFacts, TablesMeaning DEF ClaimJob
  <1> DEFINE c == [view EXCEPT !.jobs = ClaimJob(db.jobs, j)]
  <1>7. /\ c \in Database /\ c.jobs = ClaimJob(db.jobs, j)
        /\ c.posts = db.posts /\ c.inbox = db.inbox /\ c.features = db.features
    BY <1>2, <1>6, WithJobs DEF SameRows
  <1>8. view' = [c EXCEPT !.jobs = FailJob(c.jobs, j, FALSE)]
    BY <1>2, <1>3, <1>7 DEF SameRows, Database
  <1> HIDE DEF c
  <1>9. view' \in Database /\ Step(db, view')
    BY <1>2, <1>4, <1>7, <1>8, ClaimedAndFailed
  <1>10. pc'[w] = "commit"
    BY <1>1 DEF IInv, Typed
  <1>11. HolderOK(w)'
    BY <1>1, <1>9, <1>10 DEF HolderOK
  <1> QED
    BY <1>1, <1>2, <1>9, <1>11, Writes DEF IInv, Typed, Held

\* The handler adds the feature of its job's post.
LEMMA HandlerWritesStep ==
    ASSUME IInv, NEW w \in Workers, HandlerWrites(w)
    PROVE  IInv'
  <1>1. /\ pc[w] = "handle" /\ w \in Procs
        /\ pc' = [pc EXCEPT ![w] = "handled"]
        /\ view' = [view EXCEPT !.features = @ \cup {view.jobs[job[w]].key}]
        /\ UNCHANGED <<db, lock, saved, job, post, stale, answer>>
    BY DEF HandlerWrites, Goto, Procs
  <1>2. /\ lock = w /\ Claimed(w) /\ SameRows(saved, view)
        /\ db \in Database /\ view \in Database /\ saved \in Database
    BY <1>1 DEF IInv, Typed, LockAgrees, Held, HolderOK
  <1> DEFINE j == job[w]
             k == db.jobs[j].key
  <1>3. db.jobs[j] \in JobRow /\ j \in DOMAIN db.jobs /\ IsTable(db.jobs)
    BY <1>2, TablesMeaning, RowType DEF Claimed, Database
  <1>4. ClaimRow(db.jobs[j]) \in JobRow /\ ClaimRow(db.jobs[j]).key = k
    BY <1>3, ClaimRowFacts
  <1>5. view.jobs[j].key = k /\ k \in Keys
    BY <1>2, <1>3, <1>4, UpdateRowFacts DEF Claimed, SameRows, ClaimJob, JobRow
  <1> DEFINE f == view.features \cup {k}
  <1>6. f \in SUBSET Keys /\ view' = [view EXCEPT !.features = f]
    BY <1>1, <1>2, <1>5 DEF Database
  <1> HIDE DEF f
  <1>7. /\ view' \in Database
        /\ (view').jobs = view.jobs /\ (view').posts = view.posts
        /\ (view').inbox = view.inbox /\ (view').features = f
    BY <1>2, <1>6, WithFeatures
  <1>8. pc'[w] = "handled"
    BY <1>1 DEF IInv, Typed
  <1>9. HolderOK(w)'
    <2>1. Claimed(w)'
      BY <1>1, <1>2 DEF Claimed
    <2> QED
      BY <1>1, <1>2, <1>7, <1>8, <2>1 DEF HolderOK, Claimed, SameRows, f
  <1> QED
    BY <1>1, <1>2, <1>7, <1>9, Writes DEF IInv, Typed, Held

\* A returned handler commits its feature with the completed job.
LEMMA HandlerReturnsStep ==
    ASSUME IInv, NEW w \in Workers, HandlerReturns(w)
    PROVE  IInv'
  <1>1. /\ pc[w] = "handled" /\ w \in Procs /\ w \notin Requests
        /\ pc' = [pc EXCEPT ![w] = "commit"]
        /\ view' = [view EXCEPT !.jobs = CompleteJob(view.jobs, job[w])]
        /\ UNCHANGED <<db, lock, saved, job, post, stale, answer>>
    BY CaptureWorkerAssumption DEF HandlerReturns, Goto, Procs
  <1>2. /\ lock = w /\ Claimed(w) /\ Good(db)
        /\ db \in Database /\ view \in Database /\ saved \in Database
        /\ view.jobs = saved.jobs /\ view.posts = db.posts /\ view.inbox = db.inbox
        /\ view.features = db.features \cup {db.jobs[job[w]].key}
    BY <1>1 DEF IInv, Typed, LockAgrees, Held, HolderOK
  <1> DEFINE j == job[w]
             t == db.jobs
             r == ClaimRow(t[j])
             s == CompleteRow(r)
  <1>3. IsTable(t) /\ t[j] \in JobRow /\ j \in DOMAIN t /\ t[j].status \in QueuedStatus
    BY <1>2, TablesMeaning, RowType DEF Claimed, Database
  <1>4. r \in JobRow /\ r.key = t[j].key /\ r.status = "running"
    BY <1>3, ClaimRowFacts
  <1>5. /\ s \in JobRow /\ s.key = t[j].key /\ AtRest(s)
        /\ s.status = "completed"
    <2> HIDE DEF r
    <2> QED
      BY <1>4, CompleteRowFacts DEF AtRest
  <1>6. view.jobs = [t EXCEPT ![j] = r] /\ view.jobs[j] = r
    BY <1>2, <1>3, <1>4, UpdateRowFacts DEF Claimed, ClaimJob
  <1>7. CompleteJob(view.jobs, j) = [view.jobs EXCEPT ![j] = s]
    BY <1>6 DEF CompleteJob
  <1> HIDE DEF r, s
  <1>8. CompleteJob(view.jobs, j) = [t EXCEPT ![j] = s]
    BY <1>3, <1>6, <1>7 DEF IsTable
  <1>9. [t EXCEPT ![j] = s] \in Tables
    BY <1>3, <1>5, UpdateRowFacts, TablesMeaning
  <1>10. /\ view' \in Database
         /\ (view').jobs = [t EXCEPT ![j] = s]
         /\ (view').posts = db.posts /\ (view').inbox = db.inbox
         /\ (view').features = db.features \cup {s.key}
    BY <1>1, <1>2, <1>5, <1>8, <1>9, WithJobs
  <1>11. Step(db, view')
    <2>1. /\ s.status \in {"retry", "dead", "completed"}
          /\ (view').features = IF s.status = "completed"
                                THEN db.features \cup {s.key} ELSE db.features
      BY <1>5, <1>10
    <2> QED
      BY <1>2, <1>3, <1>5, <1>10, <2>1, SettleStep
  <1>12. pc'[w] = "commit"
    BY <1>1 DEF IInv, Typed
  <1>13. HolderOK(w)'
    BY <1>1, <1>11, <1>12 DEF HolderOK
  <1> QED
    BY <1>1, <1>2, <1>10, <1>13, Writes DEF IInv, Typed, Held

\* A raised handler commits the savepoint and the failure, nothing else.
LEMMA HandlerRaisesStep ==
    ASSUME IInv, NEW w \in Workers, HandlerRaises(w)
    PROVE  IInv'
  <1>1. /\ pc[w] \in {"handle", "handled"} /\ w \in Procs /\ w \notin Requests
        /\ pc' = [pc EXCEPT ![w] = "commit"]
        /\ UNCHANGED <<db, lock, saved, job, post, stale, answer>>
    BY CaptureWorkerAssumption DEF HandlerRaises, Goto, Procs
  <1>2. /\ lock = w /\ Claimed(w) /\ Good(db)
        /\ db \in Database /\ saved \in Database
    BY <1>1 DEF IInv, Typed, LockAgrees, Held, HolderOK
  <1>3. PICK retryable \in BOOLEAN :
            view' = [saved EXCEPT !.jobs = FailJob(saved.jobs, job[w], retryable)]
    BY DEF HandlerRaises
  <1>4. view' \in Database /\ Step(db, view')
    BY <1>2, <1>3, ClaimedAndFailed DEF Claimed
  <1>5. pc'[w] = "commit"
    BY <1>1 DEF IInv, Typed
  <1>6. HolderOK(w)'
    BY <1>1, <1>4, <1>5 DEF HolderOK
  <1> QED
    BY <1>1, <1>2, <1>4, <1>6, Writes DEF IInv, Typed, Held

-----------------------------------------------------------------------------
(* The steps of a request.                                                 *)

\* A request reads that its post is new, or answers from what it reads.
LEMMA CaptureStep ==
    ASSUME IInv, NEW r \in Requests, Capture(r)
    PROVE  IInv'
  <1>1. PICK k \in Keys :
            /\ post' = [post EXCEPT ![r] = k]
            /\ \/ k \in db.posts /\ Reply(r, "duplicate") /\ UNCHANGED pc
               \/ k \notin db.posts /\ Reply(r, "none") /\ Goto(r, "capturing")
    BY DEF Capture
  <1>2. /\ pc[r] = "idle" /\ r \in Procs
        /\ UNCHANGED <<db, lock, view, saved, job, stale>>
    BY DEF Capture, Procs
  <1>3. lock # r /\ Typed
    BY <1>2 DEF IInv, LockAgrees, Held
  <1>4. post'[r] = k /\ post' \in [Requests -> PostRefs]
        /\ \A q \in Requests \ {r} : post'[q] = post[q]
    BY <1>1, <1>3 DEF Typed, PostRefs
  <1>5. CASE k \in db.posts /\ Reply(r, "duplicate") /\ UNCHANGED pc
    <2>1. pc' = [pc EXCEPT ![r] = "idle"] /\ pc'[r] = "idle"
      BY <1>2, <1>3, <1>5 DEF Typed
    <2>2. /\ answer' \in [Requests -> Answers]
          /\ \A q \in Requests \ {r} : answer'[q] = answer[q]
      BY <1>3, <1>5 DEF Typed, Reply, Answers
    <2>3. ReaderOK(r)' /\ AnswerOK(r)'
      BY <1>2, <1>4, <1>5, <2>1 DEF ReaderOK, AnswerOK
    <2> QED
      BY <1>2, <1>3, <1>4, <2>1, <2>2, <2>3, Drops DEF Typed, Free
  <1>6. CASE k \notin db.posts /\ Reply(r, "none") /\ Goto(r, "capturing")
    <2>1. pc' = [pc EXCEPT ![r] = "capturing"] /\ pc'[r] = "capturing"
      BY <1>2, <1>3, <1>6 DEF Typed, Goto
    <2>2. /\ answer' \in [Requests -> Answers] /\ answer'[r] = "none"
          /\ \A q \in Requests \ {r} : answer'[q] = answer[q]
      BY <1>3, <1>6 DEF Typed, Reply, Answers
    <2>3. ReaderOK(r)' /\ AnswerOK(r)'
      BY <1>2, <1>4, <1>6, <2>1, <2>2 DEF ReaderOK, AnswerOK
    <2> QED
      BY <1>2, <1>3, <1>4, <2>1, <2>2, <2>3, Drops DEF Typed, Free
  <1> QED
    BY <1>1, <1>5, <1>6

\* A replay reads a dead job and the post it is about.
LEMMA ReplayStep ==
    ASSUME IInv, NEW r \in Requests, Replay(r)
    PROVE  IInv'
  <1>1. PICK j \in DOMAIN db.jobs :
            /\ db.jobs[j].status = "dead"
            /\ job' = [job EXCEPT ![r] = j]
            /\ post' = [post EXCEPT ![r] = db.jobs[j].key]
    BY DEF Replay
  <1>2. /\ pc[r] = "idle" /\ r \in Procs
        /\ answer' = [answer EXCEPT ![r] = "none"]
        /\ pc' = [pc EXCEPT ![r] = "replaying"]
        /\ UNCHANGED <<db, lock, view, saved, stale>>
    BY DEF Replay, Procs, Reply, Goto
  <1>3. lock # r /\ Typed
    BY <1>2 DEF IInv, LockAgrees, Held
  <1>4. IsTable(db.jobs) /\ db.jobs[j] \in JobRow /\ j \in JobIds
    BY <1>3, TablesMeaning, RowType DEF Typed, Database, IsTable
  <1>5. db.jobs[j].key \in Keys
    BY <1>4 DEF JobRow
  <1>6. /\ post' \in [Requests -> PostRefs] /\ post'[r] = db.jobs[j].key
        /\ \A q \in Requests \ {r} : post'[q] = post[q]
    BY <1>1, <1>3, <1>5 DEF Typed, PostRefs
  <1>7. /\ job' \in [Procs -> JobRefs] /\ job'[r] = j
        /\ \A q \in Procs \ {r} : job'[q] = job[q]
    BY <1>1, <1>2, <1>3, <1>4 DEF Typed, JobRefs
  <1>8. /\ answer' \in [Requests -> Answers] /\ answer'[r] = "none"
        /\ \A q \in Requests \ {r} : answer'[q] = answer[q]
    BY <1>2, <1>3 DEF Typed, Answers
  <1>9. pc'[r] = "replaying"
    BY <1>2, <1>3 DEF Typed
  <1>10. ReaderOK(r)' /\ AnswerOK(r)'
    BY <1>1, <1>2, <1>5, <1>6, <1>7, <1>8, <1>9 DEF ReaderOK, AnswerOK
  <1> QED
    BY <1>2, <1>3, <1>6, <1>7, <1>8, <1>10, Drops DEF Typed, Free

\* The post is still new when it is inserted, as the snapshot is not stale.
LEMMA InsertPostStep ==
    ASSUME IInv, NEW r \in Requests, InsertPost(r)
    PROVE  IInv'
  <1> DEFINE k == post[r]
             p == db.posts \cup {k}
             i == db.inbox \cup {k}
  <1>1. /\ pc[r] = "capturing" /\ r \notin stale /\ r \in Procs
        /\ lock = Nobody /\ lock' = r
        /\ view' = [db EXCEPT !.posts = @ \cup {k}, !.inbox = @ \cup {k}]
        /\ pc' = [pc EXCEPT ![r] = "inserted"]
        /\ UNCHANGED <<db, saved, job, post, stale, answer>>
    BY DEF InsertPost, TakeLock, Goto, Procs
  <1>2. Typed /\ Good(db) /\ k \in Keys \ db.posts /\ db \in Database
    BY <1>1 DEF IInv, ReaderOK, Typed
  <1>3. p \in SUBSET Keys /\ i \in SUBSET Keys /\ p = i
    BY <1>2 DEF Typed, Database, Good
  <1>4. view' = [db EXCEPT !.posts = p, !.inbox = i]
    BY <1>1, <1>2 DEF Typed, Database
  <1> HIDE DEF p, i
  <1>5. /\ view' \in Database /\ (view').jobs = db.jobs
        /\ (view').posts = p /\ (view').inbox = i
        /\ (view').features = db.features
    BY <1>2, <1>3, <1>4 DEF Database
  <1>6. pc'[r] = "inserted"
    BY <1>1, <1>2 DEF Typed
  <1>7. HolderOK(r)'
    BY <1>1, <1>2, <1>3, <1>5, <1>6 DEF HolderOK, p
  <1> QED
    BY <1>1, <1>2, <1>5, <1>7, Writes DEF Typed, Held

\* The new post's job goes with it.
LEMMA EnqueueCaptureStep ==
    ASSUME IInv, NEW r \in Requests, EnqueueCapture(r)
    PROVE  IInv'
  <1> DEFINE k == post[r]
  <1>1. /\ pc[r] = "inserted" /\ r \in Procs
        /\ pc' = [pc EXCEPT ![r] = "commit"]
        /\ UNCHANGED <<db, lock, saved, job, post, stale, answer>>
    BY DEF EnqueueCapture, Goto, Procs
  <1>2. /\ lock = r /\ Typed /\ Good(db)
        /\ db \in Database /\ view \in Database
        /\ k \in Keys \ db.posts /\ view.jobs = db.jobs
        /\ view.posts = db.posts \cup {k} /\ view.inbox = view.posts
        /\ view.features = db.features
    BY <1>1 DEF IInv, Typed, LockAgrees, Held, HolderOK
  <1>3. PICK j \in JobIds :
            /\ j \notin DOMAIN view.jobs
            /\ view' = [view EXCEPT !.jobs = EnqueueJob(view.jobs, j, k, 100)]
    BY DEF EnqueueCapture, IsFreshId
  <1>4. IsTable(db.jobs) /\ j \in JobIds \ DOMAIN db.jobs /\ 100 \in Priority
    BY <1>2, <1>3, TablesMeaning DEF Typed, Database, Priority
  <1>5. EnqueueJob(db.jobs, j, k, 100) \in Tables
    BY <1>2, <1>4, EnqueueJobFacts, TablesMeaning
  <1>6. /\ view' \in Database
        /\ (view').jobs = EnqueueJob(db.jobs, j, k, 100)
        /\ (view').posts = db.posts \cup {k} /\ (view').inbox = (view').posts
        /\ (view').features = db.features
    BY <1>2, <1>3, <1>5, WithJobs
  <1>7. Active(db.jobs, k) = {}
    BY <1>2 DEF Good, Active
  <1>8. Step(db, view')
    <2>1. /\ db \in Database /\ Good(db) /\ k \in Keys
          /\ k \notin db.posts \/ k \in BuriedKeys(db)
      BY <1>2
    <2> QED
      BY <1>4, <1>6, <1>7, <2>1, EnqueueStep
  <1>9. pc'[r] = "commit"
    BY <1>1, <1>2 DEF Typed
  <1>10. HolderOK(r)'
    BY <1>1, <1>6, <1>8, <1>9 DEF HolderOK
  <1> QED
    BY <1>1, <1>2, <1>6, <1>10, Writes DEF Typed, Held

\* A replay enqueues the post's key again, or leaves the rows as they are.
LEMMA EnqueueReplayStep ==
    ASSUME IInv, NEW r \in Requests, EnqueueReplay(r)
    PROVE  IInv'
  <1> DEFINE k == post[r]
             q == ReplayPriority(db.jobs, job[r])
  <1>1. /\ pc[r] = "replaying" /\ r \notin stale /\ r \in Procs
        /\ lock = Nobody /\ lock' = r
        /\ pc' = [pc EXCEPT ![r] = "commit"]
        /\ UNCHANGED <<db, saved, job, post, stale, answer>>
    BY DEF EnqueueReplay, TakeLock, Goto, Procs
  <1>2. /\ Typed /\ Good(db) /\ k \in Keys /\ db \in Database
        /\ job[r] \in DOMAIN db.jobs /\ db.jobs[job[r]].key = k
        /\ db.jobs[job[r]].status = "dead"
    BY <1>1 DEF IInv, ReaderOK, Typed
  <1>3. k \in db.posts /\ k \in BuriedKeys(db)
    BY <1>2 DEF Good, BuriedKeys
  <1>4. pc'[r] = "commit"
    BY <1>1, <1>2 DEF Typed
  <1>5. CASE view' = db
    <2>1. Step(db, view') /\ k \in (view').posts
      BY <1>2, <1>3, <1>5, SameRowsStep DEF SameRows
    <2>2. HolderOK(r)'
      BY <1>1, <1>4, <2>1 DEF HolderOK
    <2> QED
      BY <1>1, <1>2, <1>5, <2>2, Writes DEF Typed, Held
  <1>6. ASSUME NEW j \in JobIds, j \notin DOMAIN db.jobs, ~IsDuplicate(db.jobs, k),
               view' = [db EXCEPT !.jobs = EnqueueJob(db.jobs, j, k, q)]
        PROVE  IInv'
    <2>1. IsTable(db.jobs) /\ db.jobs[job[r]] \in JobRow
      BY <1>2, TablesMeaning, RowType DEF Typed, Database
    <2>2. q \in Priority
      BY <2>1 DEF ReplayPriority, Priority, JobRow
    <2> HIDE DEF q
    <2>3. EnqueueJob(db.jobs, j, k, q) \in Tables
      BY <1>2, <1>6, <2>1, <2>2, EnqueueJobFacts, TablesMeaning
    <2>4. /\ view' \in Database
          /\ (view').jobs = EnqueueJob(db.jobs, j, k, q)
          /\ (view').posts = db.posts /\ (view').inbox = db.inbox
          /\ (view').features = db.features
      BY <1>2, <1>6, <2>3, WithJobs DEF Typed
    <2>5. /\ (view').posts = db.posts \cup {k}
          /\ (view').inbox = (view').posts
      BY <1>2, <1>3, <2>4 DEF Good
    <2>6. Active(db.jobs, k) = {}
      BY <1>6 DEF IsDuplicate
    <2>7. Step(db, view')
      <3>1. j \in JobIds \ DOMAIN db.jobs
        BY <1>6
      <3>2. k \notin db.posts \/ k \in BuriedKeys(db)
        BY <1>3
      <3> QED
        BY <1>2, <2>2, <2>4, <2>5, <2>6, <3>1, <3>2, EnqueueStep
    <2>8. HolderOK(r)'
      BY <1>1, <1>4, <2>5, <2>7 DEF HolderOK
    <2> QED
      BY <1>1, <1>2, <2>4, <2>8, Writes DEF Typed, Held
  <1> QED
    BY <1>5, <1>6 DEF EnqueueReplay, TakeLock, IsFreshId

-----------------------------------------------------------------------------
(* Both kinds of process: failures, and time.                              *)

\* An exception or a crash loses what was not committed, and nothing else.
LEMMA RollbackStep ==
    ASSUME IInv, NEW p \in Procs, NEW l \in {"idle", "down"}, Rollback(p, l),
           post' = post, answer' \in [Requests -> Answers],
           \A q \in Requests \ {p} : answer'[q] = answer[q],
           p \in Requests => answer'[p] \in {answer[p], "error"}
    PROVE  IInv'
  <1>1. /\ lock' = IF lock = p THEN Nobody ELSE lock
        /\ view' = IF lock = p THEN EmptyDatabase ELSE view
        /\ saved' = IF lock = p THEN EmptyDatabase ELSE saved
        /\ pc' = [pc EXCEPT ![p] = l] /\ job' = [job EXCEPT ![p] = 0]
        /\ stale' = stale \ {p} /\ db' = db
    BY DEF Rollback, Close, Goto
  <1>2. view' \in Database /\ saved' \in Database
    BY <1>1, EmptyFacts DEF IInv, Typed
  <1>3. /\ job' \in [Procs -> JobRefs]
        /\ \A q \in Procs \ {p} : job'[q] = job[q]
        /\ pc'[p] = l
    BY <1>1 DEF IInv, Typed, JobRefs
  <1>4. p \in Requests => ReaderOK(p)' /\ AnswerOK(p)'
    BY <1>1, <1>3 DEF ReaderOK, AnswerOK, IInv
  <1> QED
    BY <1>1, <1>2, <1>3, <1>4, Drops DEF IInv, Typed, Free

\* A worker that ends or starts again holds nothing.
LEMMA DownStep ==
    ASSUME IInv, NEW w \in Workers, LockTimeout(w) \/ Restart(w)
    PROVE  IInv'
  <1>1. PICK l \in {"idle", "down"} : pc' = [pc EXCEPT ![w] = l]
    BY DEF LockTimeout, Restart, Goto
  <1>2. /\ pc[w] \in {"idle", "down"} /\ w \in Procs /\ w \notin Requests
        /\ UNCHANGED <<db, lock, view, saved, job, post, stale, answer>>
    BY CaptureWorkerAssumption DEF LockTimeout, Restart, Procs
  <1>3. lock # w /\ Typed
    BY <1>2 DEF IInv, LockAgrees, Held
  <1> QED
    BY <1>1, <1>2, <1>3, Drops DEF Typed, Free

\* A job that becomes due is the same job to the pipeline and to every reader.
LEMMA BecomesDueStep ==
    ASSUME IInv, NEW j \in DOMAIN db.jobs, BecomesDue(j)
    PROVE  IInv' /\ Step(db, db')
  <1> DEFINE s == [db.jobs[j] EXCEPT !.due = TRUE]
  <1>1. /\ lock = Nobody
        /\ db' = [db EXCEPT !.jobs[j].due = TRUE]
        /\ UNCHANGED <<lock, view, saved, pc, job, post, stale, answer>>
    BY DEF BecomesDue
  <1>2. Typed /\ Good(db)
    BY DEF IInv
  <1>3. IsTable(db.jobs) /\ db.jobs[j] \in JobRow
    BY <1>2, TablesMeaning, RowType DEF Typed, Database
  <1>4. /\ s \in JobRow /\ s.key = db.jobs[j].key
        /\ s.status = db.jobs[j].status /\ s.attempts = db.jobs[j].attempts
    BY <1>3 DEF JobRow
  <1>5. db' = [db EXCEPT !.jobs = [db.jobs EXCEPT ![j] = s]]
    BY <1>1, <1>2 DEF Typed, Database
  <1> HIDE DEF s
  <1>6. /\ [db.jobs EXCEPT ![j] = s] \in Tables
        /\ DOMAIN [db.jobs EXCEPT ![j] = s] = DOMAIN db.jobs
        /\ [db.jobs EXCEPT ![j] = s][j] = s
        /\ \A i \in DOMAIN db.jobs : i # j => [db.jobs EXCEPT ![j] = s][i] = db.jobs[i]
    BY <1>3, <1>4, UpdateRowFacts, TablesMeaning
  <1>7. /\ db' \in Database
        /\ (db').jobs = [db.jobs EXCEPT ![j] = s]
        /\ (db').posts = db.posts /\ (db').inbox = db.inbox
        /\ (db').features = db.features
    BY <1>2, <1>5, <1>6, WithJobs DEF Typed
  <1>8. /\ DOMAIN (db').jobs = DOMAIN db.jobs
        /\ \A i \in DOMAIN db.jobs :
            /\ (db').jobs[i].key = db.jobs[i].key
            /\ (db').jobs[i].status = db.jobs[i].status
            /\ (db').jobs[i].attempts = db.jobs[i].attempts
    BY <1>4, <1>6, <1>7
  <1>9. Good(db')
    <2>1. {(db').jobs[i].key : i \in DOMAIN (db').jobs} = {db.jobs[i].key : i \in DOMAIN db.jobs}
      BY <1>8
    <2>2. UniqueActive((db').jobs)
      BY <1>2, <1>8 DEF Good, UniqueActive
    <2>3. \A i \in DOMAIN (db').jobs : AtRest((db').jobs[i])
      BY <1>2, <1>8 DEF Good, AtRest
    <2>4. ASSUME NEW k \in Keys
          PROVE  k \in (db').features <=>
                    \E i \in DOMAIN (db').jobs :
                        (db').jobs[i].key = k /\ (db').jobs[i].status = "completed"
      BY <1>2, <1>7, <1>8 DEF Good
    <2> QED
      BY <1>2, <1>7, <2>1, <2>2, <2>3, <2>4 DEF Good
  <1>10. QueuedKeys(db') = QueuedKeys(db) /\ BuriedKeys(db') = BuriedKeys(db)
    BY <1>8 DEF QueuedKeys, BuriedKeys, Active
  <1>11. Step(db, db')
    BY <1>7, <1>9, <1>10 DEF Step, Stutters
  <1>12. \A p \in Procs : HolderOK(p)'
    BY <1>1, CaptureWorkerAssumption DEF IInv, LockAgrees, Held, HolderOK, Procs
  <1>13. \A r \in Requests : ReaderOK(r)' /\ AnswerOK(r)'
    BY <1>1, <1>7, <1>8 DEF IInv, ReaderOK, AnswerOK
  <1>14. Typed' /\ LockAgrees'
    BY <1>1, <1>7 DEF IInv, Typed, LockAgrees
  <1> QED
    BY <1>9, <1>11, <1>12, <1>13, <1>14 DEF IInv

\* A token more or less is nothing to the pipeline.
LEMMA RefillStep ==
    ASSUME IInv, Refill
    PROVE  IInv' /\ Step(db, db')
  <1>1. /\ lock = Nobody
        /\ db' = [db EXCEPT !.tokens = db.tokens + 1]
        /\ UNCHANGED <<lock, view, saved, pc, job, post, stale, answer>>
    BY DEF Refill
  <1>2. Typed /\ Good(db)
    BY DEF IInv
  <1>3. db' \in Database /\ SameRows(db, db')
    <2>1. db.tokens + 1 \in Int
      BY <1>2 DEF Typed, Database
    <2> QED
      BY <1>1, <1>2, <2>1, WithTokens DEF Typed
  <1>4. Step(db, db') /\ Good(db')
    BY <1>2, <1>3, SameRowsStep DEF Step
  <1>5. \A p \in Procs : HolderOK(p)'
    BY <1>1, CaptureWorkerAssumption DEF IInv, LockAgrees, Held, HolderOK, Procs
  <1>6. \A r \in Requests : ReaderOK(r)' /\ AnswerOK(r)'
    BY <1>1, <1>3 DEF IInv, ReaderOK, AnswerOK, SameRows
  <1>7. Typed' /\ LockAgrees'
    BY <1>1, <1>3 DEF IInv, Typed, LockAgrees
  <1> QED
    BY <1>4, <1>5, <1>6, <1>7 DEF IInv

-----------------------------------------------------------------------------
(* The theorems.                                                           *)

\* Every step keeps the invariant and is a step of the pipeline, or none.
LEMMA NextIInv == IInv /\ [Next]_vars => IInv' /\ Step(db, db')
  <1> SUFFICES ASSUME IInv, [Next]_vars PROVE IInv' /\ Step(db, db')
    OBVIOUS
  <1>1. ASSUME db' = db PROVE Step(db, db')
    BY <1>1, SameRowsStep DEF IInv, SameRows
  <1>2. ASSUME NEW w \in Workers,
               Poll(w) \/ LockTimeout(w) \/ WorkerStep(w) \/ WorkerCrash(w) \/ Restart(w)
        PROVE  IInv' /\ Step(db, db')
    <2>1. CASE Poll(w)
      BY <1>1, <2>1, PollStep DEF Poll
    <2>2. CASE LockTimeout(w) \/ Restart(w)
      BY <1>1, <2>2, DownStep DEF LockTimeout, Restart
    <2>3. CASE Admit(w)
      BY <1>1, <2>3, AdmitStep DEF Admit
    <2>4. CASE FindNothing(w)
      BY <1>1, <2>4, FindNothingStep DEF FindNothing
    <2>5. CASE Claim(w)
      BY <1>1, <2>5, ClaimStep DEF Claim
    <2>6. CASE ClaimUnhandled(w)
      BY <1>1, <2>6, ClaimUnhandledStep DEF ClaimUnhandled
    <2>7. CASE HandlerWrites(w)
      BY <1>1, <2>7, HandlerWritesStep DEF HandlerWrites
    <2>8. CASE HandlerReturns(w)
      BY <1>1, <2>8, HandlerReturnsStep DEF HandlerReturns
    <2>9. CASE HandlerRaises(w)
      BY <1>1, <2>9, HandlerRaisesStep DEF HandlerRaises
    <2>10. CASE CommitPoll(w)
      <3>1. w \in Procs /\ answer \in [Requests -> Answers]
        BY DEF Procs, IInv, Typed
      <3> QED
        BY <2>10, <3>1, Commits DEF CommitPoll
    <2>11. CASE WorkerCrash(w)
      <3>1. w \in Procs /\ w \notin Requests /\ answer \in [Requests -> Answers]
        BY CaptureWorkerAssumption DEF Procs, IInv, Typed
      <3>2. Rollback(w, "down") /\ UNCHANGED <<db, post, answer>>
        BY <2>11 DEF WorkerCrash, Rollback
      <3> QED
        BY <1>1, <3>1, <3>2, RollbackStep
    <2> QED
      BY <1>2, <2>1, <2>2, <2>3, <2>4, <2>5, <2>6, <2>7, <2>8, <2>9, <2>10, <2>11
      DEF WorkerStep
  <1>3. ASSUME NEW r \in Requests,
               Capture(r) \/ Replay(r) \/ RequestStep(r) \/ RequestCrash(r)
        PROVE  IInv' /\ Step(db, db')
    <2>1. r \in Procs /\ answer \in [Requests -> Answers]
      BY DEF Procs, IInv, Typed
    <2>2. ASSUME NEW a \in Answers, Reply(r, a)
          PROVE  /\ answer' \in [Requests -> Answers]
                 /\ answer'[r] = a
                 /\ \A q \in Requests \ {r} : answer'[q] = answer[q]
      BY <2>1, <2>2 DEF Reply
    <2>3. CASE Capture(r)
      BY <1>1, <2>3, CaptureStep DEF Capture
    <2>4. CASE Replay(r)
      BY <1>1, <2>4, ReplayStep DEF Replay
    <2>5. CASE InsertPost(r)
      BY <1>1, <2>5, InsertPostStep DEF InsertPost
    <2>6. CASE EnqueueCapture(r)
      BY <1>1, <2>6, EnqueueCaptureStep DEF EnqueueCapture
    <2>7. CASE EnqueueReplay(r)
      BY <1>1, <2>7, EnqueueReplayStep DEF EnqueueReplay
    <2>8. CASE RefuseCapture(r) \/ RefuseReplay(r) \/ Refused(r)
      <3>1. Rollback(r, "idle") /\ Reply(r, "error") /\ post' = post /\ db' = db
        BY <2>8 DEF RefuseCapture, RefuseReplay, Refused, Rollback
      <3>2. /\ answer' \in [Requests -> Answers]
            /\ answer'[r] = "error"
            /\ \A q \in Requests \ {r} : answer'[q] = answer[q]
        BY <2>2, <3>1 DEF Answers
      <3> QED
        BY <1>1, <2>1, <3>1, <3>2, RollbackStep
    <2>9. CASE CommitRequest(r)
      <3>1. pc[r] = "commit" /\ Commit(r) /\ Reply(r, "accepted") /\ post' = post
        BY <2>9 DEF CommitRequest
      <3>2. /\ answer' \in [Requests -> Answers]
            /\ \A q \in Requests \ {r} : answer'[q] = answer[q]
        BY <2>2, <3>1 DEF Answers
      <3> QED
        BY <2>1, <3>1, <3>2, Commits
    <2>10. CASE RequestCrash(r)
      <3>1. post' = post /\ answer' = answer
        BY <2>10 DEF RequestCrash
      <3>2. CASE Rollback(r, "idle")
        <4>1. db' = db
          BY <3>2 DEF Rollback
        <4> QED
          BY <1>1, <2>1, <3>1, <3>2, <4>1, RollbackStep
      <3>3. CASE pc[r] = "commit" /\ Commit(r)
        BY <2>1, <3>1, <3>3, Commits
      <3> QED
        BY <2>10, <3>2, <3>3 DEF RequestCrash
    <2> QED
      BY <1>3, <2>3, <2>4, <2>5, <2>6, <2>7, <2>8, <2>9, <2>10 DEF RequestStep
  <1>4. CASE \E j \in DOMAIN db.jobs : BecomesDue(j)
    BY <1>4, BecomesDueStep
  <1>5. CASE Refill
    BY <1>5, RefillStep
  <1>6. CASE UNCHANGED vars
    <2> USE <1>6 DEF vars
    <2>1. Typed' /\ LockAgrees' /\ Good(db')
      BY DEF IInv, Typed, LockAgrees
    <2>2. \A p \in Procs : HolderOK(p)'
      BY DEF IInv, HolderOK, Claimed
    <2>3. \A r \in Requests : ReaderOK(r)' /\ AnswerOK(r)'
      BY DEF IInv, ReaderOK, AnswerOK
    <2> QED
      BY <1>1, <2>1, <2>2, <2>3 DEF IInv
  <1> QED
    BY <1>2, <1>3, <1>4, <1>5, <1>6 DEF Next

\* Every reachable state satisfies the inductive invariant.
THEOREM IInvCorrect == Spec => []IInv
  BY InitIInv, NextIInv, PTL DEF Spec

\* For any number of workers, however they crash, no job or attempt is ever
\* committed as running, and a feature is there exactly for a completed job.
THEOREM PollCorrect == Spec => []PollIsAtomic
  <1>1. IInv => PollIsAtomic
    BY DEF IInv, Good, AtRest, PollIsAtomic
  <1> QED
    BY <1>1, IInvCorrect, PTL

\* A post, its inbox row and its first job are there together, whatever requests
\* race, are refused or crash.
THEOREM CaptureCorrect == Spec => []CaptureIsAtomic
  <1>1. IInv => CaptureIsAtomic
    BY DEF IInv, Good, CaptureIsAtomic
  <1> QED
    BY <1>1, IInvCorrect, PTL

\* A client told 202 can forget the post, whatever was read before the commit.
THEOREM AnswerCorrect == Spec => []AnsweredIsStored
  <1>1. IInv => AnsweredIsStored
    BY DEF IInv, AnswerOK, AnsweredIsStored
  <1> QED
    BY <1>1, IInvCorrect, PTL

\* Every step of the transactions is a step of the pipeline or none.
LEMMA StepIsPipeline == IInv /\ [Next]_vars => [Pipeline!Next]_(Pipeline!vars)
  <1> SUFFICES ASSUME IInv, [Next]_vars PROVE [Pipeline!Next]_(Pipeline!vars)
    OBVIOUS
  <1>1. Step(db, db')
    BY NextIInv
  <1>2. db \in Database /\ Good(db) /\ db' \in Database
    BY NextIInv DEF IInv, Typed
  <1>3. CASE Accepts(db, db')
    BY <1>3 DEF Accepts, QueuedKeys, BuriedKeys, Pipeline!Next, Pipeline!Accept
  <1>4. CASE Finishes(db, db')
    BY <1>4 DEF Finishes, QueuedKeys, BuriedKeys, Pipeline!Next, Pipeline!Finish
  <1>5. CASE Buries(db, db')
    BY <1>5 DEF Buries, QueuedKeys, BuriedKeys, Pipeline!Next, Pipeline!Bury
  <1>6. CASE Replays(db, db')
    BY <1>6 DEF Replays, QueuedKeys, BuriedKeys, Pipeline!Next, Pipeline!Replay
  <1>7. CASE Stutters(db, db')
    BY <1>7 DEF Stutters, QueuedKeys, BuriedKeys, Pipeline!vars
  <1> QED
    BY <1>1, <1>3, <1>4, <1>5, <1>6, <1>7 DEF Step

\* For all constants, the transactions on the shared file implement the pipeline
\* that knows neither transactions nor crashes.
THEOREM PipelineCorrect == Spec => ImplementsPipeline
  <1>1. Init => Pipeline!Init
    BY DEF Init, EmptyDatabase, EmptyTable, Pipeline!Init, Active
  <1> QED
    BY <1>1, IInvCorrect, StepIsPipeline, PTL
    DEF Spec, ImplementsPipeline, Pipeline!Spec

\* An accepted post is queued, done or buried, and nothing else is: the worker
\* loses no post and normalizes none that was not captured.
THEOREM NothingIsLost == Spec => []Pipeline!NothingLost
  <1>1. IInv => Pipeline!NothingLost
    <2> SUFFICES ASSUME IInv PROVE Pipeline!NothingLost
      OBVIOUS
    <2>1. Good(db) /\ IsTable(db.jobs)
      BY TablesMeaning DEF IInv, Typed, Database
    <2>2. \A j \in DOMAIN db.jobs :
            db.jobs[j].status \in {"pending", "retry", "completed", "dead"}
      BY <2>1, RowType DEF Good, AtRest, JobRow, Status, ActiveStatus
    <2>3. db.posts \subseteq Keys /\ db.features \subseteq Keys
      BY DEF IInv, Typed, Database
    <2>4. ASSUME NEW k \in Keys
          PROVE  k \in db.posts <=>
                    \/ Active(db.jobs, k) # {}
                    \/ k \in db.features
                    \/ \E j \in DOMAIN db.jobs :
                        db.jobs[j].key = k /\ db.jobs[j].status = "dead"
      BY <2>1, <2>2 DEF Good, Active, ActiveStatus
    <2> QED
      BY <2>3, <2>4 DEF Pipeline!NothingLost
  <1> QED
    BY <1>1, IInvCorrect, PTL

=============================================================================
