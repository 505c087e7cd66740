---------------------------- MODULE CaptureWorker ----------------------------
(***************************************************************************)
(* The processes that share one SQLite file: requests of the API (capture, *)
(* xnative/api/routes/capture.py, and replay of a dead letter,             *)
(* xnative/api/routes/jobs.py) and workers (xnative/worker/scheduler.py).  *)
(* Each of them works in a UnitOfWork, that is in a deferred transaction   *)
(* of SQLite in WAL mode:                                                  *)
(*   - a transaction that starts with a SELECT reads a snapshot; its first *)
(*     write fails at once when another transaction holds the write lock   *)
(*     or has committed since the snapshot;                                *)
(*   - a transaction that starts with a write (a worker's, by recovering   *)
(*     leases) waits for the write lock and reads the newest commit;       *)
(*   - commit publishes everything, an exception or a crash nothing.       *)
(*                                                                         *)
(* A dedupe key is normalize_capture:{post}:v1, so Keys are the posts.     *)
(***************************************************************************)
EXTENDS JobTable

CONSTANTS
    Workers,       \* worker processes
    Requests,      \* concurrent API requests
    PolledClass,   \* the resource class the workers run
    Unhandled,     \* keys whose job type has no handler
    Capacity,      \* worker_token_bucket_capacity, in jobs
    MaxReplays,    \* bound: replayed dead letters
    MaxCrashes,    \* bound: crashes and lock timeouts of processes
    Nobody         \* not a process

ASSUME CaptureWorkerAssumption ==
    /\ Workers \cap Requests = {}
    /\ Nobody \notin Workers \cup Requests
    /\ PolledClass \in Classes
    /\ Unhandled \subseteq Keys
    /\ Capacity \in Nat \ {0}
    /\ MaxReplays \in Nat
    /\ MaxCrashes \in Nat

VARIABLES
    db,       \* the last committed state
    lock,     \* the process with the write lock, or Nobody
    view,     \* what the holder of the lock has written and not yet committed
    saved,    \* the view at the worker's savepoint
    pc,       \* where each process is
    job,      \* the job a worker has claimed or a request replays, or 0
    post,     \* the post each request is or was about, or Nobody
    stale,    \* requests whose snapshot is older than db
    answer,   \* the last answer given to each request
    crashes,  \* crashes and lock timeouts so far
    starts    \* history: how often a job was handed to its handler

vars == <<db, lock, view, saved, pc, job, post, stale, answer, crashes, starts>>

Procs == Workers \cup Requests

\* posts stands for captured_posts with its search row and media assets, inbox
\* for capture_inbox, features for feature_records and tokens for the workers'
\* row of rate_limit_buckets; audit rows are written along and left out.
EmptyDatabase ==
    [jobs |-> EmptyTable, posts |-> {}, inbox |-> {}, features |-> {},
     tokens |-> Capacity]

Init ==
    /\ db = EmptyDatabase
    /\ lock = Nobody
    /\ view = EmptyDatabase
    /\ saved = EmptyDatabase
    /\ pc = [p \in Procs |-> "idle"]
    /\ job = [p \in Procs |-> 0]
    /\ post = [r \in Requests |-> Nobody]
    /\ stale = {}
    /\ answer = [r \in Requests |-> "none"]
    /\ crashes = 0
    /\ starts = [j \in JobIds |-> 0]

-----------------------------------------------------------------------------
(* Units of work.                                                          *)

Goto(p, label) == pc' = [pc EXCEPT ![p] = label]

\* The requests that have read and not yet written.
Readers == {r \in Requests : pc[r] \in {"capturing", "replaying"}}

\* The first write of a transaction.
TakeLock(p, written) ==
    /\ lock = Nobody
    /\ lock' = p
    /\ view' = written

Close(p, label) ==
    /\ Goto(p, label)
    /\ job' = [job EXCEPT ![p] = 0]
    /\ lock' = IF lock = p THEN Nobody ELSE lock
    /\ view' = IF lock = p THEN EmptyDatabase ELSE view
    /\ saved' = IF lock = p THEN EmptyDatabase ELSE saved

\* A request that has written an audit row, or a worker its bucket, makes the
\* open snapshots stale.
Commit(p) ==
    /\ db' = view
    /\ stale' = stale \cup Readers
    /\ Close(p, "idle")

\* Mutant: after an exception the connection is never rolled back or closed.
RollbackForgotten(p, label) ==
    /\ stale' = stale \ {p}
    /\ Goto(p, label)
    /\ job' = [job EXCEPT ![p] = 0]
    /\ UNCHANGED <<db, lock, view, saved>>

Rollback(p, label) ==
    /\ stale' = stale \ {p}
    /\ Close(p, label)
    /\ UNCHANGED db

-----------------------------------------------------------------------------
(* A worker: run_due_job_once with a token bucket, called for ever by      *)
(* run_worker_loop.                                                        *)

\* BEGIN and recover_expired_leases.
Poll(w) ==
    /\ pc[w] = "idle"
    /\ TakeLock(w, [db EXCEPT !.jobs = RecoverExpiredLeases(db.jobs)])
    /\ Goto(w, "admit")
    /\ UNCHANGED <<db, saved, job, post, stale, answer, crashes, starts>>

\* busy_timeout passes while another transaction holds the lock: the exception
\* leaves run_worker_loop and ends the worker.
LockTimeout(w) ==
    /\ pc[w] = "idle"
    /\ lock # Nobody
    /\ crashes < MaxCrashes
    /\ crashes' = crashes + 1
    /\ Goto(w, "down")
    /\ UNCHANGED <<db, lock, view, saved, job, post, stale, answer, starts>>

\* try_acquire: an empty bucket ends the poll, and the token is spent whether or
\* not there is a job to claim.
Admit(w) ==
    /\ pc[w] = "admit"
    /\ \/ /\ view.tokens = 0
          /\ Goto(w, "commit")
          /\ UNCHANGED view
       \/ /\ view.tokens > 0
          /\ Goto(w, "claim")
          /\ view' = [view EXCEPT !.tokens = @ - 1]
    /\ UNCHANGED <<db, lock, saved, job, post, stale, answer, crashes, starts>>

FindNothing(w) ==
    /\ pc[w] = "claim"
    /\ Claimable(view.jobs, PolledClass) = {}
    /\ Goto(w, "commit")
    /\ UNCHANGED <<db, lock, view, saved, job, post, stale, answer, crashes, starts>>

\* Mutant: the savepoint is set before the claim.
ClaimAfterSavepoint(w) ==
    /\ pc[w] = "claim"
    /\ \E j \in Claimable(view.jobs, PolledClass) :
        /\ view.jobs[j].key \notin Unhandled
        /\ view' = [view EXCEPT !.jobs = ClaimJob(view.jobs, j)]
        /\ saved' = view
        /\ job' = [job EXCEPT ![w] = j]
        /\ starts' = [starts EXCEPT ![j] = @ + 1]
    /\ Goto(w, "handle")
    /\ UNCHANGED <<db, lock, post, stale, answer, crashes>>

\* claim_next, then SAVEPOINT job_handler for a known job type.
Claim(w) ==
    /\ pc[w] = "claim"
    /\ \E j \in Claimable(view.jobs, PolledClass) :
        /\ view.jobs[j].key \notin Unhandled
        /\ view' = [view EXCEPT !.jobs = ClaimJob(view.jobs, j)]
        /\ saved' = view'
        /\ job' = [job EXCEPT ![w] = j]
        /\ starts' = [starts EXCEPT ![j] = @ + 1]
    /\ Goto(w, "handle")
    /\ UNCHANGED <<db, lock, post, stale, answer, crashes>>

\* A job type without a handler is failed for good in the same transaction.
ClaimUnhandled(w) ==
    /\ pc[w] = "claim"
    /\ \E j \in Claimable(view.jobs, PolledClass) :
        /\ view.jobs[j].key \in Unhandled
        /\ view' = [view EXCEPT !.jobs = FailJob(ClaimJob(view.jobs, j), j, FALSE)]
    /\ Goto(w, "commit")
    /\ UNCHANGED <<db, lock, saved, job, post, stale, answer, crashes, starts>>

\* normalize_capture_job upserts the feature of the post.
HandlerWrites(w) ==
    /\ pc[w] = "handle"
    /\ view' = [view EXCEPT !.features = @ \cup {view.jobs[job[w]].key}]
    /\ Goto(w, "handled")
    /\ UNCHANGED <<db, lock, saved, job, post, stale, answer, crashes, starts>>

HandlerReturns(w) ==
    /\ pc[w] = "handled"
    /\ view' = [view EXCEPT !.jobs = CompleteJob(view.jobs, job[w])]
    /\ Goto(w, "commit")
    /\ UNCHANGED <<db, lock, saved, job, post, stale, answer, crashes, starts>>

\* Mutant: no savepoint, the handler's writes stay.
RaiseKeepingWrites(w) ==
    /\ pc[w] \in {"handle", "handled"}
    /\ \E retryable \in BOOLEAN :
        view' = [view EXCEPT !.jobs = FailJob(view.jobs, job[w], retryable)]
    /\ Goto(w, "commit")
    /\ UNCHANGED <<db, lock, saved, job, post, stale, answer, crashes, starts>>

\* An exception before or after the handler's writes: ROLLBACK TO the savepoint,
\* then fail_job, retryable unless the exception is a FatalJobError.
HandlerRaises(w) ==
    /\ pc[w] \in {"handle", "handled"}
    /\ \E retryable \in BOOLEAN :
        view' = [saved EXCEPT !.jobs = FailJob(saved.jobs, job[w], retryable)]
    /\ Goto(w, "commit")
    /\ UNCHANGED <<db, lock, saved, job, post, stale, answer, crashes, starts>>

CommitPoll(w) ==
    /\ pc[w] = "commit"
    /\ Commit(w)
    /\ UNCHANGED <<post, answer, crashes, starts>>

\* The process dies in the middle of its transaction.
WorkerCrash(w) ==
    /\ pc[w] \notin {"idle", "down"}
    /\ crashes < MaxCrashes
    /\ crashes' = crashes + 1
    /\ Rollback(w, "down")
    /\ UNCHANGED <<post, answer, starts>>

Restart(w) ==
    /\ pc[w] = "down"
    /\ Goto(w, "idle")
    /\ UNCHANGED <<db, lock, view, saved, job, post, stale, answer, crashes, starts>>

-----------------------------------------------------------------------------
(* A request: persist_capture or replay_dead_letter in a unit of work.     *)

Reply(r, a) == answer' = [answer EXCEPT ![r] = a]

\* _find_existing: a known post is answered from the snapshot.
Capture(r) ==
    /\ pc[r] = "idle"
    /\ \E k \in Keys :
        /\ post' = [post EXCEPT ![r] = k]
        /\ \/ k \in db.posts /\ Reply(r, "duplicate") /\ UNCHANGED pc
           \/ k \notin db.posts /\ Reply(r, "none") /\ Goto(r, "capturing")
    /\ UNCHANGED <<db, lock, view, saved, job, stale, crashes, starts>>

\* Mutant: the write goes through although the snapshot is old.
InsertPostOnOldSnapshot(r) ==
    /\ pc[r] = "capturing"
    /\ TakeLock(r, [db EXCEPT !.posts = @ \cup {post[r]}, !.inbox = @ \cup {post[r]}])
    /\ Goto(r, "inserted")
    /\ UNCHANGED <<db, saved, job, post, stale, answer, crashes, starts>>

\* The first INSERT takes the write lock; the inbox row follows the post.
InsertPost(r) ==
    /\ pc[r] = "capturing"
    /\ r \notin stale
    /\ TakeLock(r, [db EXCEPT !.posts = @ \cup {post[r]}, !.inbox = @ \cup {post[r]}])
    /\ Goto(r, "inserted")
    /\ UNCHANGED <<db, saved, job, post, stale, answer, crashes, starts>>

\* Mutant: the answer is sent before the commit.
EnqueueAndAnswer(r) ==
    /\ pc[r] = "inserted"
    /\ ~Backpressure(view.jobs, post[r])
    /\ \E j \in JobIds :
        /\ IsFreshId(view.jobs, j)
        /\ view' = [view EXCEPT !.jobs = EnqueueJob(view.jobs, j, post[r], 100)]
    /\ Goto(r, "commit")
    /\ Reply(r, "accepted")
    /\ UNCHANGED <<db, lock, saved, job, post, stale, crashes, starts>>

EnqueueCapture(r) ==
    /\ pc[r] = "inserted"
    /\ ~Backpressure(view.jobs, post[r])
    /\ \E j \in JobIds :
        /\ IsFreshId(view.jobs, j)
        /\ view' = [view EXCEPT !.jobs = EnqueueJob(view.jobs, j, post[r], 100)]
    /\ Goto(r, "commit")
    /\ UNCHANGED <<db, lock, saved, job, post, stale, answer, crashes, starts>>

\* Mutant: a full queue is tolerated and the post committed without its job.
CommitWithoutJob(r) ==
    /\ pc[r] = "inserted"
    /\ Backpressure(view.jobs, post[r])
    /\ Goto(r, "commit")
    /\ UNCHANGED <<db, lock, view, saved, job, post, stale, answer, crashes, starts>>

\* QUEUE_BACKPRESSURE leaves the unit of work, which rolls the post back.
RefuseCapture(r) ==
    /\ pc[r] = "inserted"
    /\ Backpressure(view.jobs, post[r])
    /\ Rollback(r, "idle")
    /\ Reply(r, "error")
    /\ UNCHANGED <<post, crashes, starts>>

\* replay_dead_letter reads the dead row; another status is a 404.
Replay(r) ==
    /\ pc[r] = "idle"
    /\ Cardinality(DOMAIN db.jobs) - Cardinality(db.posts) < MaxReplays
    /\ \E j \in DOMAIN db.jobs :
        /\ db.jobs[j].status = "dead"
        /\ job' = [job EXCEPT ![r] = j]
        /\ post' = [post EXCEPT ![r] = db.jobs[j].key]
    /\ Reply(r, "none")
    /\ Goto(r, "replaying")
    /\ UNCHANGED <<db, lock, view, saved, stale, crashes, starts>>

\* enqueue_job under the dead job's key; a duplicate writes only an audit row.
EnqueueReplay(r) ==
    /\ pc[r] = "replaying"
    /\ r \notin stale
    /\ \/ /\ IsDuplicate(db.jobs, post[r])
          /\ TakeLock(r, db)
       \/ /\ ~IsDuplicate(db.jobs, post[r])
          /\ ~Backpressure(db.jobs, post[r])
          /\ \E j \in JobIds :
                /\ IsFreshId(db.jobs, j)
                /\ TakeLock(r, [db EXCEPT !.jobs =
                        EnqueueJob(db.jobs, j, post[r], ReplayPriority(db.jobs, job[r]))])
    /\ Goto(r, "commit")
    /\ UNCHANGED <<db, saved, job, post, stale, answer, crashes, starts>>

\* A full queue is noticed by a read, before the first write.
RefuseReplay(r) ==
    /\ pc[r] = "replaying"
    /\ r \notin stale
    /\ ~IsDuplicate(db.jobs, post[r])
    /\ Backpressure(db.jobs, post[r])
    /\ Rollback(r, "idle")
    /\ Reply(r, "error")
    /\ UNCHANGED <<post, crashes, starts>>

\* SQLITE_BUSY or SQLITE_BUSY_SNAPSHOT at the first write: status 500.
Refused(r) ==
    /\ r \in Readers
    /\ lock # Nobody \/ r \in stale
    /\ Rollback(r, "idle")
    /\ Reply(r, "error")
    /\ UNCHANGED <<post, crashes, starts>>

\* The answer is sent after the unit of work has committed.
CommitRequest(r) ==
    /\ pc[r] = "commit"
    /\ Commit(r)
    /\ Reply(r, "accepted")
    /\ UNCHANGED <<post, crashes, starts>>

\* The process dies while it serves the request, or after the commit and before
\* the answer is out.
RequestCrash(r) ==
    /\ pc[r] # "idle"
    /\ crashes < MaxCrashes
    /\ crashes' = crashes + 1
    /\ \/ Rollback(r, "idle")
       \/ pc[r] = "commit" /\ Commit(r)
    /\ UNCHANGED <<post, answer, starts>>

-----------------------------------------------------------------------------
(* Time: a retry delay ends, the bucket gains a token.  Time passing writes  *)
(* nothing, so no snapshot becomes stale.  It is looked at when a claim or   *)
(* an acquire compares instants, so letting it pass between transactions     *)
(* loses no outcome.                                                         *)

BecomesDue(j) ==
    /\ lock = Nobody
    /\ ~db.jobs[j].due
    /\ db' = [db EXCEPT !.jobs[j].due = TRUE]
    /\ UNCHANGED <<lock, view, saved, pc, job, post, stale, answer, crashes, starts>>

Refill ==
    /\ lock = Nobody
    /\ db.tokens < Capacity
    /\ db' = [db EXCEPT !.tokens = @ + 1]
    /\ UNCHANGED <<lock, view, saved, pc, job, post, stale, answer, crashes, starts>>

-----------------------------------------------------------------------------

WorkerStep(w) ==
    \/ Admit(w) \/ FindNothing(w) \/ Claim(w) \/ ClaimUnhandled(w)
    \/ HandlerWrites(w) \/ HandlerReturns(w) \/ HandlerRaises(w) \/ CommitPoll(w)

RequestStep(r) ==
    \/ InsertPost(r) \/ EnqueueCapture(r) \/ RefuseCapture(r)
    \/ EnqueueReplay(r) \/ RefuseReplay(r) \/ Refused(r) \/ CommitRequest(r)

Next ==
    \/ \E w \in Workers :
        Poll(w) \/ LockTimeout(w) \/ WorkerStep(w) \/ WorkerCrash(w) \/ Restart(w)
    \/ \E r \in Requests :
        Capture(r) \/ Replay(r) \/ RequestStep(r) \/ RequestCrash(r)
    \/ \E j \in DOMAIN db.jobs : BecomesDue(j)
    \/ Refill

Spec == Init /\ [][Next]_vars

\* A process that has begun goes on and a supervisor restarts a worker that
\* ended.  A worker that keeps asking for the write lock gets it in the end
\* (busy_timeout retries while the other transactions are short), and the clock
\* does not wait for the lock: both are strong fairness, as the lock may be taken
\* and released for ever.
FairSpec ==
    /\ Spec
    /\ \A w \in Workers : WF_vars(WorkerStep(w)) /\ WF_vars(Restart(w))
    /\ \A r \in Requests : WF_vars(RequestStep(r))
    /\ SF_vars(\E w \in Workers : Poll(w))
    /\ \A j \in JobIds : SF_vars(j \in DOMAIN db.jobs /\ BecomesDue(j))
    /\ SF_vars(Refill)

-----------------------------------------------------------------------------
(* Properties.                                                             *)

\* A poll is all or nothing.  No commit leaves a job running or an attempt open,
\* so a crash leaves nothing to recover; and a feature is recorded exactly when a
\* job of its post is completed: a handler that raised or died has left no effect,
\* one that returned is not run again.
PollIsAtomic ==
    /\ \A j \in DOMAIN db.jobs :
        /\ db.jobs[j].status # "running"
        /\ \A n \in DOMAIN db.jobs[j].attempts : db.jobs[j].attempts[n] # "running"
    /\ \A k \in Keys :
        k \in db.features <=>
            \E j \in DOMAIN db.jobs :
                db.jobs[j].key = k /\ db.jobs[j].status = "completed"

\* A post, its inbox row and its first job are committed together or not at all,
\* also when the queue is full.
CaptureIsAtomic ==
    /\ db.posts = db.inbox
    /\ db.posts = {db.jobs[j].key : j \in DOMAIN db.jobs}

\* A client that was told 202, accepted or duplicate, can forget the post.
AnsweredIsStored ==
    \A r \in Requests :
        answer[r] \in {"accepted", "duplicate"} => post[r] \in db.posts

\* The transactions implement the pipeline without transactions.
Pipeline ==
    INSTANCE CapturePipeline WITH
        Posts    <- Keys,
        accepted <- db.posts,
        queued   <- {k \in Keys : Active(db.jobs, k) # {}},
        done     <- db.features,
        buried   <- {k \in Keys : \E j \in DOMAIN db.jobs :
                        db.jobs[j].key = k /\ db.jobs[j].status = "dead"}

ImplementsPipeline == Pipeline!Spec

\* Every queued normalization is eventually done or buried, in spite of crashes,
\* retries, an empty bucket and requests competing for the write lock.
EverythingSettles ==
    \A k \in Keys : (Active(db.jobs, k) # {}) ~> (Active(db.jobs, k) = {})

\* A handler is started once for every recorded attempt, and once more only when
\* its worker died: the claim, its attempt and the handler are one transaction,
\* whose crash takes the attempt back, and rolling back to the savepoint does not.
\* ("Retry: 5 deneme" of docs/IMPLEMENTATION_SPECIFICATION.md section 10.3 is
\* therefore true of attempts, and of starts only without crashes.)
StartsWithinMax == \A j \in JobIds : starts[j] <= MaxAttempts + crashes

=============================================================================
