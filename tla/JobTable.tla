------------------------------ MODULE JobTable ------------------------------
(***************************************************************************)
(* The rows of the tables jobs, job_attempts and dead_letters, and what    *)
(* each statement sequence of JobRepository (xnative/db/repositories.py)   *)
(* does to them inside the caller's transaction.  A table is a function    *)
(* from job ids to rows, so an operator of this module maps a table to a   *)
(* table and can be used both on a committed database (JobQueue) and on    *)
(* the private view of an open transaction (CaptureWorker).                *)
(*                                                                         *)
(* Job ids are numbers in the order of insertion: they stand for the uuid  *)
(* and for created_at.  Instants are abstracted to the two comparisons the *)
(* code makes with them: available_at <= now (due) and                     *)
(* lease_expires_at < now (expired).                                       *)
(***************************************************************************)
EXTENDS Integers, Sequences, FiniteSets

CONSTANTS
    JobIds,        \* ids a bounded run may hand out, numbers in insertion order
    Keys,          \* dedupe keys; a key determines job type and payload
    Classes,       \* resource classes (light, heavy, io)
    ClassOf,       \* resource class of the jobs enqueued under a key
    PendingLimit,  \* max_pending_jobs_per_resource
    RunningLimit,  \* light_workers, heavy_workers, io_workers
    MaxAttempts    \* retry_max_attempts

ASSUME JobTableAssumption ==
    /\ JobIds \subseteq Nat
    /\ IsFiniteSet(JobIds)
    /\ ClassOf \in [Keys -> Classes]
    /\ PendingLimit \in [Classes -> Nat \ {0}]
    /\ RunningLimit \in [Classes -> Nat]
    /\ MaxAttempts \in Nat \ {0}

-----------------------------------------------------------------------------

QueuedStatus == {"pending", "retry"}
ActiveStatus == {"pending", "running", "retry"}
Status == ActiveStatus \cup {"completed", "dead"}

AttemptStatus == {"running", "completed", "failed"}

\* Live capture, replay of a dead letter, retry.
Priority == {100, 80, 70}

\* attempt_count is the length of attempts: both grow in the same claim.
JobRow ==
    [key      : Keys,
     status   : Status,
     priority : Priority,
     due      : BOOLEAN,
     expired  : BOOLEAN,
     attempts : Seq(AttemptStatus),
     letters  : Nat]

IsTable(t) ==
    /\ DOMAIN t \subseteq JobIds
    /\ t \in [DOMAIN t -> JobRow]

EmptyTable == [j \in {} |-> {}]

-----------------------------------------------------------------------------
(* Reads.                                                                  *)

Active(t, k) == {j \in DOMAIN t : t[j].key = k /\ t[j].status \in ActiveStatus}

Queued(t, c) ==
    {j \in DOMAIN t : ClassOf[t[j].key] = c /\ t[j].status \in QueuedStatus}

Running(t, c) ==
    {j \in DOMAIN t : ClassOf[t[j].key] = c /\ t[j].status = "running"}

\* The partial unique index idx_jobs_active_dedupe.  A statement whose result
\* breaks it raises IntegrityError.
UniqueActive(t) ==
    \A i, j \in DOMAIN t :
        /\ t[i].status \in ActiveStatus
        /\ t[j].status \in ActiveStatus
        /\ t[i].key = t[j].key
        => i = j

\* The ids are handed out in order.
IsFreshId(t, j) ==
    /\ j \in JobIds \ DOMAIN t
    /\ \A i \in JobIds : i < j => i \in DOMAIN t

-----------------------------------------------------------------------------
(* enqueue_job: an active job under the same key makes the call a          *)
(* duplicate, a full queue of the class makes it raise QUEUE_BACKPRESSURE. *)

IsDuplicate(t, k) == Active(t, k) # {}

\* Mutant: the limit itself is let through.
BackpressureLate(t, k) ==
    Cardinality(Queued(t, ClassOf[k])) > PendingLimit[ClassOf[k]]

Backpressure(t, k) ==
    Cardinality(Queued(t, ClassOf[k])) >= PendingLimit[ClassOf[k]]

NewRow(k, p) ==
    [key |-> k, status |-> "pending", priority |-> p, due |-> TRUE,
     expired |-> FALSE, attempts |-> <<>>, letters |-> 0]

EnqueueJob(t, j, k, p) ==
    [i \in DOMAIN t \cup {j} |-> IF i = j THEN NewRow(k, p) ELSE t[i]]

-----------------------------------------------------------------------------
(* claim_next: priority bands first; inside a band the aging boost, which  *)
(* never shrinks with age, puts an older job of at least the same priority *)
(* first and leaves the order of other pairs to their ages.                *)

Band(p) == IF p >= 100 THEN 3 ELSE IF p >= 50 THEN 2 ELSE 1

Candidates(t, c) == {j \in Queued(t, c) : t[j].due}

GoesBefore(t, i, j) ==
    \/ Band(t[i].priority) > Band(t[j].priority)
    \/ /\ Band(t[i].priority) = Band(t[j].priority)
       /\ i < j
       /\ t[i].priority >= t[j].priority

\* Mutant: the semaphore admits one job too many.
ClaimableOverLimit(t, c) ==
    IF Cardinality(Running(t, c)) > RunningLimit[c]
    THEN {}
    ELSE {j \in Candidates(t, c) : \A i \in Candidates(t, c) : ~GoesBefore(t, i, j)}

Claimable(t, c) ==
    IF Cardinality(Running(t, c)) >= RunningLimit[c]
    THEN {}
    ELSE {j \in Candidates(t, c) : \A i \in Candidates(t, c) : ~GoesBefore(t, i, j)}

ClaimRow(r) ==
    [r EXCEPT !.status   = "running",
              !.expired  = FALSE,
              !.attempts = Append(r.attempts, "running")]

ClaimJob(t, j) == [t EXCEPT ![j] = ClaimRow(t[j])]

-----------------------------------------------------------------------------
(* recover_expired_leases, complete_job and fail_job.                      *)

\* Mutant: the status is not reset.
RecoverRowKeepsRunning(r) ==
    IF r.status = "running" /\ r.expired THEN [r EXCEPT !.expired = FALSE] ELSE r

RecoverRow(r) ==
    IF r.status = "running" /\ r.expired
    THEN [r EXCEPT !.status = "pending", !.expired = FALSE]
    ELSE r

RecoverExpiredLeases(t) == [j \in DOMAIN t |-> RecoverRow(t[j])]

\* Both ways of settling a job close every attempt row still 'running'.
CloseAttempts(attempts, verdict) ==
    [n \in DOMAIN attempts |->
        IF attempts[n] = "running" THEN verdict ELSE attempts[n]]

\* Mutant: the attempt is left open.
CompleteRowOnly(r) ==
    IF r.status = "running"
    THEN [r EXCEPT !.status = "completed", !.expired = FALSE]
    ELSE r

\* complete_job closes the attempts also when the job is not running.
CompleteRow(r) ==
    LET log == CloseAttempts(r.attempts, "completed")
    IN IF r.status = "running"
       THEN [r EXCEPT !.status = "completed", !.expired = FALSE, !.attempts = log]
       ELSE [r EXCEPT !.attempts = log]

CompleteJob(t, j) == [t EXCEPT ![j] = CompleteRow(t[j])]

\* Mutant: one retry too many.
FailRowOneMore(r, retryable) ==
    LET closed == [r EXCEPT !.expired  = FALSE,
                            !.attempts = CloseAttempts(r.attempts, "failed")]
    IN IF retryable /\ Len(r.attempts) <= MaxAttempts
       THEN [closed EXCEPT !.status = "retry", !.priority = 70, !.due = FALSE]
       ELSE [closed EXCEPT !.status = "dead", !.letters = r.letters + 1]

\* fail_job looks the row up by id only: neither its status nor its lease.
FailRow(r, retryable) ==
    LET closed == [r EXCEPT !.expired  = FALSE,
                            !.attempts = CloseAttempts(r.attempts, "failed")]
    IN IF retryable /\ Len(r.attempts) < MaxAttempts
       THEN [closed EXCEPT !.status = "retry", !.priority = 70, !.due = FALSE]
       ELSE [closed EXCEPT !.status = "dead", !.letters = r.letters + 1]

FailJob(t, j, retryable) == [t EXCEPT ![j] = FailRow(t[j], retryable)]

-----------------------------------------------------------------------------
(* replay_dead_letter enqueues the key of a dead job again.                *)

ReplayPriority(t, j) == IF t[j].priority > 80 THEN t[j].priority ELSE 80

=============================================================================
