------------------------------ MODULE JobQueue ------------------------------
(***************************************************************************)
(* The lease protocol of JobRepository: callers enqueue, claim, complete,  *)
(* fail and replay jobs, each call committed in a UnitOfWork of its own    *)
(* (tests/integration/test_phase3_jobs.py uses the repository this way).   *)
(* A caller of claim_next keeps a ClaimedJob and settles it later, while   *)
(* leases run out and other callers recover and claim the job again.       *)
(*                                                                         *)
(* SQLite serializes the units of work, so one action is one committed     *)
(* unit of work.  CaptureWorker models the inside of such a transaction.   *)
(***************************************************************************)
EXTENDS JobTable

CONSTANT MaxClaims      \* bound: claims of one job in a bounded run

ASSUME MaxClaimsAssumption == MaxClaims \in Nat

VARIABLES
    jobs,   \* the committed tables
    held    \* ClaimedJob values in the hands of live callers

vars == <<jobs, held>>

\* The attempt number tells apart two claims of one job.
ClaimedJob == [job : JobIds, attempt : Nat]

Init ==
    /\ jobs = EmptyTable
    /\ held = {}

-----------------------------------------------------------------------------

EnqueueNew(k, p) ==
    /\ ~IsDuplicate(jobs, k)
    /\ ~Backpressure(jobs, k)
    /\ \E j \in JobIds :
        /\ IsFreshId(jobs, j)
        /\ jobs' = EnqueueJob(jobs, j, k, p)

\* A duplicate or a refused enqueue writes nothing: those calls stutter.
Enqueue(k) ==
    /\ EnqueueNew(k, 100)
    /\ UNCHANGED held

\* Mutant: the dead job itself is put back into the queue.
ReviveDeadJob(j) ==
    /\ jobs[j].status = "dead"
    /\ jobs' = [jobs EXCEPT ![j].status = "pending"]
    /\ UNCHANGED held

\* The dead row stays as it is, so the same dead letter can be replayed again
\* once its replay is no longer active.
ReplayDeadLetter(j) ==
    /\ jobs[j].status = "dead"
    /\ EnqueueNew(jobs[j].key, ReplayPriority(jobs, j))
    /\ UNCHANGED held

ClaimNext(c) ==
    \E j \in Claimable(jobs, c) :
        /\ Len(jobs[j].attempts) < MaxClaims
        /\ jobs' = ClaimJob(jobs, j)
        /\ held' = held \cup {[job |-> j, attempt |-> Len(jobs[j].attempts) + 1]}

Recover ==
    /\ \E j \in DOMAIN jobs : jobs[j].expired
    /\ jobs' = RecoverExpiredLeases(jobs)
    /\ UNCHANGED held

Complete(h) ==
    /\ jobs' = CompleteJob(jobs, h.job)
    /\ held' = held \ {h}

\* Mutant: no index looks at the row that comes back as a retry.
FailUnchecked(h) ==
    \E retryable \in BOOLEAN :
        /\ jobs' = FailJob(jobs, h.job, retryable)
        /\ held' = held \ {h}

Fail(h) ==
    \E retryable \in BOOLEAN :
        LET failed == FailJob(jobs, h.job, retryable)
        IN /\ UniqueActive(failed)
           /\ jobs' = failed
           /\ held' = held \ {h}

\* The update to 'retry' meets another active job under the same dedupe key:
\* IntegrityError, the unit of work is rolled back and the caller is left
\* without a job to settle.
FailRejected(h) ==
    /\ ~UniqueActive(FailJob(jobs, h.job, TRUE))
    /\ held' = held \ {h}
    /\ UNCHANGED jobs

\* The caller dies, or never comes back to settle its claim.
Abandon(h) ==
    /\ held' = held \ {h}
    /\ UNCHANGED jobs

\* Time passes: a lease runs out, a retry delay ends.
LeaseExpires(j) ==
    /\ jobs[j].status = "running"
    /\ ~jobs[j].expired
    /\ jobs' = [jobs EXCEPT ![j].expired = TRUE]
    /\ UNCHANGED held

BecomesDue(j) ==
    /\ ~jobs[j].due
    /\ jobs' = [jobs EXCEPT ![j].due = TRUE]
    /\ UNCHANGED held

-----------------------------------------------------------------------------

\* The claim is the one the running row belongs to: the lease may have run
\* out, but nobody has taken the job back yet.
Current(h) ==
    /\ jobs[h.job].status = "running"
    /\ Len(jobs[h.job].attempts) = h.attempt

IsRunning(j) == j \in DOMAIN jobs /\ jobs[j].status = "running"

QueueStep ==
    \/ \E k \in Keys : Enqueue(k)
    \/ \E j \in DOMAIN jobs : ReplayDeadLetter(j)
    \/ \E c \in Classes : ClaimNext(c)
    \/ Recover
    \/ \E h \in held : Abandon(h)
    \/ \E j \in DOMAIN jobs : LeaseExpires(j) \/ BecomesDue(j)

Next ==
    \/ QueueStep
    \/ \E h \in held : Complete(h) \/ Fail(h) \/ FailRejected(h)

Spec == Init /\ [][Next]_vars

\* Callers that settle a job only while it is still theirs, as run_due_job_once
\* does by claiming and settling in one transaction.
TimelyNext ==
    \/ QueueStep
    \/ \E h \in held : Current(h) /\ (Complete(h) \/ Fail(h))

TimelySpec == Init /\ [][TimelyNext]_vars

\* The clock does not stop, and run_worker_loop polls for ever, recovering
\* expired leases on every poll.
FairTimelySpec ==
    /\ TimelySpec
    /\ \A j \in JobIds : WF_vars(j \in DOMAIN jobs /\ LeaseExpires(j))
    /\ WF_vars(Recover)

-----------------------------------------------------------------------------
(* Properties of every use of the repository.                              *)

\* Jobs, attempt rows, dead letters and claims in hand are well-formed, and
\* only a running job has a lease that can have run out.
TypeOK ==
    /\ IsTable(jobs)
    /\ \A j \in DOMAIN jobs : jobs[j].expired => jobs[j].status = "running"
    /\ held \subseteq ClaimedJob
    /\ \A h \in held : h.job \in DOMAIN jobs

\* At most one job per dedupe key is pending, running or waiting for a retry,
\* whatever replays, late failures and enqueues are mixed (P1-DB-001).
OneActiveJobPerKey == UniqueActive(jobs)

\* The resource semaphore: no class runs more jobs than it is allowed, also
\* after recoveries and late settlements.
RunningWithinLimit ==
    \A c \in Classes : Cardinality(Running(jobs, c)) <= RunningLimit[c]

\* The attempt log agrees with the job row: the newest attempt of a running job
\* is open, and a job at rest has no attempt left open.
AttemptLogAgrees ==
    \A j \in DOMAIN jobs :
        LET log == jobs[j].attempts
        IN /\ jobs[j].status = "running" =>
                /\ log # <<>>
                /\ log[Len(log)] = "running"
           /\ jobs[j].status \in {"completed", "dead", "retry"} =>
                \A n \in DOMAIN log : log[n] # "running"

\* Every dead job can be found and replayed through its dead letter, and every
\* job waiting for a retry has an attempt left to use.
FailureBookkeeping ==
    \A j \in DOMAIN jobs :
        /\ jobs[j].status = "dead" => jobs[j].letters >= 1
        /\ jobs[j].status = "retry" => Len(jobs[j].attempts) < MaxAttempts

-----------------------------------------------------------------------------
(* Properties of timely callers.                                           *)

\* The state machine of docs/IMPLEMENTATION_SPECIFICATION.md section 10.
DocumentedStep(old, new) ==
    \/ old = new
    \/ <<old, new>> \in
        {<<"pending", "running">>, <<"running", "completed">>,
         <<"running", "retry">>, <<"retry", "running">>,
         <<"running", "dead">>, <<"running", "pending">>}

\* A job moves only along the documented transitions: in particular completed
\* and dead jobs are never touched again.
DocumentedTransitions ==
    [][\A j \in DOMAIN jobs :
            DocumentedStep(jobs[j].status, jobs'[j].status)]_vars

\* A queue of a class holds at most as many jobs as backpressure admits plus
\* those that were running: recovery and retry push no further beyond the limit.
BacklogBounded ==
    \A c \in Classes :
        Cardinality(Queued(jobs, c)) + Cardinality(Running(jobs, c))
            <= PendingLimit[c] + RunningLimit[c]

\* One dead letter per dead job and none for the others.
OneLetterPerDeadJob ==
    \A j \in DOMAIN jobs :
        jobs[j].letters = IF jobs[j].status = "dead" THEN 1 ELSE 0

\* A claim whose caller died does not keep its job running for ever.
LeaseReturned ==
    \A j \in JobIds : IsRunning(j) ~> ~IsRunning(j)

=============================================================================
