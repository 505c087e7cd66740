--------------------------- MODULE JobQueue_proofs ---------------------------
(***************************************************************************)
(* Proofs about JobQueue for every set of keys, classes and limits.        *)
(***************************************************************************)
EXTENDS JobQueue, JobTable_proofs

-----------------------------------------------------------------------------
(* What each action does to the tables, once they are well-formed.         *)

\* Enqueue and replay add one pending row under a key without an active job.
LEMMA EnqueueStep ==
    ASSUME TypeOK, NEW k \in Keys, NEW p \in Priority, EnqueueNew(k, p)
    PROVE  \E j \in JobIds \ DOMAIN jobs :
            /\ IsTable(jobs')
            /\ DOMAIN jobs' = DOMAIN jobs \cup {j}
            /\ jobs'[j] = NewRow(k, p)
            /\ \A i \in DOMAIN jobs : jobs'[i] = jobs[i]
            /\ Active(jobs, k) = {}
            /\ ~Backpressure(jobs, k)
  <1>1. PICK j \in JobIds \ DOMAIN jobs : jobs' = EnqueueJob(jobs, j, k, p)
    BY DEF EnqueueNew, IsFreshId
  <1>2. Active(jobs, k) = {} /\ ~Backpressure(jobs, k)
    BY DEF EnqueueNew, IsDuplicate
  <1>3. /\ IsTable(jobs')
        /\ DOMAIN jobs' = DOMAIN jobs \cup {j}
        /\ jobs'[j] = NewRow(k, p)
        /\ \A i \in DOMAIN jobs : jobs'[i] = jobs[i]
    <2>1. IsTable(jobs)
      BY DEF TypeOK
    <2>2. IsTable(EnqueueJob(jobs, j, k, p))
      BY <2>1, EnqueueJobFacts
    <2>3. /\ DOMAIN EnqueueJob(jobs, j, k, p) = DOMAIN jobs \cup {j}
          /\ EnqueueJob(jobs, j, k, p)[j] = NewRow(k, p)
          /\ \A i \in DOMAIN jobs : EnqueueJob(jobs, j, k, p)[i] = jobs[i]
      BY <2>1, EnqueueJobFacts
    <2> QED
      BY <1>1, <2>2, <2>3
  <1> QED
    BY <1>2, <1>3

\* A dead job is replayed with one of the known priorities.
LEMMA ReplayStep ==
    ASSUME TypeOK, NEW j \in DOMAIN jobs, ReplayDeadLetter(j)
    PROVE  \E k \in Keys, p \in Priority : EnqueueNew(k, p) /\ held' = held
  <1>1. jobs[j].key \in Keys /\ ReplayPriority(jobs, j) \in Priority
    BY RowType DEF TypeOK, JobRow, ReplayPriority, Priority
  <1> QED
    BY <1>1 DEF ReplayDeadLetter

\* A claim makes one queued job running, while its class is below the limit.
LEMMA ClaimStep ==
    ASSUME TypeOK, NEW c \in Classes, ClaimNext(c)
    PROVE  \E j \in Queued(jobs, c) :
            /\ IsTable(jobs')
            /\ DOMAIN jobs' = DOMAIN jobs
            /\ jobs'[j] = ClaimRow(jobs[j])
            /\ \A i \in DOMAIN jobs : i # j => jobs'[i] = jobs[i]
            /\ ~(Cardinality(Running(jobs, c)) >= RunningLimit[c])
            /\ held' = held \cup {[job |-> j, attempt |-> Len(jobs[j].attempts) + 1]}
  <1>1. PICK j \in Claimable(jobs, c) :
            /\ jobs' = ClaimJob(jobs, j)
            /\ held' = held \cup {[job |-> j, attempt |-> Len(jobs[j].attempts) + 1]}
    BY DEF ClaimNext
  <1>2. /\ j \in Queued(jobs, c)
        /\ ~(Cardinality(Running(jobs, c)) >= RunningLimit[c])
    BY <1>1 DEF Claimable, Candidates
  <1>3. j \in DOMAIN jobs
    BY <1>2 DEF Queued
  <1> QED
    BY <1>1, <1>2, <1>3, RowType, ClaimRowFacts, UpdateRowFacts DEF TypeOK, ClaimJob

\* Settling, expiry and the end of a delay change one row.
LEMMA CompleteStep ==
    ASSUME TypeOK, NEW h \in held, Complete(h)
    PROVE  /\ h.job \in DOMAIN jobs
           /\ IsTable(jobs')
           /\ DOMAIN jobs' = DOMAIN jobs
           /\ jobs'[h.job] = CompleteRow(jobs[h.job])
           /\ \A i \in DOMAIN jobs : i # h.job => jobs'[i] = jobs[i]
  BY RowType, CompleteRowFacts, UpdateRowFacts DEF TypeOK, Complete, CompleteJob

\* A failed job keeps the tables well-formed, whatever its claim is worth by now.
LEMMA FailStep ==
    ASSUME TypeOK, NEW h \in held, Fail(h)
    PROVE  \E retryable \in BOOLEAN :
           /\ h.job \in DOMAIN jobs
           /\ IsTable(jobs')
           /\ DOMAIN jobs' = DOMAIN jobs
           /\ jobs'[h.job] = FailRow(jobs[h.job], retryable)
           /\ \A i \in DOMAIN jobs : i # h.job => jobs'[i] = jobs[i]
           /\ UniqueActive(jobs')
           /\ held' = held \ {h}
  <1>1. PICK retryable \in BOOLEAN :
            /\ jobs' = FailJob(jobs, h.job, retryable)
            /\ UniqueActive(jobs')
            /\ held' = held \ {h}
    BY DEF Fail
  <1> QED
    BY <1>1, RowType, FailRowFacts, UpdateRowFacts DEF TypeOK, FailJob

\* The end of a lease changes one running row.
LEMMA LeaseExpiresStep ==
    ASSUME TypeOK, NEW j \in DOMAIN jobs, LeaseExpires(j)
    PROVE  /\ IsTable(jobs')
           /\ DOMAIN jobs' = DOMAIN jobs
           /\ jobs[j].status = "running"
           /\ jobs'[j] = [jobs[j] EXCEPT !.expired = TRUE]
           /\ \A i \in DOMAIN jobs : i # j => jobs'[i] = jobs[i]
  <1> DEFINE r == [jobs[j] EXCEPT !.expired = TRUE]
  <1>1. r \in JobRow
    BY RowType DEF TypeOK, JobRow
  <1>2. jobs' = [jobs EXCEPT ![j] = r]
    BY DEF LeaseExpires
  <1> HIDE DEF r
  <1>3. /\ IsTable(jobs')
        /\ DOMAIN jobs' = DOMAIN jobs
        /\ jobs'[j] = r
        /\ \A i \in DOMAIN jobs : i # j => jobs'[i] = jobs[i]
    BY <1>1, <1>2, UpdateRowFacts DEF TypeOK
  <1> QED
    BY <1>3 DEF r, LeaseExpires

\* The end of a retry delay changes one row.
LEMMA BecomesDueStep ==
    ASSUME TypeOK, NEW j \in DOMAIN jobs, BecomesDue(j)
    PROVE  /\ IsTable(jobs')
           /\ DOMAIN jobs' = DOMAIN jobs
           /\ jobs'[j] = [jobs[j] EXCEPT !.due = TRUE]
           /\ \A i \in DOMAIN jobs : i # j => jobs'[i] = jobs[i]
  <1> DEFINE r == [jobs[j] EXCEPT !.due = TRUE]
  <1>1. r \in JobRow
    BY RowType DEF TypeOK, JobRow
  <1>2. jobs' = [jobs EXCEPT ![j] = r]
    BY DEF BecomesDue
  <1> HIDE DEF r
  <1>3. /\ IsTable(jobs')
        /\ DOMAIN jobs' = DOMAIN jobs
        /\ jobs'[j] = r
        /\ \A i \in DOMAIN jobs : i # j => jobs'[i] = jobs[i]
    BY <1>1, <1>2, UpdateRowFacts DEF TypeOK
  <1> QED
    BY <1>3 DEF r

-----------------------------------------------------------------------------
(* Type correctness.                                                       *)

\* Every step of any caller keeps the tables and claims well-formed.
LEMMA TypeInductive == TypeOK /\ [Next]_vars => TypeOK'
  <1> SUFFICES ASSUME TypeOK, [Next]_vars PROVE TypeOK'
    OBVIOUS
  <1>1. ASSUME NEW k \in Keys, NEW p \in Priority, EnqueueNew(k, p), held' = held
        PROVE  TypeOK'
    <2>1. PICK j \in JobIds \ DOMAIN jobs :
            /\ IsTable(jobs')
            /\ DOMAIN jobs' = DOMAIN jobs \cup {j}
            /\ jobs'[j] = NewRow(k, p)
            /\ \A i \in DOMAIN jobs : jobs'[i] = jobs[i]
      BY <1>1, EnqueueStep
    <2>2. ~NewRow(k, p).expired
      BY DEF NewRow
    <2> QED
      BY <1>1, <2>1, <2>2 DEF TypeOK
  <1>2. ASSUME NEW c \in Classes, ClaimNext(c)
        PROVE  TypeOK'
    <2>1. PICK j \in Queued(jobs, c) :
            /\ IsTable(jobs')
            /\ DOMAIN jobs' = DOMAIN jobs
            /\ jobs'[j] = ClaimRow(jobs[j])
            /\ \A i \in DOMAIN jobs : i # j => jobs'[i] = jobs[i]
            /\ held' = held \cup {[job |-> j, attempt |-> Len(jobs[j].attempts) + 1]}
      BY <1>2, ClaimStep
    <2>2. j \in DOMAIN jobs /\ jobs[j] \in JobRow
      BY RowType DEF Queued, TypeOK
    <2>3. j \in JobIds /\ Len(jobs[j].attempts) + 1 \in Nat
      BY <2>2 DEF TypeOK, IsTable, JobRow
    <2> QED
      BY <2>1, <2>2, <2>3, ClaimRowFacts DEF TypeOK, ClaimedJob
  <1>3. ASSUME Recover PROVE TypeOK'
    BY <1>3, RecoverTableFacts, RecoverRowFacts, RowType DEF TypeOK, Recover
  <1>4. ASSUME NEW h \in held, Complete(h) PROVE TypeOK'
    BY <1>4, CompleteStep, CompleteRowFacts, RowType DEF TypeOK, Complete
  <1>5. ASSUME NEW h \in held, Fail(h) PROVE TypeOK'
    BY <1>5, FailStep, FailRowFacts, RowType DEF TypeOK
  <1>6. ASSUME NEW h \in held, FailRejected(h) \/ Abandon(h) PROVE TypeOK'
    BY <1>6 DEF TypeOK, FailRejected, Abandon
  <1>7. ASSUME NEW j \in DOMAIN jobs, LeaseExpires(j) PROVE TypeOK'
    <2>1. jobs'[j].status = "running"
      BY <1>7, LeaseExpiresStep, RowType DEF TypeOK, JobRow
    <2> QED
      BY <1>7, <2>1, LeaseExpiresStep DEF TypeOK, LeaseExpires
  <1>8. ASSUME NEW j \in DOMAIN jobs, BecomesDue(j) PROVE TypeOK'
    <2>1. jobs'[j].expired = jobs[j].expired /\ jobs'[j].status = jobs[j].status
      BY <1>8, BecomesDueStep, RowType DEF TypeOK, JobRow
    <2> QED
      BY <1>8, <2>1, BecomesDueStep DEF TypeOK, BecomesDue
  <1>9. ASSUME UNCHANGED vars PROVE TypeOK'
    BY <1>9 DEF TypeOK, vars
  <1>10. ASSUME NEW k \in Keys, Enqueue(k) PROVE TypeOK'
    BY <1>1, <1>10 DEF Enqueue, Priority
  <1>11. ASSUME NEW j \in DOMAIN jobs, ReplayDeadLetter(j) PROVE TypeOK'
    BY <1>1, <1>11, ReplayStep
  <1> QED
    BY <1>2, <1>3, <1>4, <1>5, <1>6, <1>7, <1>8, <1>9, <1>10, <1>11
    DEF Next, QueueStep

\* The tables and the claims in hand stay well-formed in every behaviour.
THEOREM TypeCorrect == Spec => []TypeOK
  <1>1. Init => TypeOK
    BY DEF Init, TypeOK, EmptyTable, IsTable
  <1> QED
    BY <1>1, TypeInductive, PTL DEF Spec

-----------------------------------------------------------------------------
(* Steps that start no job: recovery, settling and the passing of time.    *)

\* Time changes neither key, status, attempts nor dead letters of a row.
LEMMA TimeStep ==
    ASSUME TypeOK, NEW j \in DOMAIN jobs, LeaseExpires(j) \/ BecomesDue(j)
    PROVE  /\ DOMAIN jobs' = DOMAIN jobs
           /\ \A i \in DOMAIN jobs :
                /\ jobs'[i].key = jobs[i].key
                /\ jobs'[i].status = jobs[i].status
                /\ jobs'[i].attempts = jobs[i].attempts
                /\ jobs'[i].letters = jobs[i].letters
  <1>1. CASE LeaseExpires(j)
    <2>1. /\ jobs'[j].key = jobs[j].key
          /\ jobs'[j].status = jobs[j].status
          /\ jobs'[j].attempts = jobs[j].attempts
          /\ jobs'[j].letters = jobs[j].letters
      BY <1>1, LeaseExpiresStep, RowType DEF TypeOK, JobRow
    <2> QED
      BY <1>1, <2>1, LeaseExpiresStep
  <1>2. CASE BecomesDue(j)
    <2>1. /\ jobs'[j].key = jobs[j].key
          /\ jobs'[j].status = jobs[j].status
          /\ jobs'[j].attempts = jobs[j].attempts
          /\ jobs'[j].letters = jobs[j].letters
      BY <1>2, BecomesDueStep, RowType DEF TypeOK, JobRow
    <2> QED
      BY <1>2, <2>1, BecomesDueStep
  <1> QED
    BY <1>1, <1>2

\* Recovery, completion and time leave every key as it is, make no job running
\* and activate no job.
LEMMA QuietStep ==
    ASSUME TypeOK,
           \/ Recover
           \/ \E h \in held : Complete(h) \/ FailRejected(h) \/ Abandon(h)
           \/ \E j \in DOMAIN jobs : LeaseExpires(j) \/ BecomesDue(j)
           \/ UNCHANGED vars
    PROVE  /\ DOMAIN jobs' = DOMAIN jobs
           /\ \A i \in DOMAIN jobs :
                /\ jobs'[i].key = jobs[i].key
                /\ jobs'[i].letters = jobs[i].letters
                /\ jobs'[i].status = "running" => jobs[i].status = "running"
                /\ jobs'[i].status \in ActiveStatus => jobs[i].status \in ActiveStatus
  <1>1. ASSUME Recover
        PROVE  /\ DOMAIN jobs' = DOMAIN jobs
               /\ \A i \in DOMAIN jobs :
                    /\ jobs'[i].key = jobs[i].key
                    /\ jobs'[i].letters = jobs[i].letters
                    /\ jobs'[i].status = "running" => jobs[i].status = "running"
                    /\ jobs'[i].status \in ActiveStatus => jobs[i].status \in ActiveStatus
    BY <1>1, RecoverTableFacts, RecoverRowFacts, RowType
    DEF TypeOK, Recover, ActiveStatus
  <1>2. ASSUME NEW h \in held, Complete(h)
        PROVE  /\ DOMAIN jobs' = DOMAIN jobs
               /\ \A i \in DOMAIN jobs :
                    /\ jobs'[i].key = jobs[i].key
                    /\ jobs'[i].letters = jobs[i].letters
                    /\ jobs'[i].status = "running" => jobs[i].status = "running"
                    /\ jobs'[i].status \in ActiveStatus => jobs[i].status \in ActiveStatus
    BY <1>2, CompleteStep, CompleteRowFacts, RowType DEF TypeOK, ActiveStatus
  <1>3. ASSUME NEW h \in held, FailRejected(h) \/ Abandon(h) PROVE jobs' = jobs
    BY <1>3 DEF FailRejected, Abandon
  <1> QED
    BY <1>1, <1>2, <1>3, TimeStep DEF vars

\* Failing makes no job running either.
LEMMA FailStatus ==
    ASSUME TypeOK, NEW h \in held, Fail(h)
    PROVE  /\ DOMAIN jobs' = DOMAIN jobs
           /\ \A i \in DOMAIN jobs :
                /\ jobs'[i].key = jobs[i].key
                /\ jobs'[i].status = "running" => jobs[i].status = "running"
           /\ jobs'[h.job].status \in {"retry", "dead"}
  BY FailStep, FailRowFacts, RowType DEF TypeOK

-----------------------------------------------------------------------------
(* One active job per dedupe key.                                          *)

\* The invariant survives every step: a new row finds no active row under its
\* key, a claim keeps an active row active, and a failure that would make a
\* second row active is refused by the index.
LEMMA UniqueInductive == TypeOK /\ OneActiveJobPerKey /\ [Next]_vars => OneActiveJobPerKey'
  <1> SUFFICES ASSUME TypeOK, OneActiveJobPerKey, [Next]_vars
               PROVE  UniqueActive(jobs')
    BY DEF OneActiveJobPerKey
  <1>0. UniqueActive(jobs)
    BY DEF OneActiveJobPerKey
  <1>1. ASSUME NEW k \in Keys, NEW p \in Priority, EnqueueNew(k, p)
        PROVE  UniqueActive(jobs')
    <2>1. PICK j \in JobIds \ DOMAIN jobs :
            /\ DOMAIN jobs' = DOMAIN jobs \cup {j}
            /\ jobs'[j] = NewRow(k, p)
            /\ \A i \in DOMAIN jobs : jobs'[i] = jobs[i]
            /\ Active(jobs, k) = {}
      BY <1>1, EnqueueStep
    <2>2. NewRow(k, p).key = k
      BY DEF NewRow
    <2>3. \A i \in DOMAIN jobs : jobs[i].key = k => jobs[i].status \notin ActiveStatus
      BY <2>1 DEF Active
    <2> QED
      BY <1>0, <2>1, <2>2, <2>3 DEF UniqueActive
  <1>2. ASSUME NEW c \in Classes, ClaimNext(c)
        PROVE  UniqueActive(jobs')
    <2>1. PICK j \in Queued(jobs, c) :
            /\ DOMAIN jobs' = DOMAIN jobs
            /\ jobs'[j] = ClaimRow(jobs[j])
            /\ \A i \in DOMAIN jobs : i # j => jobs'[i] = jobs[i]
      BY <1>2, ClaimStep
    <2>2. j \in DOMAIN jobs /\ jobs[j].status \in ActiveStatus
      BY DEF Queued, QueuedStatus, ActiveStatus
    <2>3. jobs'[j].key = jobs[j].key
      BY <2>1, <2>2, RowType, ClaimRowFacts DEF TypeOK
    <2> QED
      BY <1>0, <2>1, <2>2, <2>3 DEF UniqueActive
  <1>3. ASSUME NEW h \in held, Fail(h) PROVE UniqueActive(jobs')
    BY <1>3, FailStep
  <1>4. ASSUME \/ Recover
               \/ \E h \in held : Complete(h) \/ FailRejected(h) \/ Abandon(h)
               \/ \E j \in DOMAIN jobs : LeaseExpires(j) \/ BecomesDue(j)
               \/ UNCHANGED vars
        PROVE  UniqueActive(jobs')
    <2>1. /\ DOMAIN jobs' = DOMAIN jobs
          /\ \A i \in DOMAIN jobs :
                /\ jobs'[i].key = jobs[i].key
                /\ jobs'[i].status \in ActiveStatus => jobs[i].status \in ActiveStatus
      BY <1>4, QuietStep
    <2> QED
      BY <1>0, <2>1 DEF UniqueActive
  <1>5. ASSUME NEW k \in Keys, Enqueue(k) PROVE UniqueActive(jobs')
    BY <1>1, <1>5 DEF Enqueue, Priority
  <1>6. ASSUME NEW j \in DOMAIN jobs, ReplayDeadLetter(j) PROVE UniqueActive(jobs')
    BY <1>1, <1>6, ReplayStep
  <1> QED
    BY <1>2, <1>3, <1>4, <1>5, <1>6 DEF Next, QueueStep

\* P1-DB-001 for every number of jobs, keys and callers: whatever replays, late
\* failures and enqueues are mixed, a dedupe key has at most one active job.
THEOREM OneActiveJob == Spec => []OneActiveJobPerKey
  <1>1. Init => OneActiveJobPerKey
    BY DEF Init, OneActiveJobPerKey, UniqueActive, EmptyTable
  <1> QED
    BY <1>1, TypeCorrect, UniqueInductive, PTL DEF Spec

-----------------------------------------------------------------------------
(* The attempt log and the failure bookkeeping.                            *)

\* What the two properties say of one row.
LogAgrees(r) ==
    /\ r.status = "running" =>
            /\ r.attempts # <<>>
            /\ r.attempts[Len(r.attempts)] = "running"
    /\ r.status \in {"completed", "dead", "retry"} =>
            \A n \in DOMAIN r.attempts : r.attempts[n] # "running"

BooksKept(r) ==
    /\ r.status = "dead" => r.letters >= 1
    /\ r.status = "retry" => Len(r.attempts) < MaxAttempts

RowsOK == \A j \in DOMAIN jobs : LogAgrees(jobs[j]) /\ BooksKept(jobs[j])

\* The row-wise invariant is the attempt log's and the failure bookkeeping's.
LEMMA RowsOKMeaning == RowsOK <=> AttemptLogAgrees /\ FailureBookkeeping
  BY DEF RowsOK, LogAgrees, BooksKept, AttemptLogAgrees, FailureBookkeeping

\* A claimed row has its newest attempt open.
LEMMA ClaimRowOK ==
    ASSUME NEW r \in JobRow
    PROVE  LogAgrees(ClaimRow(r)) /\ BooksKept(ClaimRow(r))
  <1>1. /\ ClaimRow(r).status = "running"
        /\ ClaimRow(r).attempts = Append(r.attempts, "running")
    BY ClaimRowFacts
  <1>2. LET log == Append(r.attempts, "running")
        IN log # <<>> /\ log[Len(log)] = "running"
    BY DEF JobRow
  <1> QED
    BY <1>1, <1>2 DEF LogAgrees, BooksKept

\* Recovery leaves a row's log and letters consistent.
LEMMA RecoverRowOK ==
    ASSUME NEW r \in JobRow, LogAgrees(r), BooksKept(r)
    PROVE  LogAgrees(RecoverRow(r)) /\ BooksKept(RecoverRow(r))
  <1>1. \/ RecoverRow(r) = r
        \/ RecoverRow(r).status = "pending"
    BY RecoverRowFacts
  <1> QED
    BY <1>1 DEF LogAgrees, BooksKept

\* Completion, also a late one, leaves no attempt open on a row at rest.
LEMMA CompleteRowOK ==
    ASSUME NEW r \in JobRow, BooksKept(r)
    PROVE  LogAgrees(CompleteRow(r)) /\ BooksKept(CompleteRow(r))
  <1> DEFINE s == CompleteRow(r)
  <1>1. /\ s.letters = r.letters
        /\ Len(s.attempts) = Len(r.attempts)
        /\ \A n \in DOMAIN s.attempts : s.attempts[n] # "running"
        /\ r.status = "running" => s.status = "completed"
        /\ r.status # "running" => s.status = r.status
    BY CompleteRowFacts
  <1>2. s.status # "running"
    BY <1>1
  <1> HIDE DEF s
  <1>3. LogAgrees(s)
    BY <1>1, <1>2 DEF LogAgrees
  <1>4. BooksKept(s)
    BY <1>1 DEF BooksKept
  <1> QED
    BY <1>3, <1>4 DEF s

\* A failed row has a letter or an attempt left, and no attempt open.
LEMMA FailRowOK ==
    ASSUME NEW r \in JobRow, NEW retryable \in BOOLEAN
    PROVE  LogAgrees(FailRow(r, retryable)) /\ BooksKept(FailRow(r, retryable))
  <1> DEFINE s == FailRow(r, retryable)
  <1>1. /\ Len(s.attempts) = Len(r.attempts)
        /\ \A n \in DOMAIN s.attempts : s.attempts[n] # "running"
        /\ \/ s.status = "retry" /\ Len(r.attempts) < MaxAttempts
           \/ s.status = "dead" /\ s.letters = r.letters + 1
    BY FailRowFacts
  <1>2. r.letters \in Nat
    BY DEF JobRow
  <1> HIDE DEF s
  <1>3. LogAgrees(s)
    BY <1>1 DEF LogAgrees
  <1>4. BooksKept(s)
    BY <1>1, <1>2 DEF BooksKept
  <1> QED
    BY <1>3, <1>4 DEF s

\* Every step of any caller keeps every row consistent.
LEMMA RowsOKInductive == TypeOK /\ RowsOK /\ [Next]_vars => RowsOK'
  <1> SUFFICES ASSUME TypeOK, RowsOK, [Next]_vars PROVE RowsOK'
    OBVIOUS
  <1>0. \A j \in DOMAIN jobs :
            jobs[j] \in JobRow /\ LogAgrees(jobs[j]) /\ BooksKept(jobs[j])
    BY RowType DEF TypeOK, RowsOK
  <1>1. ASSUME NEW k \in Keys, NEW p \in Priority, EnqueueNew(k, p)
        PROVE  RowsOK'
    <2>1. PICK j \in JobIds \ DOMAIN jobs :
            /\ DOMAIN jobs' = DOMAIN jobs \cup {j}
            /\ jobs'[j] = NewRow(k, p)
            /\ \A i \in DOMAIN jobs : jobs'[i] = jobs[i]
      BY <1>1, EnqueueStep
    <2>2. LogAgrees(NewRow(k, p)) /\ BooksKept(NewRow(k, p))
      BY DEF NewRow, LogAgrees, BooksKept
    <2> QED
      BY <1>0, <2>1, <2>2 DEF RowsOK
  <1>2. ASSUME NEW c \in Classes, ClaimNext(c) PROVE RowsOK'
    <2>1. PICK j \in Queued(jobs, c) :
            /\ DOMAIN jobs' = DOMAIN jobs
            /\ jobs'[j] = ClaimRow(jobs[j])
            /\ \A i \in DOMAIN jobs : i # j => jobs'[i] = jobs[i]
      BY <1>2, ClaimStep
    <2>2. j \in DOMAIN jobs
      BY DEF Queued
    <2> QED
      BY <1>0, <2>1, <2>2, ClaimRowOK DEF RowsOK
  <1>3. ASSUME Recover PROVE RowsOK'
    <2>1. /\ DOMAIN jobs' = DOMAIN jobs
          /\ \A j \in DOMAIN jobs : jobs'[j] = RecoverRow(jobs[j])
      BY <1>3, RecoverTableFacts DEF Recover, TypeOK
    <2> QED
      BY <1>0, <2>1, RecoverRowOK DEF RowsOK
  <1>4. ASSUME NEW h \in held, Complete(h) PROVE RowsOK'
    <2>1. /\ h.job \in DOMAIN jobs
          /\ DOMAIN jobs' = DOMAIN jobs
          /\ jobs'[h.job] = CompleteRow(jobs[h.job])
          /\ \A i \in DOMAIN jobs : i # h.job => jobs'[i] = jobs[i]
      BY <1>4, CompleteStep
    <2> QED
      BY <1>0, <2>1, CompleteRowOK DEF RowsOK
  <1>5. ASSUME NEW h \in held, Fail(h) PROVE RowsOK'
    <2>1. PICK retryable \in BOOLEAN :
          /\ h.job \in DOMAIN jobs
          /\ DOMAIN jobs' = DOMAIN jobs
          /\ jobs'[h.job] = FailRow(jobs[h.job], retryable)
          /\ \A i \in DOMAIN jobs : i # h.job => jobs'[i] = jobs[i]
      BY <1>5, FailStep
    <2> QED
      BY <1>0, <2>1, FailRowOK DEF RowsOK
  <1>6. ASSUME NEW j \in DOMAIN jobs, LeaseExpires(j) \/ BecomesDue(j) PROVE RowsOK'
    BY <1>0, <1>6, TimeStep DEF RowsOK, LogAgrees, BooksKept
  <1>7. ASSUME (\E h \in held : FailRejected(h) \/ Abandon(h)) \/ UNCHANGED vars
        PROVE  RowsOK'
    BY <1>7 DEF RowsOK, FailRejected, Abandon, vars
  <1>8. ASSUME NEW k \in Keys, Enqueue(k) PROVE RowsOK'
    BY <1>1, <1>8 DEF Enqueue, Priority
  <1>9. ASSUME NEW j \in DOMAIN jobs, ReplayDeadLetter(j) PROVE RowsOK'
    BY <1>1, <1>9, ReplayStep
  <1> QED
    BY <1>2, <1>3, <1>4, <1>5, <1>6, <1>7, <1>8, <1>9 DEF Next, QueueStep

\* Every row is consistent in every behaviour.
LEMMA RowsOKAlways == Spec => []RowsOK
  <1>1. Init => RowsOK
    BY DEF Init, RowsOK, EmptyTable
  <1> QED
    BY <1>1, TypeCorrect, RowsOKInductive, PTL DEF Spec

\* job_attempts and jobs never disagree: a running job's newest attempt is open
\* and a job at rest has no open attempt, also after late settlements.
THEOREM AttemptLogCorrect == Spec => []AttemptLogAgrees
  BY RowsOKAlways, RowsOKMeaning, PTL

\* Every dead job has a dead letter and every retry an attempt left to use.
THEOREM FailureBookkeepingCorrect == Spec => []FailureBookkeeping
  BY RowsOKAlways, RowsOKMeaning, PTL

-----------------------------------------------------------------------------
(* The limits.  Tables are finite, so cardinalities are numbers.           *)

\* A table has finitely many rows, as a run has finitely many ids.
LEMMA FiniteTable ==
    ASSUME NEW t, IsTable(t)
    PROVE  IsFiniteSet(DOMAIN t)
  BY JobTableAssumption, FS_Subset DEF IsTable

\* The counts behind the semaphore and backpressure are numbers.
LEMMA FiniteCounts ==
    ASSUME NEW t, IsTable(t), NEW c
    PROVE  /\ IsFiniteSet(Queued(t, c)) /\ Cardinality(Queued(t, c)) \in Nat
           /\ IsFiniteSet(Running(t, c)) /\ Cardinality(Running(t, c)) \in Nat
  <1>1. Queued(t, c) \subseteq DOMAIN t /\ Running(t, c) \subseteq DOMAIN t
    BY DEF Queued, Running
  <1> QED
    BY <1>1, FiniteTable, FS_Subset, FS_CardinalityType

\* A step that makes no job of the class running leaves the limit respected.
LEMMA RunningShrinks ==
    ASSUME TypeOK, TypeOK', NEW c \in Classes,
           Cardinality(Running(jobs, c)) <= RunningLimit[c],
           Running(jobs', c) \subseteq Running(jobs, c)
    PROVE  Cardinality(Running(jobs', c)) <= RunningLimit[c]
  <1>1. IsTable(jobs) /\ IsTable(jobs')
    BY DEF TypeOK
  <1>2. Cardinality(Running(jobs', c)) <= Cardinality(Running(jobs, c))
    BY <1>1, FiniteCounts, FS_Subset
  <1>3. RunningLimit[c] \in Nat
    BY JobTableAssumption
  <1> QED
    BY <1>1, <1>2, <1>3, FiniteCounts

\* Every step of any caller keeps every class within its limit.
LEMMA LimitInductive ==
    TypeOK /\ TypeOK' /\ RunningWithinLimit /\ [Next]_vars => RunningWithinLimit'
  <1> SUFFICES ASSUME TypeOK, TypeOK', RunningWithinLimit, [Next]_vars,
                      NEW c \in Classes
               PROVE  Cardinality(Running(jobs', c)) <= RunningLimit[c]
    BY DEF RunningWithinLimit
  <1>0. /\ Cardinality(Running(jobs, c)) <= RunningLimit[c]
        /\ IsTable(jobs)
        /\ RunningLimit[c] \in Nat
    BY JobTableAssumption DEF RunningWithinLimit, TypeOK
  <1>1. ASSUME NEW k \in Keys, NEW p \in Priority, EnqueueNew(k, p)
        PROVE  Cardinality(Running(jobs', c)) <= RunningLimit[c]
    <2>1. PICK j \in JobIds \ DOMAIN jobs :
            /\ DOMAIN jobs' = DOMAIN jobs \cup {j}
            /\ jobs'[j] = NewRow(k, p)
            /\ \A i \in DOMAIN jobs : jobs'[i] = jobs[i]
      BY <1>1, EnqueueStep
    <2>2. NewRow(k, p).status = "pending"
      BY DEF NewRow
    <2>3. Running(jobs', c) \subseteq Running(jobs, c)
      BY <2>1, <2>2 DEF Running
    <2> QED
      BY <1>0, <2>3, RunningShrinks
  <1>2. ASSUME NEW d \in Classes, ClaimNext(d)
        PROVE  Cardinality(Running(jobs', c)) <= RunningLimit[c]
    <2>1. PICK j \in Queued(jobs, d) :
            /\ DOMAIN jobs' = DOMAIN jobs
            /\ jobs'[j] = ClaimRow(jobs[j])
            /\ \A i \in DOMAIN jobs : i # j => jobs'[i] = jobs[i]
            /\ ~(Cardinality(Running(jobs, d)) >= RunningLimit[d])
      BY <1>2, ClaimStep
    <2>2. /\ j \in DOMAIN jobs
          /\ ClassOf[jobs[j].key] = d
          /\ jobs'[j].key = jobs[j].key
      BY <2>1, RowType, ClaimRowFacts DEF Queued, TypeOK
    <2>3. CASE c = d
      <3>1. Running(jobs', c) \subseteq Running(jobs, c) \cup {j}
        BY <2>1, <2>2 DEF Running
      <3>2. IsFiniteSet(Running(jobs, c)) /\ Cardinality(Running(jobs, c)) \in Nat
        BY <1>0, FiniteCounts
      <3>3. /\ IsFiniteSet(Running(jobs, c) \cup {j})
            /\ Cardinality(Running(jobs, c) \cup {j}) <= Cardinality(Running(jobs, c)) + 1
        <4>1. /\ IsFiniteSet(Running(jobs, c) \cup {j})
              /\ Cardinality(Running(jobs, c) \cup {j}) =
                    IF j \in Running(jobs, c) THEN Cardinality(Running(jobs, c))
                    ELSE Cardinality(Running(jobs, c)) + 1
          BY <3>2, FS_AddElement
        <4> QED
          BY <3>2, <4>1
      <3>4. /\ Cardinality(Running(jobs', c)) <= Cardinality(Running(jobs, c) \cup {j})
            /\ Cardinality(Running(jobs', c)) \in Nat
            /\ Cardinality(Running(jobs, c) \cup {j}) \in Nat
        BY <3>1, <3>3, FS_Subset, FS_CardinalityType
      <3> QED
        BY <1>0, <2>1, <2>3, <3>2, <3>3, <3>4
    <2>4. CASE c # d
      <3>1. Running(jobs', c) \subseteq Running(jobs, c)
        BY <2>1, <2>2, <2>4 DEF Running
      <3> QED
        BY <1>0, <3>1, RunningShrinks
    <2> QED
      BY <2>3, <2>4
  <1>3. ASSUME NEW h \in held, Fail(h)
        PROVE  Cardinality(Running(jobs', c)) <= RunningLimit[c]
    <2>1. Running(jobs', c) \subseteq Running(jobs, c)
      BY <1>3, FailStatus DEF Running
    <2> QED
      BY <1>0, <2>1, RunningShrinks
  <1>4. ASSUME \/ Recover
               \/ \E h \in held : Complete(h) \/ FailRejected(h) \/ Abandon(h)
               \/ \E j \in DOMAIN jobs : LeaseExpires(j) \/ BecomesDue(j)
               \/ UNCHANGED vars
        PROVE  Cardinality(Running(jobs', c)) <= RunningLimit[c]
    <2>1. Running(jobs', c) \subseteq Running(jobs, c)
      BY <1>4, QuietStep DEF Running
    <2> QED
      BY <1>0, <2>1, RunningShrinks
  <1>5. ASSUME NEW k \in Keys, Enqueue(k)
        PROVE  Cardinality(Running(jobs', c)) <= RunningLimit[c]
    BY <1>1, <1>5 DEF Enqueue, Priority
  <1>6. ASSUME NEW j \in DOMAIN jobs, ReplayDeadLetter(j)
        PROVE  Cardinality(Running(jobs', c)) <= RunningLimit[c]
    BY <1>1, <1>6, ReplayStep
  <1> QED
    BY <1>2, <1>3, <1>4, <1>5, <1>6 DEF Next, QueueStep

\* The resource semaphore holds for all classes and limits, also when leases run
\* out, jobs are claimed again and old claims are settled late.
THEOREM RunningLimitCorrect == Spec => []RunningWithinLimit
  <1>1. Init => RunningWithinLimit
    <2> SUFFICES ASSUME Init, NEW c \in Classes
                 PROVE  Cardinality(Running(jobs, c)) <= RunningLimit[c]
      BY DEF RunningWithinLimit
    <2>1. Running(jobs, c) = {}
      BY DEF Init, EmptyTable, Running
    <2>2. RunningLimit[c] \in Nat
      BY JobTableAssumption
    <2> QED
      BY <2>1, <2>2, FS_EmptySet
  <1> QED
    BY <1>1, TypeCorrect, LimitInductive, PTL DEF Spec

-----------------------------------------------------------------------------
(* Timely callers: every timely behaviour is a behaviour of Spec.          *)

\* A step of timely callers is a step of the repository's callers.
LEMMA TimelyIsNext == [TimelyNext]_vars => [Next]_vars
  BY DEF TimelyNext, Next

\* Callers that settle in time are callers of the repository, so everything proved
\* of Spec holds for them.
THEOREM TimelyRefinesSpec == TimelySpec => Spec
  BY TimelyIsNext, PTL DEF TimelySpec, Spec

\* What a timely settlement finds and leaves: its job is running before, and
\* completed, waiting for a retry or dead afterwards.
LEMMA TimelySettle ==
    ASSUME TypeOK, NEW h \in held, Current(h), Complete(h) \/ Fail(h)
    PROVE  /\ h.job \in DOMAIN jobs
           /\ DOMAIN jobs' = DOMAIN jobs
           /\ jobs[h.job].status = "running"
           /\ jobs'[h.job].key = jobs[h.job].key
           /\ \/ /\ jobs'[h.job].status \in {"completed", "retry"}
                 /\ jobs'[h.job].letters = jobs[h.job].letters
              \/ /\ jobs'[h.job].status = "dead"
                 /\ jobs'[h.job].letters = jobs[h.job].letters + 1
           /\ \A i \in DOMAIN jobs : i # h.job => jobs'[i] = jobs[i]
  <1>1. h.job \in DOMAIN jobs /\ jobs[h.job] \in JobRow /\ jobs[h.job].status = "running"
    BY RowType DEF Current, TypeOK
  <1>2. CASE Complete(h)
    BY <1>1, <1>2, CompleteStep, CompleteRowFacts
  <1>3. CASE Fail(h)
    BY <1>1, <1>3, FailStep, FailRowFacts
  <1> QED
    BY <1>2, <1>3

\* A timely step keeps one letter per dead job.
LEMMA LetterInductive ==
    TypeOK /\ OneLetterPerDeadJob /\ [TimelyNext]_vars => OneLetterPerDeadJob'
  <1> SUFFICES ASSUME TypeOK, OneLetterPerDeadJob, [TimelyNext]_vars
               PROVE  OneLetterPerDeadJob'
    OBVIOUS
  <1>0. \A j \in DOMAIN jobs :
            jobs[j].letters = IF jobs[j].status = "dead" THEN 1 ELSE 0
    BY DEF OneLetterPerDeadJob
  <1>1. ASSUME NEW k \in Keys, NEW p \in Priority, EnqueueNew(k, p)
        PROVE  OneLetterPerDeadJob'
    <2>1. PICK j \in JobIds \ DOMAIN jobs :
            /\ DOMAIN jobs' = DOMAIN jobs \cup {j}
            /\ jobs'[j] = NewRow(k, p)
            /\ \A i \in DOMAIN jobs : jobs'[i] = jobs[i]
      BY <1>1, EnqueueStep
    <2>2. NewRow(k, p).letters = 0 /\ NewRow(k, p).status = "pending"
      BY DEF NewRow
    <2> QED
      BY <1>0, <2>1, <2>2 DEF OneLetterPerDeadJob
  <1>2. ASSUME NEW c \in Classes, ClaimNext(c) PROVE OneLetterPerDeadJob'
    <2>1. PICK j \in Queued(jobs, c) :
            /\ DOMAIN jobs' = DOMAIN jobs
            /\ jobs'[j] = ClaimRow(jobs[j])
            /\ \A i \in DOMAIN jobs : i # j => jobs'[i] = jobs[i]
      BY <1>2, ClaimStep
    <2>2. /\ j \in DOMAIN jobs
          /\ jobs[j].status # "dead"
          /\ jobs'[j].status = "running"
          /\ jobs'[j].letters = jobs[j].letters
      BY <2>1, RowType, ClaimRowFacts DEF Queued, QueuedStatus, TypeOK
    <2> QED
      BY <1>0, <2>1, <2>2 DEF OneLetterPerDeadJob
  <1>3. ASSUME Recover PROVE OneLetterPerDeadJob'
    <2>1. /\ DOMAIN jobs' = DOMAIN jobs
          /\ \A j \in DOMAIN jobs :
                /\ jobs'[j].letters = jobs[j].letters
                /\ \/ jobs'[j] = jobs[j]
                   \/ jobs[j].status = "running" /\ jobs'[j].status = "pending"
      BY <1>3, RecoverTableFacts, RecoverRowFacts, RowType DEF Recover, TypeOK
    <2> QED
      BY <1>0, <2>1 DEF OneLetterPerDeadJob
  <1>4. ASSUME NEW h \in held, Current(h), Complete(h) \/ Fail(h)
        PROVE  OneLetterPerDeadJob'
    BY <1>0, <1>4, TimelySettle DEF OneLetterPerDeadJob
  <1>5. ASSUME NEW j \in DOMAIN jobs, LeaseExpires(j) \/ BecomesDue(j)
        PROVE  OneLetterPerDeadJob'
    BY <1>0, <1>5, TimeStep DEF OneLetterPerDeadJob
  <1>6. ASSUME (\E h \in held : Abandon(h)) \/ UNCHANGED vars
        PROVE  OneLetterPerDeadJob'
    BY <1>6 DEF OneLetterPerDeadJob, Abandon, vars
  <1>7. ASSUME NEW k \in Keys, Enqueue(k) PROVE OneLetterPerDeadJob'
    BY <1>1, <1>7 DEF Enqueue, Priority
  <1>8. ASSUME NEW j \in DOMAIN jobs, ReplayDeadLetter(j) PROVE OneLetterPerDeadJob'
    BY <1>1, <1>8, ReplayStep
  <1> QED
    BY <1>2, <1>3, <1>4, <1>5, <1>6, <1>7, <1>8 DEF TimelyNext, QueueStep

\* With timely callers a dead job has exactly one dead letter and no other job has
\* any, so the dead-letter list never shows a job that is alive.
THEOREM OneLetterCorrect == TimelySpec => []OneLetterPerDeadJob
  <1>1. Init => OneLetterPerDeadJob
    BY DEF Init, OneLetterPerDeadJob, EmptyTable
  <1> QED
    BY <1>1, TimelyRefinesSpec, TypeCorrect, LetterInductive, PTL DEF TimelySpec

\* A timely step takes every job along a documented transition.
LEMMA TransitionStep ==
    TypeOK /\ [TimelyNext]_vars =>
        [\A j \in DOMAIN jobs : DocumentedStep(jobs[j].status, jobs'[j].status)]_vars
  <1> DEFINE Moves == \A j \in DOMAIN jobs : DocumentedStep(jobs[j].status, jobs'[j].status)
  <1> SUFFICES ASSUME TypeOK, TimelyNext PROVE Moves
    OBVIOUS
  <1>1. ASSUME NEW k \in Keys, NEW p \in Priority, EnqueueNew(k, p) PROVE Moves
    BY <1>1, EnqueueStep DEF DocumentedStep
  <1>2. ASSUME NEW c \in Classes, ClaimNext(c) PROVE Moves
    <2>1. PICK j \in Queued(jobs, c) :
            /\ jobs'[j] = ClaimRow(jobs[j])
            /\ \A i \in DOMAIN jobs : i # j => jobs'[i] = jobs[i]
      BY <1>2, ClaimStep
    <2>2. /\ jobs[j].status \in {"pending", "retry"}
          /\ jobs'[j].status = "running"
      BY <2>1, RowType, ClaimRowFacts DEF Queued, QueuedStatus, TypeOK
    <2> QED
      BY <2>1, <2>2 DEF DocumentedStep
  <1>3. ASSUME Recover PROVE Moves
    <2>1. \A j \in DOMAIN jobs :
            \/ jobs'[j] = jobs[j]
            \/ jobs[j].status = "running" /\ jobs'[j].status = "pending"
      BY <1>3, RecoverTableFacts, RecoverRowFacts, RowType DEF Recover, TypeOK
    <2> QED
      BY <2>1 DEF DocumentedStep
  <1>4. ASSUME NEW h \in held, Current(h), Complete(h) \/ Fail(h) PROVE Moves
    BY <1>4, TimelySettle DEF DocumentedStep
  <1>5. ASSUME NEW j \in DOMAIN jobs, LeaseExpires(j) \/ BecomesDue(j) PROVE Moves
    BY <1>5, TimeStep DEF DocumentedStep
  <1>6. ASSUME NEW h \in held, Abandon(h) PROVE Moves
    BY <1>6 DEF Abandon, DocumentedStep
  <1> QED
    BY <1>1, <1>2, <1>3, <1>4, <1>5, <1>6, ReplayStep
    DEF TimelyNext, QueueStep, Enqueue, Priority

\* With timely callers every status change is one of those the implementation
\* specification draws: completed and dead are final.
THEOREM TransitionsCorrect == TimelySpec => DocumentedTransitions
  BY TimelyRefinesSpec, TypeCorrect, TransitionStep, PTL DEF TimelySpec, DocumentedTransitions

-----------------------------------------------------------------------------
(* Backpressure.  The jobs of a class that are queued or running are its   *)
(* active jobs; recovery and retry only move them between the two counts.  *)

InFlight(t, c) ==
    {j \in DOMAIN t : ClassOf[t[j].key] = c /\ t[j].status \in ActiveStatus}

\* Queued and running jobs of a class are counted together.
LEMMA InFlightCount ==
    ASSUME NEW t, IsTable(t), NEW c
    PROVE  /\ IsFiniteSet(InFlight(t, c))
           /\ Cardinality(InFlight(t, c)) \in Nat
           /\ Cardinality(InFlight(t, c)) =
                Cardinality(Queued(t, c)) + Cardinality(Running(t, c))
  <1> DEFINE Q == Queued(t, c)
             R == Running(t, c)
  <1>1. InFlight(t, c) = Q \cup R /\ Q \cap R = {}
    BY DEF InFlight, Queued, Running, QueuedStatus, ActiveStatus
  <1>2. /\ IsFiniteSet(Q) /\ Cardinality(Q) \in Nat
        /\ IsFiniteSet(R) /\ Cardinality(R) \in Nat
    BY FiniteCounts
  <1> HIDE DEF Q, R
  <1>3. /\ IsFiniteSet(Q \cup R)
        /\ Cardinality(Q \cup R) = Cardinality(Q) + Cardinality(R) - Cardinality(Q \cap R)
    BY <1>2, FS_Union
  <1>4. Cardinality(Q \cap R) = 0
    BY <1>1, FS_EmptySet
  <1>5. Cardinality(Q \cup R) = Cardinality(Q) + Cardinality(R)
    BY <1>2, <1>3, <1>4
  <1> QED
    BY <1>1, <1>2, <1>3, <1>5 DEF Q, R

BacklogOK(c) == Cardinality(InFlight(jobs, c)) <= PendingLimit[c] + RunningLimit[c]

\* The bound on the backlog is a bound on the jobs in flight.
LEMMA BacklogMeaning == TypeOK => (BacklogBounded <=> \A c \in Classes : BacklogOK(c))
  BY InFlightCount DEF TypeOK, BacklogBounded, BacklogOK

\* A step that puts no new job in flight keeps the backlog bounded.
LEMMA BacklogShrinks ==
    ASSUME TypeOK, TypeOK', NEW c \in Classes, BacklogOK(c),
           InFlight(jobs', c) \subseteq InFlight(jobs, c)
    PROVE  BacklogOK(c)'
  <1>1. IsTable(jobs) /\ IsTable(jobs')
    BY DEF TypeOK
  <1>2. /\ Cardinality(InFlight(jobs', c)) <= Cardinality(InFlight(jobs, c))
        /\ Cardinality(InFlight(jobs', c)) \in Nat
        /\ Cardinality(InFlight(jobs, c)) \in Nat
    BY <1>1, InFlightCount, FS_Subset
  <1>3. PendingLimit[c] + RunningLimit[c] \in Nat
    BY JobTableAssumption
  <1> QED
    BY <1>2, <1>3 DEF BacklogOK

\* Only an admitted enqueue adds an active job: it found fewer queued jobs than
\* the limit, and the semaphore bounds those that were running.
LEMMA BacklogInductive ==
    TypeOK /\ TypeOK' /\ RunningWithinLimit /\ BacklogBounded /\ [TimelyNext]_vars
        => BacklogBounded'
  <1> SUFFICES ASSUME TypeOK, TypeOK', RunningWithinLimit, BacklogBounded,
                      [TimelyNext]_vars, NEW c \in Classes
               PROVE  BacklogOK(c)'
    BY BacklogMeaning, InFlightCount DEF BacklogBounded, BacklogOK, TypeOK
  <1>0. BacklogOK(c) /\ IsTable(jobs)
    BY BacklogMeaning DEF TypeOK
  <1>1. ASSUME NEW k \in Keys, NEW p \in Priority, EnqueueNew(k, p)
        PROVE  BacklogOK(c)'
    <2>1. PICK j \in JobIds \ DOMAIN jobs :
            /\ DOMAIN jobs' = DOMAIN jobs \cup {j}
            /\ jobs'[j] = NewRow(k, p)
            /\ \A i \in DOMAIN jobs : jobs'[i] = jobs[i]
            /\ ~Backpressure(jobs, k)
      BY <1>1, EnqueueStep
    <2>2. NewRow(k, p).key = k
      BY DEF NewRow
    <2>3. CASE ClassOf[k] = c
      <3>1. InFlight(jobs', c) \subseteq InFlight(jobs, c) \cup {j}
        BY <2>1 DEF InFlight
      <3>2. /\ IsFiniteSet(InFlight(jobs, c))
            /\ Cardinality(InFlight(jobs, c)) \in Nat
            /\ Cardinality(InFlight(jobs, c)) =
                    Cardinality(Queued(jobs, c)) + Cardinality(Running(jobs, c))
        BY <1>0, InFlightCount
      <3>3. /\ IsFiniteSet(InFlight(jobs, c) \cup {j})
            /\ \/ Cardinality(InFlight(jobs, c) \cup {j}) = Cardinality(InFlight(jobs, c))
               \/ Cardinality(InFlight(jobs, c) \cup {j}) = Cardinality(InFlight(jobs, c)) + 1
        BY <3>2, FS_AddElement
      <3>4. /\ Cardinality(InFlight(jobs', c)) <= Cardinality(InFlight(jobs, c) \cup {j})
            /\ Cardinality(InFlight(jobs', c)) \in Nat
            /\ Cardinality(InFlight(jobs, c) \cup {j}) \in Nat
        BY <3>1, <3>3, FS_Subset, FS_CardinalityType
      <3>5. /\ PendingLimit[c] \in Nat
            /\ RunningLimit[c] \in Nat
            /\ Cardinality(Queued(jobs, c)) \in Nat
            /\ Cardinality(Running(jobs, c)) \in Nat
            /\ ~(Cardinality(Queued(jobs, c)) >= PendingLimit[c])
            /\ Cardinality(Running(jobs, c)) <= RunningLimit[c]
        BY <1>0, <2>1, <2>3, JobTableAssumption, FiniteCounts
        DEF Backpressure, RunningWithinLimit
      <3>6. Cardinality(InFlight(jobs', c)) <= PendingLimit[c] + RunningLimit[c]
        BY <3>2, <3>3, <3>4, <3>5
      <3> QED
        BY <3>6 DEF BacklogOK
    <2>4. CASE ClassOf[k] # c
      <3>1. InFlight(jobs', c) \subseteq InFlight(jobs, c)
        BY <2>1, <2>2, <2>4 DEF InFlight
      <3> QED
        BY <1>0, <3>1, BacklogShrinks
    <2> QED
      BY <2>3, <2>4
  <1>2. ASSUME NEW d \in Classes, ClaimNext(d) PROVE BacklogOK(c)'
    <2>1. PICK j \in Queued(jobs, d) :
            /\ DOMAIN jobs' = DOMAIN jobs
            /\ jobs'[j] = ClaimRow(jobs[j])
            /\ \A i \in DOMAIN jobs : i # j => jobs'[i] = jobs[i]
      BY <1>2, ClaimStep
    <2>2. /\ j \in DOMAIN jobs
          /\ jobs[j].status \in ActiveStatus
          /\ jobs'[j].key = jobs[j].key
      BY <2>1, RowType, ClaimRowFacts DEF Queued, QueuedStatus, ActiveStatus, TypeOK
    <2>3. InFlight(jobs', c) \subseteq InFlight(jobs, c)
      BY <2>1, <2>2 DEF InFlight
    <2> QED
      BY <1>0, <2>3, BacklogShrinks
  <1>3. ASSUME NEW h \in held, Current(h), Complete(h) \/ Fail(h) PROVE BacklogOK(c)'
    <2>1. InFlight(jobs', c) \subseteq InFlight(jobs, c)
      BY <1>3, TimelySettle DEF InFlight, ActiveStatus
    <2> QED
      BY <1>0, <2>1, BacklogShrinks
  <1>4. ASSUME \/ Recover
               \/ \E h \in held : Abandon(h)
               \/ \E j \in DOMAIN jobs : LeaseExpires(j) \/ BecomesDue(j)
               \/ UNCHANGED vars
        PROVE  BacklogOK(c)'
    <2>1. InFlight(jobs', c) \subseteq InFlight(jobs, c)
      BY <1>4, QuietStep DEF InFlight
    <2> QED
      BY <1>0, <2>1, BacklogShrinks
  <1>5. ASSUME NEW k \in Keys, Enqueue(k) PROVE BacklogOK(c)'
    BY <1>1, <1>5 DEF Enqueue, Priority
  <1>6. ASSUME NEW j \in DOMAIN jobs, ReplayDeadLetter(j) PROVE BacklogOK(c)'
    BY <1>1, <1>6, ReplayStep
  <1> QED
    BY <1>2, <1>3, <1>4, <1>5, <1>6 DEF TimelyNext, QueueStep

\* With timely callers backpressure really bounds the queue: no mix of recovery,
\* retry and replay takes a class beyond its queue limit plus its running limit.
THEOREM BacklogCorrect == TimelySpec => []BacklogBounded
  <1>1. Init => TypeOK /\ BacklogBounded
    <2> SUFFICES ASSUME Init, NEW c \in Classes PROVE TypeOK /\ BacklogOK(c)
      BY BacklogMeaning DEF BacklogBounded, Init, TypeOK, EmptyTable, IsTable
    <2>1. TypeOK
      BY DEF Init, TypeOK, EmptyTable, IsTable
    <2>2. InFlight(jobs, c) = {}
      BY DEF Init, EmptyTable, InFlight
    <2>3. PendingLimit[c] + RunningLimit[c] \in Nat
      BY JobTableAssumption
    <2> QED
      BY <2>1, <2>2, <2>3, FS_EmptySet DEF BacklogOK
  <1> QED
    BY <1>1, TimelyRefinesSpec, TypeCorrect, RunningLimitCorrect, BacklogInductive, PTL
    DEF TimelySpec

=============================================================================
