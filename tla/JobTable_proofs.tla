--------------------------- MODULE JobTable_proofs ---------------------------
(***************************************************************************)
(* What the operators of JobTable return, for every table: the lemmas that *)
(* the proofs about JobQueue and CaptureWorker share.                      *)
(***************************************************************************)
EXTENDS JobTable, FiniteSetTheorems, TLAPS

\* Closing the open attempts keeps the log's length and leaves none open.
LEMMA CloseAttemptsFacts ==
    ASSUME NEW log \in Seq(AttemptStatus), NEW verdict \in {"completed", "failed"}
    PROVE  /\ CloseAttempts(log, verdict) \in Seq(AttemptStatus)
           /\ Len(CloseAttempts(log, verdict)) = Len(log)
           /\ \A n \in DOMAIN CloseAttempts(log, verdict) :
                CloseAttempts(log, verdict)[n] # "running"
  BY DEF CloseAttempts, AttemptStatus

\* enqueue_job adds one well-formed pending row and changes no other.
LEMMA EnqueueJobFacts ==
    ASSUME NEW t, IsTable(t), NEW j \in JobIds \ DOMAIN t,
           NEW k \in Keys, NEW p \in Priority
    PROVE  /\ IsTable(EnqueueJob(t, j, k, p))
           /\ DOMAIN EnqueueJob(t, j, k, p) = DOMAIN t \cup {j}
           /\ EnqueueJob(t, j, k, p)[j] = NewRow(k, p)
           /\ \A i \in DOMAIN t : EnqueueJob(t, j, k, p)[i] = t[i]
  BY DEF EnqueueJob, NewRow, IsTable, JobRow, Status, ActiveStatus

\* claim_next gives a row a new open attempt and makes it running.
LEMMA ClaimRowFacts ==
    ASSUME NEW r \in JobRow
    PROVE  LET s == ClaimRow(r)
           IN /\ s \in JobRow
              /\ s.key = r.key /\ s.letters = r.letters
              /\ s.status = "running" /\ ~s.expired
              /\ s.attempts = Append(r.attempts, "running")
  <1> DEFINE log == Append(r.attempts, "running")
  <1>1. log \in Seq(AttemptStatus)
    BY DEF JobRow, AttemptStatus
  <1>2. ClaimRow(r) = [r EXCEPT !.status = "running", !.expired = FALSE, !.attempts = log]
    BY DEF ClaimRow
  <1> HIDE DEF log
  <1>3. /\ ClaimRow(r) \in JobRow
        /\ ClaimRow(r).key = r.key /\ ClaimRow(r).letters = r.letters
        /\ ClaimRow(r).status = "running" /\ ~ClaimRow(r).expired
        /\ ClaimRow(r).attempts = log
    BY <1>1, <1>2 DEF JobRow, Status, ActiveStatus
  <1> QED
    BY <1>3 DEF log

\* recover_expired_leases makes an expired running row pending and keeps others.
LEMMA RecoverRowFacts ==
    ASSUME NEW r \in JobRow
    PROVE  LET s == RecoverRow(r)
           IN /\ s \in JobRow
              /\ s.key = r.key /\ s.letters = r.letters
              /\ s.attempts = r.attempts
              /\ \/ s = r /\ ~(r.status = "running" /\ r.expired)
                 \/ r.status = "running" /\ s.status = "pending" /\ ~s.expired
  BY DEF RecoverRow, JobRow, Status, ActiveStatus

\* complete_job closes the attempts of a row and completes it if it is running.
LEMMA CompleteRowFacts ==
    ASSUME NEW r \in JobRow
    PROVE  LET s == CompleteRow(r)
           IN /\ s \in JobRow
              /\ s.key = r.key /\ s.letters = r.letters
              /\ Len(s.attempts) = Len(r.attempts)
              /\ \A n \in DOMAIN s.attempts : s.attempts[n] # "running"
              /\ IF r.status = "running"
                 THEN s.status = "completed" /\ ~s.expired
                 ELSE s.status = r.status /\ s.expired = r.expired
  <1> DEFINE log == CloseAttempts(r.attempts, "completed")
  <1>1. /\ log \in Seq(AttemptStatus)
        /\ Len(log) = Len(r.attempts)
        /\ \A n \in DOMAIN log : log[n] # "running"
    BY CloseAttemptsFacts DEF JobRow
  <1>2. CompleteRow(r) = IF r.status = "running"
            THEN [r EXCEPT !.status = "completed", !.expired = FALSE, !.attempts = log]
            ELSE [r EXCEPT !.attempts = log]
    BY DEF CompleteRow
  <1> HIDE DEF log
  <1>3. CASE r.status = "running"
    BY <1>1, <1>2, <1>3 DEF JobRow, Status
  <1>4. CASE r.status # "running"
    BY <1>1, <1>2, <1>4 DEF JobRow
  <1> QED
    BY <1>3, <1>4

\* fail_job closes the attempts of a row and makes it wait for a retry, while
\* it has an attempt left, or dead with one more dead letter.
LEMMA FailRowFacts ==
    ASSUME NEW r \in JobRow, NEW retryable \in BOOLEAN
    PROVE  LET s == FailRow(r, retryable)
           IN /\ s \in JobRow
              /\ s.key = r.key /\ ~s.expired
              /\ Len(s.attempts) = Len(r.attempts)
              /\ \A n \in DOMAIN s.attempts : s.attempts[n] # "running"
              /\ \/ /\ s.status = "retry"
                    /\ Len(r.attempts) < MaxAttempts
                    /\ s.letters = r.letters
                 \/ s.status = "dead" /\ s.letters = r.letters + 1
  <1> DEFINE log == CloseAttempts(r.attempts, "failed")
             closed == [r EXCEPT !.expired = FALSE, !.attempts = log]
             letters == r.letters + 1
  <1>1. /\ log \in Seq(AttemptStatus)
        /\ Len(log) = Len(r.attempts)
        /\ \A n \in DOMAIN log : log[n] # "running"
    BY CloseAttemptsFacts DEF JobRow
  <1>2. letters \in Nat
    BY DEF JobRow
  <1>3. FailRow(r, retryable) = IF retryable /\ Len(r.attempts) < MaxAttempts
            THEN [closed EXCEPT !.status = "retry", !.priority = 70, !.due = FALSE]
            ELSE [closed EXCEPT !.status = "dead", !.letters = letters]
    BY DEF FailRow
  <1> HIDE DEF log, letters
  <1>4. /\ closed \in JobRow
        /\ closed.key = r.key /\ ~closed.expired
        /\ closed.attempts = log /\ closed.letters = r.letters
    BY <1>1 DEF JobRow
  <1> HIDE DEF closed
  <1>5. CASE retryable /\ Len(r.attempts) < MaxAttempts
    <2>1. /\ FailRow(r, retryable) \in JobRow
          /\ FailRow(r, retryable).key = r.key
          /\ FailRow(r, retryable).expired = FALSE
          /\ FailRow(r, retryable).attempts = log
          /\ FailRow(r, retryable).status = "retry"
          /\ FailRow(r, retryable).letters = r.letters
      <3> DEFINE p == 70
      <3>1. p \in Priority /\ "retry" \in Status
        BY DEF Priority, Status, ActiveStatus
      <3>2. FailRow(r, retryable) =
                [closed EXCEPT !.status = "retry", !.priority = p, !.due = FALSE]
        BY <1>3, <1>5
      <3> HIDE DEF p
      <3> QED
        BY <1>4, <3>1, <3>2 DEF JobRow
    <2> QED
      BY <1>1, <1>5, <2>1
  <1>6. CASE ~(retryable /\ Len(r.attempts) < MaxAttempts)
    <2>1. /\ FailRow(r, retryable) \in JobRow
          /\ FailRow(r, retryable).key = r.key
          /\ FailRow(r, retryable).expired = FALSE
          /\ FailRow(r, retryable).attempts = log
          /\ FailRow(r, retryable).status = "dead"
          /\ FailRow(r, retryable).letters = letters
      BY <1>2, <1>3, <1>4, <1>6 DEF JobRow, Status
    <2> QED
      BY <1>1, <2>1 DEF letters
  <1> QED
    BY <1>5, <1>6

\* Replacing one row of a table by a well-formed row gives a table.
LEMMA UpdateRowFacts ==
    ASSUME NEW t, IsTable(t), NEW j \in DOMAIN t, NEW r \in JobRow
    PROVE  LET u == [t EXCEPT ![j] = r]
           IN /\ IsTable(u)
              /\ DOMAIN u = DOMAIN t
              /\ u[j] = r
              /\ \A i \in DOMAIN t : i # j => u[i] = t[i]
  BY DEF IsTable

\* Every row of a table is well-formed.
LEMMA RowType ==
    ASSUME NEW t, IsTable(t), NEW j \in DOMAIN t
    PROVE  t[j] \in JobRow
  BY DEF IsTable

\* Recovery keeps the ids of a table and maps every row by RecoverRow.
LEMMA RecoverTableFacts ==
    ASSUME NEW t, IsTable(t)
    PROVE  LET u == RecoverExpiredLeases(t)
           IN /\ IsTable(u)
              /\ DOMAIN u = DOMAIN t
              /\ \A j \in DOMAIN t : u[j] = RecoverRow(t[j])
  BY RecoverRowFacts, RowType DEF RecoverExpiredLeases, IsTable

=============================================================================
