# Verification of XNative's capture path and storage

TLA+ models of the parts of xnative-recursive-learning that keep state and meet
concurrency, crashes and retries: the browser extension's outbox, the capture
transaction, the SQLite job queue and its workers, the migrations, the media store and
the tables around it (media lifecycle, cache, cursors, token bucket, learning), the
project board; and of the algorithms whose edges are hard to test: clustering of hashes,
sampling plans, multimodal evidence, rankings. TLC checks them on small instances;
TLAPS proves what matters most for every instance. File names below are relative to
the repository.

## 1. The system

A post travels along one path:

    page (content.js) --message--> service worker (background.js, outbox)
      --POST /capture--> API (capture.py, persist_capture) --SQLite commit--> jobs
      --claim--> worker (scheduler.py) --handler (jobs.py)--> features
      --failure--> retry | dead letter --POST /jobs/{id}/retry--> jobs

Components, the state each keeps, its operations, and what makes it correct:

| Component | State | Operations | Must hold |
|---|---|---|---|
| Browser extension (`extension/`) | dataset flags of article elements, outbox in `chrome.storage.local`, `sentCache` and `flushInProgress` in memory | scan, `enqueue`, `flushOutbox`, alarm, restart of the service worker | an accepted post is not lost and reaches the backend; a page is answered |
| Capture API (`api/routes/capture.py`, `CaptureRepository`) | `captured_posts`, `capture_inbox`, `media_assets`, search rows, audit log | `persist_capture`, duplicate answer, backpressure | post, inbox row and job together or not at all; answer after commit |
| Job queue (`JobRepository`) | `jobs`, `job_attempts`, `dead_letters` | enqueue, claim, recover leases, complete, fail, replay | one active job per key, class limits, bounded retries, log and row agree |
| Worker (`worker/scheduler.py`) | none of its own: one transaction per job | poll, claim, savepoint, handler, settle | effect exactly once per completed job; nothing left behind by a crash |
| Token bucket (`RateLimitRepository`) | `rate_limit_buckets` | acquire, refill | no window admits more than a full bucket and its refill |
| Cursors, cache (`CursorRepository`, `CacheRepository`) | `pipeline_cursors`, `cache_entries` | put, invalidate, get, advance | no stale value is served, a cursor does not move back |
| Feature store | `features` | upsert by the normalize handler | a feature exactly for a completed job |
| Media store (`media/media_store.py`) | content-addressed files, a JSON manifest | store, release, collect, snapshot | referenced files exist, directory and manifest agree, quota and retention are kept |
| Media lifecycle tables (`MediaLifecycleRepository`) | object, reference and snapshot rows, audit rows | upsert, release, snapshot | counts, references and audit rows agree |
| Migrations (`db/migration_runner.py`) | `schema_migrations`, the schema | run all scripts | a recorded version is complete, also with several processes and crashes |
| Learning (`learning/feedback_store.py`) | `feedback`, `learning_weights`, `style_examples` | record feedback | weights are the committed feedback, replayed |
| Project board (`board.py`, `app.py`, `main.py`) | a JSON file of tasks | add, update, remove | ids unique; a save drops only what its session knew or an old copy hides |
| Scraping and rankings (`trending.py`, `recommender.py`, `candidate.py`) | lists in memory | collect, score, rank | the best averages, best first, also after a broken-off scrape |
| Perceptual hashes (`media/phash.py`) | a forest in memory | hash, compare, join | clusters are the components of "near duplicate" |
| Sampling plans (`media/frame_sampler.py`) | none | plan a clip's frames and audio | frames inside the clip, apart, within the caps |
| Multimodal evidence (`media/multimodal_evidence.py`) | none | merge text, quotation and media | one more medium takes nothing away |
| Scoring, text processing, generation, documents | none | pure functions, external services | - |

The parts interact through the SQLite file (API requests and workers, each in a
`UnitOfWork`), through files (media manifest, board), through HTTP (extension and API), through chrome messages (page and
service worker) and through `chrome.storage`. The hard behaviours are: handlers of
the service worker interleaved at every `await`, and its restarts; lost answers;
deferred SQLite transactions with snapshots and one write lock; exceptions inside
a handler; crashes in the middle of a transaction; leases that run out while
their holder is alive. `PROJECT.json` lists them as hazards, each at its line and with
the properties that cover it.

## 2. Modules

`JobTable` holds what each statement sequence of `JobRepository` does to a table of
jobs, as operators from tables to tables. Two specifications use them:

* `JobQueue`: callers that claim and settle in separate transactions, which is
  how `tests/integration/test_phase3_jobs.py` uses the repository and what leases are
  for. One action is one committed unit of work.
* `CaptureWorker`: the inside of the transactions of API requests and workers.

`CapturePipeline` says what those transactions promise, without transactions, and
`CaptureWorker` is proved, and checked, to implement it. `Outbox` is the extension. The
backend of `Outbox` is a set of stored posts: that a repeated delivery stores nothing
twice and that an answer comes after the commit is what `CaptureWorker` shows.

The other modules share no state with each other or with the capture path. `MCRecords`
puts those that several processes write through SQLite into one instance (`MediaRecords`,
`DerivedTables`, `TokenBucket`, `Learning`), `MCFiles` those on files and in memory
(`MediaStore`, `Board`, `Clusters`, `VideoPlan`, `MediaEvidence`, `Scraping`). A variable
`part` says which of them a behaviour moves, so that a run is the sum of their state
spaces and not the product.

Modules named `MC...` give the constants their values for TLC; modules named
`..._proofs` hold the proofs (`JobTable_proofs` the lemmas that those of `JobQueue` and
`CaptureWorker` share, `Records_proofs` what concerns the modules of `MCRecords`, `Files_proofs`
what concerns those of `MCFiles` but for `MediaStore`). Operators marked "Mutant" are plausible bugs. They are
used by no specification; each shows that a property can fail, when it takes the place
of the definition named in `PROJECT.json`.

### JobTable and JobQueue

| Model | Code |
|---|---|
| `jobs[j]` : key, status, priority | a row of `jobs`; a dedupe key stands for job type and payload |
| `due`, `expired` | `available_at <= now`, `lease_expires_at < now` |
| `attempts` | the rows of `job_attempts`; its length is `attempt_count`, which grows in the same claim |
| `letters` | the number of rows of `dead_letters` for the job |
| ids in order | uuid and `created_at` |
| `held` | `ClaimedJob` values in the hands of callers |
| `EnqueueNew`, `ReplayDeadLetter`, `ClaimNext`, `Recover`, `Complete`, `Fail` | the operations of the same names |
| `FailRejected` | `IntegrityError` from `idx_jobs_active_dedupe`, which rolls the caller's unit back |
| `Abandon`, `LeaseExpires`, `BecomesDue` | a caller dies, time passes |

`Claimable` keeps the claim order of the code as far as ages are abstracted: the
priority band first; inside a band an older job of at least the same priority goes
first, since its aging boost is at least as large; pairs that differ the other way
are left open, as their ages decide.

`Spec` lets a caller settle its claim at any time. `TimelySpec` restricts callers to
claims that are still theirs, as `run_due_job_once` guarantees by settling in the
transaction of the claim. What holds of `Spec` holds of `TimelySpec`
(theorem `TimelyRefinesSpec`); the rest needs timely callers, and section 4 says what happens
otherwise.

### CaptureWorker and CapturePipeline

| Model | Code |
|---|---|
| `db` | the last commit; `posts` is `captured_posts` with search and media rows, `inbox` is `capture_inbox` |
| `lock`, `view`, `saved` | SQLite's write lock, the open write transaction, `SAVEPOINT job_handler` |
| `stale` | readers with a snapshot older than `db` (SQLITE_BUSY_SNAPSHOT on their first write) |
| `Poll` | `BEGIN` and `recover_expired_leases`: the first statement writes, so it waits for the lock |
| `Admit` | `try_acquire`; an empty bucket ends the poll, a full one is charged before there is work |
| `Claim`, `ClaimUnhandled`, `FindNothing` | `claim_next` and its three outcomes |
| `HandlerWrites`, `HandlerReturns`, `HandlerRaises` | `normalize_capture_job`, then `complete_job`, or rollback to the savepoint and `fail_job` |
| `CommitPoll`, `WorkerCrash`, `LockTimeout`, `Restart` | end of the unit of work, process death, `busy_timeout`, supervisor |
| `Capture`, `InsertPost`, `EnqueueCapture`, `RefuseCapture` | `persist_capture` up to its first write, its inserts, its job, QUEUE_BACKPRESSURE |
| `Replay`, `EnqueueReplay`, `RefuseReplay` | `POST /jobs/{id}/retry` |
| `Refused`, `CommitRequest`, `RequestCrash` | status 500 on a busy database, 202 after commit, death of the API process |

A request reads before it writes, so in WAL mode its first write fails at once when
the lock is taken or its snapshot is old; a worker writes first, so it waits. Time
passes only between transactions: a claim or an acquire compares instants once, so
letting it pass earlier loses no outcome. One request's crash stands for the death
of the API process as far as that request is concerned.

The refinement maps `accepted` to the committed posts, `queued` to the posts with an
active job, `done` to the posts with a feature and `buried` to those with a dead job.

### Outbox

| Model | Code |
|---|---|
| `element[e]` | `dataset.xnativePending`, `dataset.xnativeCaptured` |
| `Elements`, `PostOf` | article elements and the `hashPost` of what they show |
| `outbox` | `xnativeCaptureOutbox`; `waiting` is `nextAttemptAt > now` |
| `seen[h]`, `remaining[h]` | a handler's copy of the outbox, the `remaining` of a flush |
| `Scan` | `extractPost` and `sendPost` |
| `Decline`, `KnownSent`, `ReadOutbox`, `KnownQueued`, `SaveItem`, `FlushQueued` | the message handler and `enqueue`, cut at each `await` |
| `SaveRejected`, `EnqueueRejected` | storage rejects a call of `enqueue`; the catch (117-122) answers `accepted: false` |
| `AlarmRings`, `BeginLoop`, `Delivered`, `NotDelivered`, `EndFlush` | `flushOutbox`, cut at each `await` |
| `FlushRejected` | storage rejects the read or the save of a flush; the `finally` (99-101) takes the flag down and the catch answers |
| `Restart` | Chrome stops the service worker; ports close, memory is gone |

An action is one part of a handler between two awaits, since JavaScript runs such
a part without interruption. `Continue` is the part of the flush loop from one fetch
to the next. `NotDelivered` covers a backend that is down, that refuses, and one that
commits while its answer is lost. Each call of `chrome.storage` may be rejected: it then has no
effect, and the handler's next part is its way out (`EnqueueRejected`, `FlushRejected`; a rejected
`captureEnabled` is a `Decline`). A page that is answered `accepted: false` shows its element again,
also when its post is in the outbox already. A delay ends in every copy of an item, and not
during a flush, which compares with the time it began at.

### Migrations

| Model | Code |
|---|---|
| `schema` | the tables and indexes there are, each the n-th statement of a script, with the checksum of the script that created it |
| `recorded` | the rows of `schema_migrations` |
| `applied[p]` | what `applied_migrations` returned to the process, before the loop |
| `Scripts(p)` | the files `_migration_files` finds in the release the process runs |
| `lock` | SQLite's write lock: between the INSERT of a version and its commit, and while a connected process writes |
| `BeginWrite`, `EndWrite` | a `UnitOfWork` of a connected process |
| `Connect`, `Skip`, `Mismatch`, `BeginScript`, `Commit`, `Finish` | the parts of `run_migrations` |
| `RunStatement` | one statement of `executescript`: `CREATE ... IF NOT EXISTS`, which leaves an object alone that another script has made |
| `InsertVersion`, `InsertConflict`, `LockTimeout` | the INSERT, its IntegrityError, `busy_timeout` |
| `Crash` | the process is killed; SQLite drops its open transaction |

`executescript` commits the `BEGIN` above it and runs the script in autocommit mode,
so a script is as many transactions as it has statements, and `conn.rollback()` undoes
nothing of it. What saves the schema is that every statement is `CREATE ... IF NOT
EXISTS` and that the version row comes last. A process may run a release without the last
scripts, which then ignores versions it does not know, or with a script that changed
after it had been installed (`Checksum[p]`): that one gets an error when the original is recorded.
When the original's objects are there and its version is not, the changed script takes them as they are;
`ReadyIsMigrated` therefore speaks of definitions only where all releases have the same script
(section 4). A statement over an object of another script's
definition is taken to succeed; one that names a column which is missing there ends its script
with an error, which only makes connections fewer.

### MediaStore

| Model | Code |
|---|---|
| `files` | the files under `media_dir`, by content and suffix, with the bytes written so far |
| `manifest` | the saved `.xnative_media_manifest.json` |
| `call` | the locals of the call in progress: the entry to save, or a collection's own copy of the manifest |
| `StoreBegins`, `CopyOn`, `StoreEnds` | `store_local_media`: existence test, `copy2` byte by byte (an empty source is copied at once), entry and save |
| `Release`, `RecordSnapshot` | `release_local_media`, `record_remote_media_snapshot`: one effect each |
| `CollectBegins`, `CollectOne`, `CollectEnds` | `garbage_collect_media`: candidates, one unlink each, save |
| `CallDies` | crash or OSError between two effects; nothing is undone |
| `deleted` | `local_deleted_at`, `local_deleted_reason`, `availability`, which are set together |

Calls follow one another: nothing in the repository calls the store from two
processes. Every caller names its reference, as the docstring asks; anonymous
references, missing sources and dry runs are left out, as the last two change nothing.
A source may be empty; its entry has `size` 0, which `garbage_collect_media` takes for a collected
one (`Collectable`). The manifest is replaced by rename, so a save is one effect. `time.time()` and the
`now` of a call are one clock that does not run backwards.

### MediaRecords

| Model | Code |
|---|---|
| `db`, `work`, `active` | the last commit, the tables inside the open `UnitOfWork`, whether there is one |
| `objects`, `count`, `references`, `snapshots` | the three tables of `0004_media_lifecycle.sql` |
| `known[c]` | the columns of an object that have been given a value |
| `audit`, `recorded` | rows of `audit_log`, counted by action and entity |
| `UpsertLocalObject`, `ReleaseReference`, `RecordRemoteSnapshot` | the methods of the same names |
| `Sync` | `_sync_reference_count` |
| `Begin`, `Commit`, `Rollback` | `UnitOfWork.__enter__` and `__exit__`, or the end of its process |

One unit of work writes at a time: a second one fails at its first write, as
`CaptureWorker` shows in detail, and is a `Rollback` without effect here.

### DerivedTables

| Model | Code |
|---|---|
| `stored`, `unit[u].view` | the last commit and the snapshot of an open `UnitOfWork`, with its own writes |
| `unit[u].latest` | no commit since the snapshot was taken; if there was one, the first write fails (`MayUpgrade`) |
| `source` | how often the row changed from which cached values are computed |
| `entry[v]` | a row of `cache_entries`: the state of the source its value is of, and whether `get` serves it |
| `ChangeSource`, `InvalidateVersion`, `Put`, `Expire` | a change with `invalidate` in the same unit of work, `invalidate` of one version, `put`, the end of a TTL |
| `Advance`, `cursor` | `CursorRepository.advance`, which stores any value |
| `carried` | no column: a value or position computed from what another unit of work had read |

### TokenBucket

One row of `rate_limit_buckets`. `FirstAcquire`, `Acquire` and `Refuse` are the three outcomes
of `try_acquire`; `Tick` and `SetBack` move the wall clock; `Watch` begins a window at any moment,
in which `spent` and `elapsed` count. Tokens and ticks are whole numbers here and floats and
microseconds in the code: rounding is left out.

### Learning

`Insert`, `ReadWeight` and `CommitFeedback` are the parts of `record_feedback` that other
clients can come between. Its first statement is the INSERT of the feedback row, which takes
the write lock, so the read-modify-write of the weight is serialised. `update_weight` on
its own, whose read comes first, is called by nothing else.

### Board

| Model | Code |
|---|---|
| `file` | the tasks in the JSON file, or `Unreadable` after a write that was cut or overlapped |
| `session[s]` | a process with its copy of the tasks: a command of `main.py`, a run of the Streamlit script |
| `Open` | `_load`; a file that cannot be parsed is an empty board |
| `AddTask`, `UpdateTask`, `RemoveTask` | the methods; each goes on to `_save`, whose `write_text` truncates the file first |
| `Save`, `SaveFails`, `Leave` | the write, an exception that `_save` swallows, the end of the process |

### Clusters, VideoPlan, MediaEvidence, Scraping

`Clusters` is the loop of `cluster_similar_hashes`, one comparison per action, with the forest
of `find`; the reference definition (`Closed`) is connectivity by near duplicates.
`VideoPlan` gives each request of `plan_video_audio_lifecycle` and `sample_video_frames` its
answer, in milliseconds and with Python's rounding to even. `MediaEvidence` attaches media to
a post one by one and compares `build_multimodal_evidence` before and after. `Scraping` has
`get_posts` and `get_posts_extended` on one stream, with faults in the media list, the author
or the content of a quotation, and both rankings: posts are credited to accounts in order
(`Collect`), and accounts placed one by one, as a stable sort does (`Sorted`); the reference
definition (`RankedBefore`) compares exact averages over the sample. What a recursion or a loop of
the code computes is written as a recursive function here (`Find`, `Groups`, `Collect`, `Sorted`),
so that it can be proved about.

## 3. Runs

| Run | Question | Instance | Distinct states |
|---|---|---|---|
| `queue_any` | Do the tables stay consistent whatever callers do with claims? | 2 keys, 2 jobs, limits 1, 3 attempts, 4 claims | 1,178,669 |
| `queue_timely` | State machine, letters and backlog with timely callers; is the job of a dead worker taken back? | 3 keys, 3 jobs, 2 claims per job | 107,686 |
| `worker_safe` | Transactions, atomicity, starts of handlers, refinement | 2 workers, 2 requests, 2 posts (one without handler), 1 replay, 1 crash | 178,960 |
| `worker_live` | Does everything queued settle? | 2 workers, 1 request, 1 replay, 1 crash | 38,035 |
| `outbox_overlap` | Do overlapping handlers keep the outbox sound, with one flush at a time? | 3 elements of 2 posts, outbox of 2, 1 restart, rejected calls | 1,345,841 |
| `outbox_full` | And when each second post shifts another one out? Is every page answered, also when storage refuses? | 2 elements of 2 posts, outbox of 1, 1 restart, rejected calls | 23,160 |
| `outbox_serial` | Is nothing lost, and everything delivered, without overlap? | 3 elements of 2 posts, outbox of 2, 2 restarts | 19,699 |
| `outbox_lost` | Is nothing lost with overlap? It is. | no restart | violation |
| `migrations` | Is what is recorded complete, ordered and of the right release, and does everybody connect who can? | 3 processes (release with one script, with both, with the second one changed), 1 write, 1 crash | 109,844 |
| `media_store` | Directory, quota, retention and evidence of the media store; ids and losses of the board; clusters, plans, evidence and rankings | 3 contents, one of them empty, 1 reference, clock to 1, 1 crash; 2 sessions, 3 tasks, 1 fault; 4 hashes; clips of up to 30 ms; 3 media; 3 tweets of 5 | 1,769,005 |
| `media_truncated` | Does a named file hold its content? It does not. | 1 crash | violation |
| `media_records` | Do counts, references and audit rows agree; is the cache fresh, the cursor monotonic, admission bounded, no feedback lost? | 2 contents, 2 references, 5 calls; 2 units of work; capacity 3, clock to 4, 1 set-back; 2 clients, 2 rows of feedback | 1,212,959 |

The type invariants `TypeOK` of `JobQueue`, `MediaRecords`, `TokenBucket` and `DerivedTables`
(and `Typed` of `CaptureWorker_proofs`) and `OneLetterPerDeadJob` are proved, and no run repeats them.

The bounds. Limits of one make backpressure and the semaphore happen at once. Two keys are enough for
a duplicate beside another job. With three attempts and four claims in `queue_any` a caller that has lost
its lease fails a row that a second one has claimed, completed or put back to `retry`, a third one
claims what it leaves, the failure meets a second active row of the same key (`FailRejected`), and a
recovery goes past the maximum. A third job is enough for a replay beside two others. An
outbox of two holds two posts at once, which three overlapping handlers of two posts can duplicate, in `outbox_overlap`; an
outbox of one shifts in `outbox_full`, where two handlers and the alarm reach every way in which a call is
rejected. `MaxClaims`, `JobIds`, `MaxReplays`, `MaxCrashes`,
`MaxRestarts` and every other constant that a module marks as a bound are bounds of the
model only. Two scripts are enough for a version in front of and behind a gap, and three
processes for one that waits while two race. The files of the media store have no byte or one, and
one suffix each: a copy can be cut short before its only byte, an empty file lies beside others, and a
target of one byte is met by removing either of two files; a clock of one tick is enough for retentions that have
ended and uses of different age. Five calls suffice for add, repeat, release, release in vain
and a call after a commit. Two sessions and three tasks let one session save between the
load and the save of another and an id be given again; four hashes at distance one make chains
whose ends are joined in either order; the plans run through every duration around the
gaps and limits of their policies; three tweets of three accounts give ties, unequal numbers
of posts and posts that lost their quotation. One source change and two positions are enough
for a reader between an old and a new value; two clients with start weights near both clamps
for lost updates and for clamping. A bucket of three with two tokens a tick and a cost of two
reaches fractional refusals, the cap and a window across a set-back.

The runs of `JobQueue` and of `media_store` and `media_records` do not check for deadlock,
because ids, claims, calls, tasks, feedback or media run out there; the others check it.
Processes of one kind are interchangeable in `worker_safe`, `media_store` (sessions) and
`media_records` (units of work), and so are the two elements of one post in `outbox_overlap` and the
two contents of one byte in `media_store`: symmetry is used there. The liveness runs use none.

Fairness. `queue_timely`: clocks do not stop, and `run_worker_loop` polls for ever, each
poll recovering leases. `worker_live`: a process goes on once it has begun; a
supervisor restarts a worker (the repository has none: this is an assumption on
the deployment); some worker that keeps waiting gets the lock, because SQLite retries
within `busy_timeout` and the transactions of others are short (strong fairness); time
passes. Crashes are finite. `outbox_full`: storage and fetch answer each call, with a result or an
error; nothing is assumed about which. `outbox_serial`: in addition the alarm is periodic, delays end, and a
flush of the alarm that is tried again and again is not always refused by storage and backend
(strong fairness of `BeginLoop` and `Delivered`). `migrations`: a process that can go on does, and whoever runs
the system starts a process again that has ended with an error or was killed (an assumption
on the deployment, as for workers). Writes of connected processes are finite, so lock
timeouts end.

## 4. What the runs found

* **Captured posts can be lost** (`outbox_lost`). `enqueue` and `flushOutbox` each read the
  outbox, await, and write it back. A post queued during the fetches of a flush is
  overwritten when the flush saves what it kept, although its element is marked
  captured. `outbox_serial` shows that overlap is the only cause: without it nothing is
  lost, over restarts, failures and lost answers.
* **A copy cut short is taken for the file** (`media_truncated`). `copy2` writes to the
  final path and any file there counts as a duplicate, so the next call records the
  truncated file under the full hash.

Further behaviour that the modules contain and that differs from the documents, without a run
of its own:

* Claim, attempt and handler are one transaction, so a crash in a handler rolls the attempt back. "Retry: 5
  deneme" (`docs/IMPLEMENTATION_SPECIFICATION.md:278`) is true of attempts; a handler is started once more
  for each crash, and no more often (`StartsWithinMax` in `worker_safe`).
* Candidates of a collection have `byte_size > 0` (`media_store.py:245`), and `store_local_media` takes an empty
  source: its file and its entry stay after their retention, against the docstring
  at `media_store.py:234` (`Collectable`; `CollectionMeetsTarget` names empty files as the exception).
* Every statement of a script is `CREATE ... IF NOT EXISTS`, and a script commits statement by
  statement before its version row. Objects that one release's script has left (its process was killed, or is
  racing) are not touched by a changed script of the same number, which then records its own checksum;
  `init_db` hands out the other script's definitions from then on (`Create`, `RunStatement`; `ReadyIsMigrated`
  excepts changed scripts for that). `docs/TEST_PLAN.md:32` expects one schema of all databases.
* `fail_job` selects and updates by id only. Under `Spec`, a caller that lost its lease and
  comes back late puts a job that another caller completed back to `retry`, or buries it.
  `TransitionsCorrect` therefore needs timely callers.
* `max_attempts` is compared only in `fail_job`; a job whose callers die is recovered and
  claimed for ever, without a dead letter (`RecoverRow`, `ClaimRow`).
* A content's path has the source's suffix, its manifest entry has not: the same bytes as `.jpg` and
  as `.jpeg` leave a file that no entry names and no collection removes (`StoredEntry`).
* The entry of a collected file is reused when its content comes back, without resetting
  `availability`, `local_deleted_at` and `local_deleted_reason` (`deleted` in `StoredEntry`).

* A retried job has priority 70, a lower band than a live capture, and aging acts inside a band:
  captures that keep coming hold retries back (`GoesBefore`). The models have finitely many
  jobs, so `EverythingSettles` does not see it.
* A post the backend refuses for good (413, 422) is retried for ever, like one that met a
  backend that is down (`NotDelivered`, `background.js:87-95`).
* A wall clock that is set back makes `try_acquire` store the earlier reading, so the ticks in
  between are credited twice. `AdmissionBounded` counts the ticks the clock makes, and so holds;
  of real time it would not.
* `app.py:26-27` says that several instances share the board. Each session writes back the whole list
  it loaded, so what others saved meanwhile is lost (`BoardLossNeedsOldCopy` says that this is the only way
  besides an unreadable file). An unreadable file is shown as an empty
  board, and the next save writes that over it (`board.py:70-72`).
* After the task with the greatest id is removed, its id is given to the next one (`board.py:85`):
  ids are unique at any moment (`BoardIdsUnique`), not over time. `app.py:99` looks a task's status
  up in a fixed list and raises for the other ones that the command line accepts.
* `recommender.py:67-72` takes the accents off the text and not off `FOOTBALL_KEYWORDS`, so
  accented keywords never hit (`Plain`, `KeywordHits`).
* The comments at `trending.py:168-170` and `trending.py:321-323` speak of an empty media list
  after an error; what was read before it is kept (`read` in `PostOf`). The scraper is asked for one
  post more than the limit. The docstring of `get_posts` (`trending.py:98-99`) promises an
  empty list on an exception, and that of `get_posts_extended` one where the network is restricted; both
  functions return what they had collected (`EndScrape`).
* `REWARD` in the feedback store and the actions of the domain model are named differently;
  an action that `REWARD` does not list changes no weight and raises nothing (`Reward`).
* A clip shorter than the gap has a frame in its middle, which for one of a millisecond is its very
  beginning, against the docstring of `planned_video_frame_offsets`; frames of a clip of two gaps are
  two thirds of `min_frame_gap_ms` apart (`FramesInside` has the bound that holds).
* The confidence in the relationship of text and media falls from .55 to .45 when a medium is
  added that is not recognised; `MediaOnlyAdds` names this as the only fall.
* `CacheRepository.put` revives an invalidated entry and `CursorRepository.advance` moves a cursor
  back when their caller computed from an earlier unit of work (`carried`). Inside one unit of work
  SQLite's snapshots exclude both. Only tests call these repositories so far.

A crash in the middle of a collection leaves entries that count files which are gone
(`DirectoryAgrees` speaks of runs without crashes). `media_store` shows that this is harmless
for what must be kept: such an entry is either unreferenced or past its retention.

What the properties do not cover, by their wording: late settlements over another caller's work
(`DocumentedTransitions` is about timely callers), a deployment without a supervisor
(`EverythingSettles`), credit for time lived twice after the clock was set back (`AdmissionBounded`),
and values and positions that a caller carries from one unit of work to another (`CacheFresh`,
`CursorMovesOn`), definitions that a changed script has found (`ReadyIsMigrated`), tasks that an old copy
of the board hides. `PROJECT.json` says so at each of these hazards. The averages and
ties of `Scraping` are exact and those of the code floating point, so two averages that differ by a
rounding error may change places there.

## 5. Proofs

All theorems hold for every value of the constants that satisfies the assumption of their
module.

`JobTable_proofs` says what each operator of `JobTable` does to a row and to a table.

`JobQueue_proofs` proves for all sets of ids, keys and classes, all limits and every
`MaxAttempts` (assumption `JobTableAssumption`: ids are numbers, finitely many, limits
are naturals, at least one attempt and one place in a queue):

* of `Spec`: `TypeCorrect`, `OneActiveJob`, `RunningLimitCorrect`, `AttemptLogCorrect`,
  `FailureBookkeepingCorrect`;
* `TimelyRefinesSpec`, and of `TimelySpec`: `OneLetterCorrect`, `TransitionsCorrect`,
  `BacklogCorrect`.

The argument. `TypeOK` is inductive with the conjunct that only a running row can have
an expired lease. The uniqueness of active jobs and the class limit are inductive over
`TypeOK`: an enqueue adds an active row only under a key without one; a claim keeps active
rows active and is taken only below the limit; a failure that would activate a second row is
refused by the index. `AttemptLogAgrees` and `FailureBookkeeping` are the two halves of an
invariant over single rows (`RowsOK`), because a settlement needs both. The backlog is counted
over queued and running jobs together (`InFlight`), a set that recovery, retry and claim leave
alone and only an enqueue below the limit enlarges: the bound on queued jobs alone is not
inductive.

`CaptureWorker_proofs` proves for any workers, requests, posts, crashes and replays
(`CaptureWorkerAssumption`: workers and requests are different processes) `PollCorrect`,
`CaptureCorrect`, `AnswerCorrect`, that the transactions implement `CapturePipeline`
(`PipelineCorrect`), and from that that no accepted post is lost (`NothingIsLost`). None of
these properties is inductive, as they speak of the committed database only. The invariant
`IInv` adds what the holder of the write lock has made of it at each point of its program
(`HolderOK`): the same rows, one queued job claimed, that and its feature, one new post; and at
the commit a change that keeps a good database good and is a step of the pipeline
(`Step`). The lemmas `SettleStep` and `EnqueueStep` say of databases, without any
process, that settling and enqueueing are such changes; `LockAgrees` makes the holder unique;
and `ReaderOK` says that what a request has read is still so unless its snapshot is stale,
which is why a second request for the same post cannot insert it again. The lemmas
`Writes`, `Drops` and `Commits` treat the three kinds of step once for all processes.

`Outbox_proofs` proves for any elements, posts, failures and restarts `OneFlushCorrect`,
`SentCorrect` and `ElementsCorrect`, from one invariant (`Guarded`) that ties
`flushInProgress` to the handler inside the flush and an element's state to its handler.

`OutboxCorrect` says of the same specification that the stored outbox is within its limit and
holds no post twice, however handlers overlap. The stored list is written from copies, so the
invariant (`OutboxInv`) is about the copies: for each handler, what a flush has kept so far followed
by what it has not looked at yet (`InHand`) is `Sound`. Whatever is made of a sound list by leaving
items out or letting delays end is sound again (`SelectionIsSound`: the positions kept form an
injection), and the five ways in which handlers make lists are of that kind, or append one post that
the list does not hold and drop the first when it is full (`SaveItemHand`).

`CapturedCorrect` adds `CapturedIsKept` under the two conditions that the run `outbox_serial`
has: `FairSerialSpec`, in which handlers do not overlap, and `EveryPostFits`, room for all posts. The
invariant (`SerialInv`) says that the one handler under way holds the stored posts when it is going to
add one, that what a flush has in hand or has delivered covers the stored posts, and that a
handler's own post is kept once it is written.
Without the first condition the statement is false (`outbox_lost`), without the second an old post is
pushed out, as the code intends.

`Migrations_proofs` proves for any processes, scripts, releases and number of crashes
(`MigrationsAssumption`: at least one script, each of at least one statement)
`RecordedCorrect`, `OrderCorrect` and `ReadyCorrect`. The inductive invariant `Installing`
says what each process may rely on at each point (`Reached`): its copy of the version rows is
stale but never wrong, everything below its version is recorded in its own release, the
statements it has passed exist, and before it commits nobody has recorded its version. Rows and
objects are only added, so the steps of others keep it (`OthersKeep`). That each object is defined as
some release's script defines it (`FromScripts`) is what makes the definitions those of the release
wherever all releases have the same script; where they differ `ReadyCorrect` promises the recorded
checksum and the existence of the objects, and no more is true.

`Records_proofs` is about the tables that several units of work write.

* Of `MediaRecords`, for any contents, references, snapshots and columns
  (`MediaRecordsAssumption`: finitely many reference ids): `TypeCorrect`, `CountCorrect` and
  `AuditCorrect`. `Sound` is what every method keeps in the tables it works on (`MediaInv`); between
  the write of a reference and `Sync` the tables are sound but for one count (`SoundBut`).
* Of `DerivedTables`, for any processes and versions: `CacheCorrect` and `CursorCorrect`.
  The invariant `DerivedInv` says that the commit and every view are fresh, that one unit
  writes at a time and only on the latest snapshot, and that such a unit's cursor, and what it has
  read of it, is not behind the commit (`InStep`).
* Of `TokenBucket`, for any capacity, rate and cost: `AdmissionCorrect`. What is inductive
  is a bound on the tokens spent in the window together with those the next call would find
  (`Accounts`), the refill that is due included.
* Of `Learning`, for any clients, rewards and clamps: `LearningCorrect`. The weights are
  equal to the feedback replayed because the holder of the write lock works on the weight that the
  committed rows determine (`EntriesOK`); that one more row replays as the old rows and then the new
  one (`ReplayAppend`) is an induction over the table, done by hand (below).

`MediaStore_proofs` proves for any contents, suffixes, sizes (also empty files), policies, targets and number of
crashes `KeptFileCorrect` and `EvidenceCorrect`, from `StoreInv`. `KeptFileIsThere` speaks of the saved
manifest, but a collection removes files by its own copy, and saves that later. So the
invariant says what a call in progress relies on (`CallOK`): a store, that the file it is going to
record is there; a collection, that its copy is the saved manifest except for entries without references
that it has dropped or emptied, and that what it may still remove is exactly what the
policy allows (`CollectionOK`). A crash leaves such a state without its call, which is why nothing
that must be kept depends on the call being finished.

With one suffix per content (`OneSuffix`; with two of them both statements are false, see
section 4) the module proves `DirectoryCorrect`, which also supposes that there was no crash
(`DirectoryInv`), and `CollectionCorrect`. Sums of sizes are folds, so they are
treated as cardinalities: the bytes of a file are that many units (`Units`), and the sum of a
table is the number of its units (`FoldIsUnits`). Then the bytes a collection counts down are
those of its table (`BytesInv`), and as removals follow the order of last use and stop at the target
(`RemovalsInOrder`), what is left above the target could not be removed: it is kept, or empty, and
weighs nothing.

`Files_proofs` treats the rest of `MCFiles`.

* `Board`, any sessions, tasks and faults: `BoardIdsCorrect`, `BoardLossCorrect`, from
  `BoardCorrect`: ids stay within the tasks added so far (`WithinAdded`), and a session's copy
  accounts for each task it began with, which it has or has removed (`Accounted`).
* `MediaEvidence`, any terms and media: `EvidenceGrows`, an action property, from the merge
  of one more medium into each part (`MoreMedia`, `RelationshipGrows`).
* `VideoPlan`, any duration and policy with a gap of at least a millisecond: `FramesCorrect`. Frames
  are rounded quotients; the distance of two of them is bounded through `RoundedFacts` and by cancelling
  the divisor. The quotients are exact here and floats in the code. For up to three
  frames the divisor is 2, 3 or 4; for more, a quotient that is a hair away from a half may be rounded
  the other way in the code, which moves a frame by a millisecond.
* `Clusters`, any hashes and threshold: `ClustersCorrect`. The forest is described by two functions that
  path halving does not change: the root of each index and the number of indices above it
  (`Describes`), which is also the measure that shows `find` to end (`FindFacts`). A join puts one tree below
  another (`JoinFacts`), and what is invariant is that roots agree exactly where the pairs compared so
  far connect (`Agrees`). `GroupsFacts` says that the groups divide the indices by root.
* `Scraping`, any tweets, and a scrape that may break off anywhere: `RankingsCorrect`. Each account is the
  sum and the number of its user's posts, and accounts stand in the order of their first posts
  (`Collected`); insertion keeps the ranked accounts a permutation in which an earlier one has a higher
  average or the same and came first (`Orders`). Averages are compared by multiplying out, which is
  transitive because the numbers of posts are positive (`AveragesTransitive`).

Induction over data. The library's induction rules cannot be used here, as no installed prover
instantiates their operator parameters. Where a recursive function or the length of a list calls for
it, the proofs go by a least counterexample instead: `LeastNumber`, from the well-foundedness of `<` on
naturals, gives the least argument at which the claim fails, and the step below it refutes that. A
recursive function is unfolded from its defining CHOOSE in the same way: least length for which there is
no function that satisfies the equation.

Only model-checked: the five liveness properties (`LeaseReturned`, `EverythingSettles`,
`PendingIsReleased`, `CapturedIsDelivered`, `EverybodyConnects`), because fairness and ENABLED are out of the
prover's reach; the refinements are proved without fairness. `StartsWithinMax` is checked by TLC only: its proof
would need the row invariant of `JobQueue_proofs` inside the transactions of `CaptureWorker`. The claim that
the run `media_truncated` refutes, and `CapturedIsKept` with overlapping handlers, are not theorems, as they
are false. All other properties of the runs are stated by a theorem.

## 6. Not modelled, and what is left

* Payload parsing (`dom_parser.py`, domain models), scoring, text processing, translation and
  draft generation: stateless conversions, mostly arithmetic on floats and string templates,
  with no property that more than one step could violate.
* The scripts `analysis.py`, `summarizer.py`, `call_api.py` and `scripts/`: sequences of calls to
  external models and services, and a generator of a document.
* Configuration and health routes: constants and a read-only probe. The limits are
  constants of the modules.
* The bandit's random choice and the weekly report, which only read the learning tables.
* Heartbeats, cancellation and memory admission are described in
  `docs/IMPLEMENTATION_SPECIFICATION.md` section 10 but are not in the code.

What is left to do: ages in `JobTable`, to state how long a retry waits behind live captures; a
backend in `Outbox` that refuses some posts for good.
