----------------------------- MODULE MediaRecords -----------------------------
(***************************************************************************)
(* MediaLifecycleRepository (xnative/db/repositories.py): the tables       *)
(* local_media_objects, local_media_references and remote_media_snapshots, *)
(* and the audit rows that every call writes beside them.  The calls of    *)
(* one UnitOfWork are committed or rolled back together, and SQLite lets   *)
(* one unit of work write at a time.                                       *)
(***************************************************************************)
EXTENDS Integers, FiniteSets

CONSTANTS
    Contents,   \* exact_sha256
    RefIds,     \* reference_id
    NoRef,      \* an upsert without a reference
    Snapshots,  \* snapshot ids: a url, a reason and an instant
    Columns,    \* the columns of an object that an upsert may leave out
    MaxCalls    \* bound: calls of a bounded run

ASSUME MediaRecordsAssumption ==
    /\ IsFiniteSet(RefIds)
    /\ NoRef \notin RefIds
    /\ MaxCalls \in Nat

VARIABLES
    db,      \* the committed tables
    work,    \* the tables as the open unit of work sees them
    active,  \* a unit of work is open
    calls

vars == <<db, work, active, calls>>

References == Contents \X RefIds

ReferenceEvents == {"added", "duplicate", "released", "release_missing"}

\* objects, references and snapshots are the rows there are; known holds the
\* columns of an object that have a value; audit and recorded count the rows of
\* the audit log, those about references and "media.remote_snapshot.recorded".
Empty ==
    [objects    |-> {},
     known      |-> [c \in Contents |-> {}],
     count      |-> [c \in Contents |-> 0],
     references |-> {},
     snapshots  |-> {},
     audit      |-> [e \in ReferenceEvents |-> [x \in References |-> 0]],
     recorded   |-> [s \in Snapshots |-> 0]]

Init ==
    /\ db = Empty
    /\ work = Empty
    /\ active = FALSE
    /\ calls = 0

-----------------------------------------------------------------------------
(* What the calls do to the tables.                                        *)

RefsOf(t, c) == {r \in RefIds : <<c, r>> \in t.references}

\* Mutant: the count is adjusted by the caller's reference instead of counted.
SyncByOne(t, c) == [t EXCEPT !.count[c] = @ + 1]

\* _sync_reference_count changes no row when there is no object.
Sync(t, c) ==
    IF c \in t.objects
    THEN [t EXCEPT !.count[c] = Cardinality(RefsOf(t, c))]
    ELSE t

Log(t, event, x) == [t EXCEPT !.audit[event][x] = @ + 1]

\* INSERT ... ON CONFLICT: a column that is left out keeps its value.
Merge(t, c, columns) ==
    [t EXCEPT !.objects = @ \cup {c}, !.known[c] = @ \cup columns]

\* Mutant: the audit row does not tell a new reference from a known one.
AddReferenceLogged(t, x) ==
    Log([t EXCEPT !.references = @ \cup {x}], "added", x)

AddReference(t, x) ==
    IF x \in t.references
    THEN Log(t, "duplicate", x)
    ELSE Log([t EXCEPT !.references = @ \cup {x}], "added", x)

UpsertLocalObject(t, c, columns, r) ==
    LET merged == Merge(t, c, columns)
    IN Sync(IF r = NoRef THEN merged ELSE AddReference(merged, <<c, r>>), c)

ReleaseReference(t, c, r) ==
    IF <<c, r>> \in t.references
    THEN Sync(Log([t EXCEPT !.references = @ \ {<<c, r>>}], "released", <<c, r>>), c)
    ELSE Sync(Log(t, "release_missing", <<c, r>>), c)

\* A known snapshot is only audited, as a duplicate.
RecordRemoteSnapshot(t, s) ==
    IF s \in t.snapshots
    THEN t
    ELSE [t EXCEPT !.snapshots = @ \cup {s}, !.recorded = [t.recorded EXCEPT ![s] = @ + 1]]

-----------------------------------------------------------------------------

\* UnitOfWork.__enter__
Begin ==
    /\ ~active
    /\ active' = TRUE
    /\ work' = db
    /\ UNCHANGED <<db, calls>>

Call(t) ==
    /\ active
    /\ calls < MaxCalls
    /\ work' = t
    /\ calls' = calls + 1
    /\ UNCHANGED <<db, active>>

Upsert(c, columns, r) == Call(UpsertLocalObject(work, c, columns, r))

Release(c, r) == Call(ReleaseReference(work, c, r))

RecordSnapshot(s) == Call(RecordRemoteSnapshot(work, s))

\* UnitOfWork.__exit__
Commit ==
    /\ active
    /\ db' = work
    /\ active' = FALSE
    /\ UNCHANGED <<work, calls>>

\* An exception in the unit of work, or the end of its process.
Rollback ==
    /\ active
    /\ work' = db
    /\ active' = FALSE
    /\ UNCHANGED <<db, calls>>

Next ==
    \/ Begin
    \/ \E c \in Contents, columns \in SUBSET Columns, r \in RefIds \cup {NoRef} :
            Upsert(c, columns, r)
    \/ \E c \in Contents, r \in RefIds : Release(c, r)
    \/ \E s \in Snapshots : RecordSnapshot(s)
    \/ Commit
    \/ Rollback

Spec == Init /\ [][Next]_vars

-----------------------------------------------------------------------------
(* Properties.                                                             *)

IsTable(t) ==
    t \in [objects    : SUBSET Contents,
           known      : [Contents -> SUBSET Columns],
           count      : [Contents -> Nat],
           references : SUBSET References,
           snapshots  : SUBSET Snapshots,
           audit      : [ReferenceEvents -> [References -> Nat]],
           recorded   : [Snapshots -> Nat]]

\* The tables are well-formed, and a closed unit of work leaves nothing behind
\* that is not committed.
TypeOK ==
    /\ IsTable(db) /\ IsTable(work)
    /\ active \in BOOLEAN
    /\ ~active => work = db
    /\ calls \in 0 .. MaxCalls

CountsAgree(t) ==
    /\ \A x \in t.references : x[1] \in t.objects
    /\ \A c \in Contents : t.count[c] = Cardinality(RefsOf(t, c))

\* The count kept in an object is the number of its references, and every
\* reference has its object, in each state a unit of work shows or commits.
ReferenceCountAgrees == CountsAgree(db) /\ CountsAgree(work)

Explained(t) ==
    \A x \in References :
        t.audit["added"][x] =
            t.audit["released"][x] + (IF x \in t.references THEN 1 ELSE 0)

RecordedOnce(t) ==
    \A s \in Snapshots : t.recorded[s] = IF s \in t.snapshots THEN 1 ELSE 0

\* The audit log tells what the tables hold: a reference was added once more
\* than it was released if it is there and as often otherwise, whatever was
\* repeated or released in vain, and a snapshot was recorded once.
AuditExplainsTables ==
    /\ Explained(db) /\ RecordedOnce(db)
    /\ Explained(work) /\ RecordedOnce(work)

=============================================================================
