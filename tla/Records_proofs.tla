---------------------------- MODULE Records_proofs ----------------------------
(***************************************************************************)
(* Proofs about the tables that several processes write, for any           *)
(* processes, contents, keys and bounds: the media tables, the derived     *)
(* tables, the token bucket, the learning tables.                          *)
(***************************************************************************)
EXTENDS MediaRecords, DerivedTables, TokenBucket, Learning,
        FiniteSetTheorems, SequenceTheorems, WellFoundedInduction, TLAPS

-----------------------------------------------------------------------------
(* The media tables (MediaRecords).                                        *)

\* What every call preserves in the tables it works on.
Sound(t) ==
    /\ IsTable(t)
    /\ \A x \in t.references : x[1] \in t.objects
    /\ \A c \in Contents : t.count[c] = Cardinality(RefsOf(t, c))
    /\ Explained(t)
    /\ RecordedOnce(t)

\* The inductive invariant.
MediaInv ==
    /\ Sound(db) /\ Sound(work)
    /\ active \in BOOLEAN
    /\ ~active => work = db
    /\ calls \in 0 .. MaxCalls

-----------------------------------------------------------------------------
(* What the operators keep.                                                *)

\* Sound but for the count of one content.
SoundBut(t, c) ==
    /\ IsTable(t)
    /\ \A x \in t.references : x[1] \in t.objects
    /\ \A d \in Contents \ {c} : t.count[d] = Cardinality(RefsOf(t, d))
    /\ c \notin t.objects => t.count[c] = Cardinality(RefsOf(t, c))
    /\ Explained(t)
    /\ RecordedOnce(t)

\* Counting the references of a content makes the tables sound again.
LEMMA SyncFacts ==
    ASSUME NEW t, NEW c \in Contents, SoundBut(t, c)
    PROVE  Sound(Sync(t, c))
  <1> DEFINE n == Cardinality(RefsOf(t, c))
  <1>1. n \in Nat
    <2>1. RefsOf(t, c) \subseteq RefIds
      BY DEF RefsOf
    <2> QED
      BY <2>1, MediaRecordsAssumption, FS_Subset, FS_CardinalityType
  <1> HIDE DEF n
  <1>2. CASE c \in t.objects
    <2> DEFINE u == [t EXCEPT !.count[c] = n]
    <2>1. Sync(t, c) = u
      BY <1>2 DEF Sync, n
    <2>2. IsTable(u)
      BY <1>1 DEF SoundBut, IsTable
    <2>3. /\ u.references = t.references /\ u.objects = t.objects
          /\ u.audit = t.audit /\ u.snapshots = t.snapshots
          /\ u.recorded = t.recorded
          /\ u.count[c] = n
          /\ \A d \in Contents \ {c} : u.count[d] = t.count[d]
      BY DEF SoundBut, IsTable
    <2> HIDE DEF u
    <2>4. \A d \in Contents : RefsOf(u, d) = RefsOf(t, d)
      BY <2>3 DEF RefsOf
    <2>5. \A d \in Contents : u.count[d] = Cardinality(RefsOf(u, d))
      BY <2>3, <2>4 DEF SoundBut, n
    <2> QED
      BY <2>1, <2>2, <2>3, <2>5 DEF SoundBut, Sound, Explained, RecordedOnce
  <1>3. CASE c \notin t.objects
    BY <1>3 DEF SoundBut, Sound, Sync
  <1> QED
    BY <1>2, <1>3

\* Merging the columns of an object keeps the tables sound.
LEMMA MergeFacts ==
    ASSUME NEW t, Sound(t), NEW c \in Contents, NEW columns \in SUBSET Columns
    PROVE  Sound(Merge(t, c, columns)) /\ c \in Merge(t, c, columns).objects
  <1> DEFINE u == Merge(t, c, columns)
  <1>1. IsTable(u)
    BY DEF Sound, IsTable, Merge
  <1>2. /\ u.references = t.references
        /\ u.objects = t.objects \cup {c}
        /\ u.count = t.count
        /\ u.audit = t.audit /\ u.snapshots = t.snapshots
        /\ u.recorded = t.recorded
    BY DEF Sound, IsTable, Merge
  <1> HIDE DEF u
  <1>3. \A d \in Contents : RefsOf(u, d) = RefsOf(t, d)
    BY <1>2 DEF RefsOf
  <1> QED
    BY <1>1, <1>2, <1>3 DEF Sound, Explained, RecordedOnce, u

WithRefs(t, refs) == [t EXCEPT !.references = refs]

\* A call that logs an event and changes the references of one content only.
LEMMA LogFacts ==
    ASSUME NEW t, IsTable(t), NEW event \in ReferenceEvents,
           NEW x \in References, NEW refs \in SUBSET References
    PROVE  LET u == Log(WithRefs(t, refs), event, x)
           IN /\ IsTable(u)
              /\ u.references = refs /\ u.objects = t.objects
              /\ u.count = t.count
              /\ u.snapshots = t.snapshots /\ u.recorded = t.recorded
              /\ u.audit[event][x] = t.audit[event][x] + 1
              /\ \A e \in ReferenceEvents, y \in References :
                    e # event \/ y # x => u.audit[e][y] = t.audit[e][y]
  <1> DEFINE row == [t.audit[event] EXCEPT ![x] = @ + 1]
             audit == [t.audit EXCEPT ![event] = row]
             u == Log(WithRefs(t, refs), event, x)
  <1>1. /\ row \in [References -> Nat]
        /\ row[x] = t.audit[event][x] + 1
        /\ \A y \in References : y # x => row[y] = t.audit[event][y]
    BY DEF IsTable
  <1> HIDE DEF row
  <1>2. /\ audit \in [ReferenceEvents -> [References -> Nat]]
        /\ audit[event] = row
        /\ \A e \in ReferenceEvents : e # event => audit[e] = t.audit[e]
    BY <1>1 DEF IsTable
  <1>3. u = [t EXCEPT !.references = refs, !.audit = audit]
    BY DEF Log, WithRefs, row, IsTable
  <1> HIDE DEF audit
  <1>4. /\ IsTable(u)
        /\ u.references = refs /\ u.objects = t.objects
        /\ u.count = t.count
        /\ u.snapshots = t.snapshots /\ u.recorded = t.recorded
        /\ u.audit = audit
    BY <1>2, <1>3 DEF IsTable
  <1> QED
    BY <1>1, <1>2, <1>4

\* Adding a reference leaves only the count of its content behind.
LEMMA AddReferenceFacts ==
    ASSUME NEW t, Sound(t), NEW c \in t.objects, c \in Contents, NEW r \in RefIds
    PROVE  SoundBut(AddReference(t, <<c, r>>), c)
  <1> DEFINE x == <<c, r>>
             u == AddReference(t, x)
  <1>1. x \in References /\ IsTable(t) /\ t.references \subseteq References
    BY DEF Sound, IsTable, References
  <1>2. t = [t EXCEPT !.references = t.references]
    BY DEF Sound, IsTable
  <1>3. CASE x \in t.references
    <2>1. u = Log(WithRefs(t, t.references), "duplicate", x)
      BY <1>2, <1>3 DEF AddReference, WithRefs
    <2>2. /\ IsTable(u)
          /\ u.references = t.references /\ u.objects = t.objects
          /\ u.count = t.count
          /\ u.snapshots = t.snapshots /\ u.recorded = t.recorded
          /\ \A y \in References : /\ u.audit["added"][y] = t.audit["added"][y]
                                   /\ u.audit["released"][y] = t.audit["released"][y]
      <3>1. "duplicate" \in ReferenceEvents
        BY DEF ReferenceEvents
      <3> HIDE DEF u, x
      <3> QED
        BY <1>1, <2>1, <3>1, LogFacts DEF ReferenceEvents
    <2> HIDE DEF u
    <2>3. \A d \in Contents : RefsOf(u, d) = RefsOf(t, d)
      BY <2>2 DEF RefsOf
    <2>4. Explained(u)
      BY <2>2 DEF Sound, Explained
    <2>5. SoundBut(u, c)
      BY <2>2, <2>3, <2>4 DEF Sound, SoundBut, RecordedOnce
    <2> QED
      BY <2>5 DEF u
  <1>4. CASE x \notin t.references
    <2>1. u = Log(WithRefs(t, t.references \cup {x}), "added", x)
      BY <1>4 DEF AddReference, WithRefs
    <2>2. /\ IsTable(u)
          /\ u.references = t.references \cup {x} /\ u.objects = t.objects
          /\ u.count = t.count
          /\ u.snapshots = t.snapshots /\ u.recorded = t.recorded
          /\ u.audit["added"][x] = t.audit["added"][x] + 1
          /\ \A y \in References :
                /\ y # x => u.audit["added"][y] = t.audit["added"][y]
                /\ u.audit["released"][y] = t.audit["released"][y]
      <3>1. "added" \in ReferenceEvents /\ t.references \cup {x} \in SUBSET References
        BY <1>1 DEF ReferenceEvents
      <3> HIDE DEF u, x
      <3> QED
        BY <1>1, <2>1, <3>1, LogFacts DEF ReferenceEvents
    <2> HIDE DEF u
    <2>3. \A d \in Contents \ {c} : RefsOf(u, d) = RefsOf(t, d)
      BY <2>2 DEF RefsOf
    <2>4. Explained(u)
      <3>1. \A y \in References :
              t.audit["added"][y] \in Nat /\ t.audit["released"][y] \in Nat
        BY <1>1 DEF IsTable, ReferenceEvents
      <3> HIDE DEF x
      <3> QED
        BY <1>1, <1>4, <2>2, <3>1 DEF Sound, Explained
    <2>5. \A y \in u.references : y[1] \in u.objects
      BY <2>2 DEF Sound
    <2>6. SoundBut(u, c)
      BY <2>2, <2>3, <2>4, <2>5 DEF Sound, SoundBut, RecordedOnce
    <2> QED
      BY <2>6 DEF u
  <1> QED
    BY <1>3, <1>4

\* upsert_local_object keeps the tables sound.
LEMMA UpsertFacts ==
    ASSUME NEW t, Sound(t), NEW c \in Contents, NEW columns \in SUBSET Columns,
           NEW r \in RefIds \cup {NoRef}
    PROVE  Sound(UpsertLocalObject(t, c, columns, r))
  <1> DEFINE m == Merge(t, c, columns)
  <1>1. Sound(m) /\ c \in m.objects
    BY MergeFacts
  <1> HIDE DEF m
  <1>2. CASE r = NoRef
    <2>1. UpsertLocalObject(t, c, columns, r) = Sync(m, c)
      BY <1>2 DEF UpsertLocalObject, m
    <2>2. SoundBut(m, c)
      BY <1>1 DEF Sound, SoundBut
    <2> QED
      BY <2>1, <2>2, SyncFacts
  <1>3. CASE r # NoRef
    <2>1. UpsertLocalObject(t, c, columns, r) = Sync(AddReference(m, <<c, r>>), c)
      BY <1>3 DEF UpsertLocalObject, m
    <2>2. SoundBut(AddReference(m, <<c, r>>), c)
      BY <1>1, <1>3, AddReferenceFacts
    <2> QED
      BY <2>1, <2>2, SyncFacts
  <1> QED
    BY <1>2, <1>3

\* release_reference keeps the tables sound, whether or not there is a reference.
LEMMA ReleaseFacts ==
    ASSUME NEW t, Sound(t), NEW c \in Contents, NEW r \in RefIds
    PROVE  Sound(ReleaseReference(t, c, r))
  <1> DEFINE x == <<c, r>>
  <1>1. x \in References /\ IsTable(t) /\ t.references \subseteq References
    BY DEF Sound, IsTable, References
  <1>2. t = [t EXCEPT !.references = t.references]
    BY DEF Sound, IsTable
  <1>3. CASE x \in t.references
    <2> DEFINE u == Log(WithRefs(t, t.references \ {x}), "released", x)
    <2>1. ReleaseReference(t, c, r) = Sync(u, c)
      BY <1>3 DEF ReleaseReference, WithRefs
    <2>2. /\ IsTable(u)
          /\ u.references = t.references \ {x} /\ u.objects = t.objects
          /\ u.count = t.count
          /\ u.snapshots = t.snapshots /\ u.recorded = t.recorded
          /\ u.audit["released"][x] = t.audit["released"][x] + 1
          /\ \A y \in References :
                /\ y # x => u.audit["released"][y] = t.audit["released"][y]
                /\ u.audit["added"][y] = t.audit["added"][y]
      <3>1. "released" \in ReferenceEvents /\ t.references \ {x} \in SUBSET References
        BY <1>1 DEF ReferenceEvents
      <3> HIDE DEF x
      <3> QED
        BY <1>1, <3>1, LogFacts DEF ReferenceEvents
    <2> HIDE DEF u
    <2>3. \A d \in Contents \ {c} : RefsOf(u, d) = RefsOf(t, d)
      BY <2>2 DEF RefsOf
    <2>4. Explained(u)
      <3>1. \A y \in References :
              t.audit["added"][y] \in Nat /\ t.audit["released"][y] \in Nat
        BY <1>1 DEF IsTable, ReferenceEvents
      <3> HIDE DEF x
      <3> QED
        BY <1>1, <1>3, <2>2, <3>1 DEF Sound, Explained
    <2>5. c \in t.objects
      BY <1>3 DEF Sound
    <2>6. SoundBut(u, c)
      BY <2>2, <2>3, <2>4, <2>5 DEF Sound, SoundBut, RecordedOnce
    <2> QED
      BY <2>1, <2>6, SyncFacts
  <1>4. CASE x \notin t.references
    <2> DEFINE u == Log(WithRefs(t, t.references), "release_missing", x)
    <2>1. ReleaseReference(t, c, r) = Sync(u, c)
      BY <1>2, <1>4 DEF ReleaseReference, WithRefs
    <2>2. /\ IsTable(u)
          /\ u.references = t.references /\ u.objects = t.objects
          /\ u.count = t.count
          /\ u.snapshots = t.snapshots /\ u.recorded = t.recorded
          /\ \A y \in References : /\ u.audit["added"][y] = t.audit["added"][y]
                                   /\ u.audit["released"][y] = t.audit["released"][y]
      <3>1. "release_missing" \in ReferenceEvents
        BY DEF ReferenceEvents
      <3> HIDE DEF x
      <3> QED
        BY <1>1, <3>1, LogFacts DEF ReferenceEvents
    <2> HIDE DEF u
    <2>3. \A d \in Contents : RefsOf(u, d) = RefsOf(t, d)
      BY <2>2 DEF RefsOf
    <2>4. Explained(u)
      BY <2>2 DEF Sound, Explained
    <2>5. SoundBut(u, c)
      BY <2>2, <2>3, <2>4 DEF Sound, SoundBut, RecordedOnce
    <2> QED
      BY <2>1, <2>5, SyncFacts
  <1> QED
    BY <1>3, <1>4

\* record_remote_snapshot keeps the tables sound.
LEMMA SnapshotFacts ==
    ASSUME NEW t, Sound(t), NEW s \in Snapshots
    PROVE  Sound(RecordRemoteSnapshot(t, s))
  <1>1. CASE s \in t.snapshots
    BY <1>1 DEF RecordRemoteSnapshot
  <1>2. CASE s \notin t.snapshots
    <2> DEFINE recorded == [t.recorded EXCEPT ![s] = @ + 1]
               u == [t EXCEPT !.snapshots = @ \cup {s}, !.recorded = recorded]
    <2>1. RecordRemoteSnapshot(t, s) = u
      BY <1>2 DEF RecordRemoteSnapshot
    <2>2. /\ t.recorded \in [Snapshots -> Nat]
          /\ recorded \in [Snapshots -> Nat]
          /\ recorded[s] = t.recorded[s] + 1
          /\ \A z \in Snapshots \ {s} : recorded[z] = t.recorded[z]
      BY DEF Sound, IsTable
    <2> HIDE DEF recorded
    <2>3. /\ IsTable(u)
          /\ u.references = t.references /\ u.objects = t.objects
          /\ u.count = t.count /\ u.audit = t.audit
          /\ u.snapshots = t.snapshots \cup {s}
          /\ u.recorded = recorded
      BY <2>2 DEF Sound, IsTable
    <2> HIDE DEF u
    <2>4. \A d \in Contents : RefsOf(u, d) = RefsOf(t, d)
      BY <2>3 DEF RefsOf
    <2>5. RecordedOnce(u)
      BY <1>2, <2>2, <2>3 DEF Sound, RecordedOnce
    <2> QED
      BY <2>1, <2>3, <2>4, <2>5 DEF Sound, Explained
  <1> QED
    BY <1>1, <1>2

-----------------------------------------------------------------------------
(* The inductive invariant.                                                *)

\* The empty database is consistent.
LEMMA MediaInitInv == Init => MediaInv
  <1> SUFFICES ASSUME Init PROVE MediaInv
    OBVIOUS
  <1>1. IsTable(Empty)
    BY DEF Empty, IsTable
  <1>2. Explained(Empty) /\ RecordedOnce(Empty)
    BY DEF Empty, Explained, RecordedOnce, ReferenceEvents
  <1>3. \A c \in Contents : RefsOf(Empty, c) = {}
    BY DEF RefsOf, Empty
  <1>4. /\ Empty.references = {}
        /\ \A c \in Contents : Empty.count[c] = 0
    BY DEF Empty
  <1>5. Cardinality({}) = 0
    BY FS_EmptySet
  <1>6. \A c \in Contents : Empty.count[c] = Cardinality(RefsOf(Empty, c))
    BY <1>3, <1>4, <1>5, Zenon
  <1>7. Sound(Empty)
    BY <1>1, <1>2, <1>4, <1>6, Zenon DEF Sound
  <1>8. Sound(db) /\ Sound(work)
    BY <1>7 DEF Init, Sound, IsTable, Explained, RecordedOnce, RefsOf
  <1>9. active \in BOOLEAN /\ work = db
    BY DEF Init
  <1>10. calls \in 0 .. MaxCalls
    BY MediaRecordsAssumption DEF Init, MediaRecordsAssumption
  <1> QED
    BY <1>8, <1>9, <1>10 DEF MediaInv

\* Every step keeps the database and the open unit of work consistent.
LEMMA MediaNextInv == MediaInv /\ [Next]_vars => MediaInv'
  <1> SUFFICES ASSUME MediaInv, [Next]_vars PROVE MediaInv'
    OBVIOUS
  <1>1. ASSUME NEW t, Sound(t), Call(t) PROVE MediaInv'
    BY <1>1, MediaRecordsAssumption DEF Call, MediaInv, Sound, IsTable, Explained, RecordedOnce, RefsOf
  <1>2. CASE Begin
    BY <1>2 DEF Begin, MediaInv, Sound, IsTable, Explained, RecordedOnce, RefsOf
  <1>3. ASSUME NEW c \in Contents, NEW columns \in SUBSET Columns,
               NEW r \in RefIds \cup {NoRef}, Upsert(c, columns, r)
        PROVE  MediaInv'
    BY <1>1, <1>3, UpsertFacts DEF Upsert, MediaInv
  <1>4. ASSUME NEW c \in Contents, NEW r \in RefIds, Release(c, r)
        PROVE  MediaInv'
    BY <1>1, <1>4, ReleaseFacts DEF Release, MediaInv
  <1>5. ASSUME NEW s \in Snapshots, RecordSnapshot(s) PROVE MediaInv'
    BY <1>1, <1>5, SnapshotFacts DEF RecordSnapshot, MediaInv
  <1>6. CASE Commit
    <2>1. db' = work /\ work' = work /\ active' = FALSE /\ calls' = calls
      BY <1>6 DEF Commit
    <2>2. Sound(db)' /\ Sound(work)'
      BY <2>1 DEF MediaInv, Sound, IsTable, Explained, RecordedOnce, RefsOf
    <2> QED
      BY <2>1, <2>2 DEF MediaInv
  <1>7. CASE Rollback
    <2>1. db' = db /\ work' = db /\ active' = FALSE /\ calls' = calls
      BY <1>7 DEF Rollback
    <2>2. Sound(db)' /\ Sound(work)'
      BY <2>1 DEF MediaInv, Sound, IsTable, Explained, RecordedOnce, RefsOf
    <2> QED
      BY <2>1, <2>2 DEF MediaInv
  <1>8. CASE UNCHANGED vars
    BY <1>8 DEF vars, MediaInv, Sound, IsTable, Explained, RecordedOnce, RefsOf
  <1> QED
    BY <1>2, <1>3, <1>4, <1>5, <1>6, <1>7, <1>8 DEF Next

\* The committed tables and those of the open unit of work are always sound.
THEOREM MediaInvCorrect == Spec => []MediaInv
  BY MediaInitInv, MediaNextInv, PTL DEF Spec

\* The tables are well-formed, and an abandoned unit of work leaves nothing.
THEOREM TypeCorrect == Spec => []TypeOK
  <1>1. MediaInv => TypeOK
    BY DEF MediaInv, TypeOK, Sound
  <1> QED
    BY <1>1, MediaInvCorrect, PTL

\* The count in an object is the number of its references, whatever callers add,
\* repeat, release or release in vain, and whether they commit or not.
THEOREM CountCorrect == Spec => []ReferenceCountAgrees
  <1>1. MediaInv => ReferenceCountAgrees
    BY DEF MediaInv, ReferenceCountAgrees, CountsAgree, Sound
  <1> QED
    BY <1>1, MediaInvCorrect, PTL

\* The audit rows tell what the tables hold.
THEOREM AuditCorrect == Spec => []AuditExplainsTables
  <1>1. MediaInv => AuditExplainsTables
    BY DEF MediaInv, AuditExplainsTables, Sound
  <1> QED
    BY <1>1, MediaInvCorrect, PTL

-----------------------------------------------------------------------------
(* The derived tables (DerivedTables).                                     *)

\* What a unit of work relies on: a value it computes from its own reading is of
\* the source it sees, and as long as its snapshot is the last commit, neither
\* its cursor nor the one it has read is behind, or it says that it carries one.
InStep(u) ==
    /\ Fresh(unit[u].view)
    /\ unit[u].own => copy[u].source = unit[u].view.source
    /\ unit[u].phase = "writing" => unit[u].latest
    /\ unit[u].latest =>
        /\ unit[u].view.cursor >= stored.cursor \/ unit[u].view.carried
        /\ unit[u].own => copy[u].cursor >= stored.cursor \/ unit[u].view.carried

OneWriter ==
    \A u, v \in Units :
        unit[u].phase = "writing" /\ unit[v].phase = "writing" => u = v

\* The inductive invariant.
DerivedInv ==
    /\ DerivedTypeOK
    /\ Fresh(stored)
    /\ OneWriter
    /\ \A u \in Units : InStep(u)

-----------------------------------------------------------------------------

\* The empty tables are tables.
LEMMA NothingType == Nothing \in Tables /\ Fresh(Nothing)
  BY DEF Nothing, NoEntry, Tables, Fresh

Row == [value : Int, served : BOOLEAN, carried : BOOLEAN]

\* What the writes of the callers make of the tables they see.
LEMMA SourceChanged ==
    ASSUME NEW t \in Tables
    PROVE  LET new == [t EXCEPT !.source = @ + 1, !.entry = Invalidate(@)]
           IN /\ new \in Tables /\ Fresh(new)
              /\ new.cursor = t.cursor /\ new.carried = t.carried
  <1> DEFINE new == [t EXCEPT !.source = @ + 1, !.entry = Invalidate(@)]
             entries == Invalidate(t.entry)
  <1>1. entries \in [Versions -> Row] /\ \A v \in Versions : ~entries[v].served
    BY DEF Tables, Row, Invalidate
  <1>2. /\ new = [t EXCEPT !.source = t.source + 1, !.entry = entries]
        /\ new.entry = entries /\ t.source + 1 \in Nat
    BY DEF Tables
  <1> HIDE DEF entries
  <1>3. new \in Tables /\ new.entry = entries
    <2>1. [t EXCEPT !.source = t.source + 1, !.entry = entries] \in Tables
      BY <1>1, <1>2 DEF Tables, Row
    <2> QED
      BY <1>2, <2>1
  <1>4. new.cursor = t.cursor /\ new.carried = t.carried
    BY DEF Tables
  <1>5. Fresh(new)
    BY <1>1, <1>3 DEF Fresh
  <1> QED
    BY <1>3, <1>4, <1>5

\* Moving the cursor gives tables with the same entries.
LEMMA CursorMoved ==
    ASSUME NEW t \in Tables, Fresh(t), NEW position \in Nat, NEW own \in BOOLEAN
    PROVE  LET new == [t EXCEPT !.cursor = position, !.carried = IF own THEN @ ELSE TRUE]
           IN /\ new \in Tables /\ Fresh(new)
              /\ new.source = t.source /\ new.cursor = position
              /\ t.carried \/ ~own => new.carried
  <1> DEFINE new == [t EXCEPT !.cursor = position, !.carried = IF own THEN @ ELSE TRUE]
  <1>1. new \in Tables /\ new.entry = t.entry /\ new.source = t.source
    BY DEF Tables
  <1>2. new.cursor = position /\ (t.carried \/ ~own => new.carried)
    BY DEF Tables
  <1>3. Fresh(new)
    BY <1>1 DEF Fresh
  <1> QED
    BY <1>1, <1>2, <1>3

\* A row that is put is a row.
LEMMA RowPut ==
    ASSUME NEW value \in Int, NEW own \in BOOLEAN
    PROVE  LET row == [value |-> value, served |-> TRUE, carried |-> ~own]
           IN row \in Row /\ row.value = value /\ (row.carried <=> ~own)
  BY DEF Row

\* A fresh entry, or one marked as carried over, leaves the tables fresh.
LEMMA EntryWritten ==
    ASSUME NEW t \in Tables, Fresh(t), NEW v \in Versions, NEW row \in Row,
           row.served => row.carried \/ row.value = t.source
    PROVE  LET new == [t EXCEPT !.entry[v] = row]
           IN /\ new \in Tables /\ Fresh(new)
              /\ new.source = t.source /\ new.cursor = t.cursor /\ new.carried = t.carried
  <1> DEFINE new == [t EXCEPT !.entry[v] = row]
             entries == [t.entry EXCEPT ![v] = row]
  <1>1. entries \in [Versions -> Row]
    BY DEF Tables, Row
  <1>2. /\ new.entry = entries /\ new.source = t.source
        /\ new.cursor = t.cursor /\ new.carried = t.carried
    BY DEF Tables
  <1>3. new = [t EXCEPT !.entry = entries]
    BY DEF Tables
  <1>4. \A w \in Versions : entries[w] = IF w = v THEN row ELSE t.entry[w]
    BY DEF Tables
  <1> HIDE DEF entries
  <1>5. new \in Tables
    BY <1>1, <1>3 DEF Tables, Row
  <1>6. Fresh(new)
    BY <1>2, <1>4 DEF Fresh
  <1> QED
    BY <1>2, <1>5, <1>6

\* Serving fewer entries keeps tables fresh.
LEMMA LessServed ==
    ASSUME NEW t \in Tables, Fresh(t), NEW v \in Versions, NEW served \in BOOLEAN,
           served => t.entry[v].served
    PROVE  LET new == [t EXCEPT !.entry[v].served = served]
           IN /\ new \in Tables /\ Fresh(new)
              /\ new.source = t.source /\ new.cursor = t.cursor /\ new.carried = t.carried
  <1> DEFINE row == [t.entry[v] EXCEPT !.served = served]
  <1>1. [t EXCEPT !.entry[v].served = served] = [t EXCEPT !.entry[v] = row]
    BY DEF Tables
  <1>2. t.entry[v] \in Row
    BY DEF Tables, Row
  <1>3. /\ row \in Row
        /\ row.served = served /\ row.value = t.entry[v].value
        /\ row.carried = t.entry[v].carried
    BY <1>2 DEF Row
  <1>4. row.served => row.carried \/ row.value = t.source
    BY <1>3 DEF Fresh
  <1> HIDE DEF row
  <1> QED
    BY <1>1, <1>3, <1>4, EntryWritten

\* The initial state satisfies the invariant.
LEMMA DerivedInitInv == DerivedInit => DerivedInv
  BY DEF DerivedInit, DerivedInv, DerivedTypeOK, Tables, Nothing, NoEntry, Closed,
         Fresh, OneWriter, InStep

\* A unit of work begins with a snapshot that no one has overtaken.
LEMMA BeginStep ==
    ASSUME DerivedInv, NEW u \in Units, BeginRead(u) \/ BeginWriting(u)
    PROVE  DerivedInv'
  <1>1. PICK phase \in {"reading", "writing"} :
          /\ phase = "writing" => LockFree
          /\ unit' = [unit EXCEPT ![u] = [phase |-> phase, view |-> Snapshot,
                                          latest |-> TRUE, own |-> FALSE]]
          /\ stored' = stored /\ copy' = copy
    BY DEF BeginRead, BeginWriting, Closed
  <1>2. /\ Snapshot \in Tables /\ Fresh(Snapshot)
        /\ Snapshot.cursor = stored.cursor
    BY DEF DerivedInv, DerivedTypeOK, Tables, Snapshot, Fresh
  <1>3. DerivedTypeOK'
    BY <1>1, <1>2 DEF DerivedInv, DerivedTypeOK
  <1>4. OneWriter'
    BY <1>1 DEF DerivedInv, DerivedTypeOK, OneWriter, LockFree
  <1>5. stored.cursor \in Nat
    BY DEF DerivedInv, DerivedTypeOK, Tables
  <1>6. \A v \in Units : InStep(v)'
    BY <1>1, <1>2, <1>5 DEF DerivedInv, DerivedTypeOK, InStep
  <1> QED
    BY <1>1, <1>3, <1>4, <1>6 DEF DerivedInv

\* A reader may write only while its snapshot is the last commit.
LEMMA UpgradeStep ==
    ASSUME DerivedInv, NEW u \in Units, Upgrade(u)
    PROVE  DerivedInv'
  <1>1. DerivedTypeOK'
    BY DEF DerivedInv, DerivedTypeOK, Upgrade
  <1>2. OneWriter'
    BY DEF DerivedInv, DerivedTypeOK, OneWriter, Upgrade, MayUpgrade, LockFree
  <1>3. \A v \in Units : InStep(v)'
    BY DEF DerivedInv, DerivedTypeOK, InStep, Upgrade, MayUpgrade
  <1> QED
    BY <1>1, <1>2, <1>3 DEF DerivedInv, Upgrade

\* The commit publishes a fresh view, and every other snapshot is overtaken.
LEMMA FinishStep ==
    ASSUME DerivedInv, NEW u \in Units, Finish(u)
    PROVE  DerivedInv'
  <1>1. DerivedTypeOK'
    BY NothingType DEF DerivedInv, DerivedTypeOK, Finish, Closed
  <1>2. Fresh(stored)'
    BY DEF DerivedInv, InStep, Finish, Fresh
  <1>3. OneWriter'
    BY DEF DerivedInv, DerivedTypeOK, OneWriter, Finish, Closed
  <1>4. \A v \in Units \ {u} : unit[v].phase # "writing"
    BY DEF DerivedInv, OneWriter, Finish
  <1>5. ASSUME NEW v \in Units PROVE InStep(v)'
    <2>1. CASE v = u
      BY <2>1 DEF DerivedInv, DerivedTypeOK, InStep, Finish, Closed, Nothing, NoEntry, Fresh
    <2>2. CASE v # u
      BY <1>4, <2>2 DEF DerivedInv, DerivedTypeOK, InStep, Finish
    <2> QED
      BY <2>1, <2>2
  <1> QED
    BY <1>1, <1>2, <1>3, <1>5 DEF DerivedInv

\* A unit that gives up leaves the others as they are.
LEMMA GiveUpStep ==
    ASSUME DerivedInv, NEW u \in Units, GiveUp(u)
    PROVE  DerivedInv'
  <1>1. DerivedTypeOK'
    BY NothingType DEF DerivedInv, DerivedTypeOK, GiveUp, Closed
  <1>2. OneWriter'
    BY DEF DerivedInv, DerivedTypeOK, OneWriter, GiveUp, Closed
  <1>3. \A v \in Units : InStep(v)'
    BY DEF DerivedInv, DerivedTypeOK, InStep, GiveUp, Closed, Nothing, NoEntry, Fresh
  <1> QED
    BY <1>1, <1>2, <1>3 DEF DerivedInv, GiveUp

\* A read makes the copy one of the unit's own view.
LEMMA ReadStep ==
    ASSUME DerivedInv, NEW u \in Units, Read(u)
    PROVE  DerivedInv'
  <1>1. DerivedTypeOK'
    <2>1. unit[u].view.source \in Nat /\ unit[u].view.cursor \in Nat
      BY DEF DerivedInv, DerivedTypeOK, Tables
    <2>2. copy' \in [Units -> [source : Nat, cursor : Nat]]
      BY <2>1 DEF DerivedInv, DerivedTypeOK, Read
    <2> QED
      BY ZenonT(60), <2>2 DEF DerivedInv, DerivedTypeOK, Read
  <1>2. OneWriter'
    BY DEF DerivedInv, DerivedTypeOK, OneWriter, Read
  <1>3. \A v \in Units : InStep(v)'
    BY DEF DerivedInv, DerivedTypeOK, InStep, Read
  <1> QED
    BY <1>1, <1>2, <1>3 DEF DerivedInv, Read

\* What every write inside a unit of work comes down to: it keeps the position
\* in step, and the view fresh.
LEMMA WriteStep ==
    ASSUME DerivedInv, NEW u \in Units, NEW tables \in Tables, NEW mine \in BOOLEAN,
           unit[u].phase = "writing",
           unit' = [unit EXCEPT ![u].view = tables, ![u].own = mine],
           UNCHANGED <<stored, copy>>,
           Fresh(tables),
           mine => unit[u].own /\ tables.source = unit[u].view.source,
           unit[u].view.carried => tables.carried,
           \/ tables.cursor = unit[u].view.cursor
           \/ tables.carried
           \/ tables.cursor = copy[u].cursor + 1 /\ unit[u].own
    PROVE  DerivedInv'
  <1>1. DerivedTypeOK'
    BY ZenonT(60) DEF DerivedInv, DerivedTypeOK
  <1>2. OneWriter'
    BY DEF DerivedInv, DerivedTypeOK, OneWriter
  <1>3. stored.cursor \in Nat /\ copy[u].cursor \in Nat
    BY DEF DerivedInv, DerivedTypeOK, Tables
  <1>4. InStep(u)'
    <2>1. unit'[u] = [unit[u] EXCEPT !.view = tables, !.own = mine]
      BY DEF DerivedInv, DerivedTypeOK
    <2>2. /\ unit'[u].view = tables /\ unit'[u].own = mine
          /\ unit'[u].phase = unit[u].phase /\ unit'[u].latest = unit[u].latest
      BY <2>1 DEF DerivedInv, DerivedTypeOK
    <2>3. InStep(u)
      BY DEF DerivedInv
    <2> QED
      BY <1>3, <2>2, <2>3 DEF InStep
  <1>5. ASSUME NEW v \in Units, v # u PROVE InStep(v)'
    BY <1>5 DEF DerivedInv, DerivedTypeOK, InStep
  <1> QED
    BY <1>1, <1>2, <1>4, <1>5 DEF DerivedInv

\* Every unit's view is a set of tables.
LEMMA ViewType ==
    ASSUME DerivedInv, NEW u \in Units
    PROVE  /\ unit[u].view \in Tables
           /\ unit[u].own \in BOOLEAN
           /\ copy[u].source \in Nat /\ copy[u].cursor \in Nat
           /\ InStep(u)
  BY DEF DerivedInv, DerivedTypeOK

\* The writes of a caller inside its unit of work.
LEMMA WritesStep ==
    ASSUME DerivedInv, NEW u \in Units,
           \/ ChangeSource(u) \/ Advance(u)
           \/ \E v \in Versions : InvalidateVersion(u, v) \/ Put(u, v)
    PROVE  DerivedInv'
  <1>1. PICK view \in Tables : view = unit[u].view
    BY ViewType
  <1>2. /\ Fresh(view) /\ unit[u].own \in BOOLEAN
        /\ copy[u].source \in Nat /\ copy[u].cursor \in Nat
        /\ unit[u].own => copy[u].source = view.source
    BY <1>1, ViewType DEF InStep
  <1>3. \A new : unit' = [unit EXCEPT ![u].view = new] =>
                  unit' = [unit EXCEPT ![u].view = new, ![u].own = unit[u].own]
    BY DEF DerivedInv, DerivedTypeOK
  <1>4. unit[u].phase = "writing" /\ UNCHANGED <<stored, copy>>
    BY DEF ChangeSource, Advance, InvalidateVersion, Put, Write
  <1>5. CASE ChangeSource(u)
    <2> DEFINE new == [view EXCEPT !.source = @ + 1, !.entry = Invalidate(@)]
    <2>1. unit' = [unit EXCEPT ![u].view = new, ![u].own = FALSE]
      BY <1>1, <1>5 DEF ChangeSource
    <2>2. /\ new \in Tables /\ Fresh(new)
          /\ new.cursor = view.cursor /\ new.carried = view.carried
      BY SourceChanged
    <2> HIDE DEF new
    <2> QED
      BY <1>1, <1>4, <2>1, <2>2, WriteStep
  <1>6. CASE Advance(u)
    <2> DEFINE new == [view EXCEPT !.cursor = copy[u].cursor + 1, !.carried = IF unit[u].own THEN @ ELSE TRUE]
    <2>1. unit' = [unit EXCEPT ![u].view = new]
      BY <1>1, <1>6 DEF Advance, Write
    <2>2. /\ new \in Tables /\ Fresh(new)
          /\ new.source = view.source /\ new.cursor = copy[u].cursor + 1
          /\ view.carried \/ ~unit[u].own => new.carried
      <3>1. copy[u].cursor + 1 \in Nat
        BY <1>2
      <3> QED
        BY <1>2, <3>1, CursorMoved DEF Tables
    <2> HIDE DEF new
    <2>3. unit' = [unit EXCEPT ![u].view = new, ![u].own = unit[u].own]
      BY <1>3, <2>1
    <2> QED
      BY <1>1, <1>2, <1>4, <2>2, <2>3, WriteStep
  <1>7. ASSUME NEW v \in Versions, InvalidateVersion(u, v) PROVE DerivedInv'
    <2> DEFINE new == [view EXCEPT !.entry[v].served = FALSE]
    <2>1. unit' = [unit EXCEPT ![u].view = new]
      BY <1>1, <1>7 DEF InvalidateVersion, Write
    <2>2. /\ new \in Tables /\ Fresh(new)
          /\ new.source = view.source /\ new.cursor = view.cursor
          /\ new.carried = view.carried
      BY <1>2, LessServed
    <2> HIDE DEF new
    <2>3. unit' = [unit EXCEPT ![u].view = new, ![u].own = unit[u].own]
      BY <1>3, <2>1
    <2> QED
      BY <1>1, <1>2, <1>4, <2>2, <2>3, WriteStep
  <1>8. ASSUME NEW v \in Versions, Put(u, v) PROVE DerivedInv'
    <2> DEFINE row == [value |-> copy[u].source, served |-> TRUE, carried |-> ~unit[u].own]
               new == [view EXCEPT !.entry[v] = row]
    <2>1. unit' = [unit EXCEPT ![u].view = new]
      BY <1>1, <1>8 DEF Put, Write
    <2>2. row \in Row /\ (row.served => row.carried \/ row.value = view.source)
      <3>1. row \in Row /\ row.value = copy[u].source /\ (row.carried <=> ~unit[u].own)
        BY <1>2, RowPut
      <3> HIDE DEF row
      <3> QED
        BY <1>2, <3>1
    <2> HIDE DEF row
    <2>3. /\ new \in Tables /\ Fresh(new)
          /\ new.source = view.source /\ new.cursor = view.cursor
          /\ new.carried = view.carried
      BY <1>2, <2>2, EntryWritten
    <2> HIDE DEF new
    <2>4. unit' = [unit EXCEPT ![u].view = new, ![u].own = unit[u].own]
      BY <1>3, <2>1
    <2> QED
      BY <1>1, <1>2, <1>4, <2>3, <2>4, WriteStep
  <1> QED
    BY <1>5, <1>6, <1>7, <1>8

\* Entries that expire are served less, in the last commit and in every snapshot.
LEMMA ExpireStep ==
    ASSUME DerivedInv, NEW v \in Versions, Expire(v)
    PROVE  DerivedInv'
  <1> DEFINE expired(u) ==
        IF unit[u].view.entry[v].served /\ unit[u].view.entry[v] = stored.entry[v]
        THEN FALSE ELSE unit[u].view.entry[v].served
  <1>1. /\ stored' = [stored EXCEPT !.entry[v].served = FALSE]
        /\ unit' = [u \in Units |-> [unit[u] EXCEPT !.view.entry[v].served = expired(u)]]
        /\ copy' = copy
    BY DEF Expire
  <1>2. \A u \in Units : expired(u) \in BOOLEAN /\ (expired(u) => unit[u].view.entry[v].served)
    BY ViewType DEF Tables
  <1> HIDE DEF expired
  <1>3. stored \in Tables /\ Fresh(stored)
    BY DEF DerivedInv, DerivedTypeOK
  <1>4. stored' \in Tables /\ Fresh(stored') /\ stored'.cursor = stored.cursor
    BY <1>1, <1>3, LessServed
  <1>5. ASSUME NEW u \in Units
        PROVE  /\ unit'[u].view \in Tables /\ Fresh(unit'[u].view)
               /\ unit'[u].view.cursor = unit[u].view.cursor
               /\ unit'[u].view.source = unit[u].view.source
               /\ unit'[u].view.carried = unit[u].view.carried
               /\ unit'[u] = [unit[u] EXCEPT !.view = unit'[u].view]
    <2>1. PICK view \in Tables : view = unit[u].view /\ Fresh(view)
      BY ViewType DEF InStep
    <2> DEFINE new == [view EXCEPT !.entry[v].served = expired(u)]
    <2>2. unit'[u] = [unit[u] EXCEPT !.view = new] /\ unit'[u].view = new
      BY <1>1, <2>1 DEF DerivedInv, DerivedTypeOK
    <2>3. /\ new \in Tables /\ Fresh(new)
          /\ new.source = view.source /\ new.cursor = view.cursor
          /\ new.carried = view.carried
      BY <1>2, <2>1, LessServed
    <2> HIDE DEF new
    <2> QED
      BY <2>1, <2>2, <2>3
  <1>6. \A u \in Units : /\ unit'[u].phase = unit[u].phase
                        /\ unit'[u].latest = unit[u].latest
                        /\ unit'[u].own = unit[u].own
    BY <1>1 DEF DerivedInv, DerivedTypeOK
  <1>7. DerivedTypeOK'
    BY ZenonT(60), <1>1, <1>4, <1>5 DEF DerivedInv, DerivedTypeOK
  <1>8. OneWriter'
    BY <1>6 DEF DerivedInv, OneWriter
  <1>9. ASSUME NEW u \in Units PROVE InStep(u)'
    <2>1. InStep(u)
      BY DEF DerivedInv
    <2> QED
      BY ZenonT(60), <1>1, <1>4, <1>5, <1>6, <2>1 DEF InStep
  <1> QED
    BY <1>4, <1>7, <1>8, <1>9 DEF DerivedInv

-----------------------------------------------------------------------------

\* Every step keeps the invariant.
LEMMA DerivedNextInv == DerivedInv /\ [DerivedNext]_derivedVars => DerivedInv'
  <1> SUFFICES ASSUME DerivedInv, [DerivedNext]_derivedVars PROVE DerivedInv'
    OBVIOUS
  <1>1. CASE DerivedNext
    BY <1>1, BeginStep, UpgradeStep, FinishStep, GiveUpStep, ReadStep, WritesStep,
       ExpireStep DEF DerivedNext
  <1>2. CASE UNCHANGED derivedVars
    BY <1>2 DEF derivedVars, DerivedInv, DerivedTypeOK, OneWriter, InStep, Fresh
  <1> QED
    BY <1>1, <1>2

\* Every reachable state satisfies the inductive invariant.
THEOREM DerivedInvCorrect == DerivedSpec => []DerivedInv
  BY DerivedInitInv, DerivedNextInv, PTL DEF DerivedSpec

\* What the cache serves is of the source as the unit of work sees it, unless a
\* caller carried the value over from an earlier unit of work.
THEOREM CacheCorrect == DerivedSpec => []CacheFresh
  <1>1. DerivedInv => CacheFresh
    BY DEF DerivedInv, InStep, CacheFresh
  <1> QED
    BY <1>1, DerivedInvCorrect, PTL

\* No commit moves the cursor back, unless a caller carried its position over.
THEOREM CursorCorrect == DerivedSpec => CursorMovesOn
  <1>1. ASSUME DerivedInv, [DerivedNext]_derivedVars
        PROVE  [stored'.cursor >= stored.cursor \/ stored'.carried]_derivedVars
    <2>1. stored.cursor \in Nat
      BY <1>1 DEF DerivedInv, DerivedTypeOK, Tables
    <2>2. CASE \E u \in Units : Finish(u)
      BY <1>1, <2>2 DEF Finish, DerivedInv, InStep
    <2>3. CASE \E v \in Versions : Expire(v)
      BY <1>1, <2>1, <2>3 DEF Expire, DerivedInv, DerivedTypeOK, Tables
    <2>4. CASE UNCHANGED stored
      BY <2>1, <2>4
    <2>5. CASE UNCHANGED derivedVars
      BY <2>5
    <2> QED
      BY <1>1, <2>2, <2>3, <2>4, <2>5
      DEF DerivedNext, BeginRead, BeginWriting, Upgrade, GiveUp, Read, ChangeSource,
          Advance, InvalidateVersion, Put, Write
  <1> QED
    BY <1>1, DerivedInvCorrect, PTL DEF DerivedSpec, CursorMovesOn

-----------------------------------------------------------------------------
(* The token bucket (TokenBucket).                                         *)

\* What was handed out in the window, together with what the next call would
\* find, is at most a full bucket and the refill of the window's ticks.
Accounts == spent + (IF bucket = NoBucket THEN 0 ELSE TokensAt(bucket, clock))
                <= Capacity + Refill * elapsed

BucketInv ==
    /\ BucketTypeOK
    /\ bucket = NoBucket => spent = 0
    /\ Accounts

-----------------------------------------------------------------------------
(* The refill.                                                             *)

\* Multiplication by the rate keeps the order.
LEMMA RateMonotone ==
    ASSUME NEW r \in Nat, NEW x \in Nat, NEW y \in Nat, x <= y
    PROVE  x * r <= y * r
<1>1. PICK d \in Nat : y = x + d
  <2>1. y - x \in Nat /\ y = x + (y - x)
    OBVIOUS
  <2> QED
    BY <2>1
<1>2. d * r \in Nat /\ x * r \in Nat
  OBVIOUS
<1>3. y * r = x * r + d * r
  BY <1>1
<1> QED
  BY <1>2, <1>3

\* A product of naturals is a natural.
LEMMA RateType == ASSUME NEW x \in Nat, NEW y \in Nat PROVE x * y \in Nat
OBVIOUS

\* The ticks a call credits.
LEMMA CreditedType ==
    ASSUME NEW row \in Rows, NEW now \in Nat
    PROVE  /\ row.tokens \in 0 .. Capacity /\ row.tokens \in Nat /\ row.updated \in Nat
           /\ Greatest(0, now - row.updated) \in Nat
           /\ Greatest(0, now - row.updated) * Refill \in Nat
<1>1. row.tokens \in 0 .. Capacity /\ row.tokens \in Nat /\ row.updated \in Nat
  BY BucketAssumption DEF Rows
<1>2. Greatest(0, now - row.updated) \in Nat
  BY <1>1 DEF Greatest
<1>3. Greatest(0, now - row.updated) * Refill \in Nat
  BY <1>2, BucketAssumption
<1> QED
  BY <1>1, <1>2, <1>3

\* A call never finds more than the capacity.
LEMMA TokensType ==
    ASSUME NEW row \in Rows, NEW now \in Nat
    PROVE  TokensAt(row, now) \in 0 .. Capacity
BY CreditedType, BucketAssumption DEF TokensAt, Least

\* A row that has just been written has nothing more to come.
LEMMA TokensNow ==
    ASSUME NEW row \in Rows, NEW now \in Nat, row.updated = now
    PROVE  TokensAt(row, now) = row.tokens
<1>1. row.tokens \in 0 .. Capacity /\ Capacity \in Nat /\ Refill \in Nat
  BY CreditedType, BucketAssumption
<1>2. Greatest(0, now - row.updated) = 0
  BY DEF Greatest
<1> QED
  BY <1>1, <1>2 DEF TokensAt, Least

\* An earlier reading of the clock credits no more.
LEMMA TokensEarlier ==
    ASSUME NEW row \in Rows, NEW now \in Nat, NEW before \in Nat, before <= now
    PROVE  TokensAt(row, before) <= TokensAt(row, now)
<1>1. /\ Greatest(0, before - row.updated) \in Nat /\ Greatest(0, now - row.updated) \in Nat
      /\ Greatest(0, before - row.updated) * Refill \in Nat
      /\ Greatest(0, now - row.updated) * Refill \in Nat
      /\ row.tokens \in Nat /\ row.updated \in Nat /\ Refill \in Nat /\ Capacity \in Nat
  BY CreditedType, BucketAssumption
<1>2. Greatest(0, before - row.updated) <= Greatest(0, now - row.updated)
  BY <1>1 DEF Greatest
<1>3. Greatest(0, before - row.updated) * Refill <= Greatest(0, now - row.updated) * Refill
  BY <1>1, <1>2, RateMonotone
<1> QED
  BY <1>1, <1>3 DEF TokensAt, Least

\* One tick credits at most the refill of one tick.
LEMMA TokensLater ==
    ASSUME NEW row \in Rows, NEW now \in Nat, NEW later \in Nat, later = now + 1
    PROVE  TokensAt(row, later) <= TokensAt(row, now) + Refill
<1>1. /\ Greatest(0, now - row.updated) \in Nat /\ Greatest(0, later - row.updated) \in Nat
      /\ Greatest(0, now - row.updated) * Refill \in Nat
      /\ Greatest(0, later - row.updated) * Refill \in Nat
      /\ row.tokens \in Nat /\ row.updated \in Nat /\ Refill \in Nat /\ Capacity \in Nat
  BY CreditedType, BucketAssumption
<1>2. /\ Greatest(0, later - row.updated) <= Greatest(0, now - row.updated) + 1
      /\ Greatest(0, now - row.updated) + 1 \in Nat
  BY <1>1 DEF Greatest
<1>3. Greatest(0, later - row.updated) * Refill <= (Greatest(0, now - row.updated) + 1) * Refill
  BY <1>1, <1>2, RateMonotone
<1>4. (Greatest(0, now - row.updated) + 1) * Refill = Greatest(0, now - row.updated) * Refill + Refill
  BY <1>1
<1> QED
  BY <1>1, <1>3, <1>4 DEF TokensAt, Least

-----------------------------------------------------------------------------
(* The invariant.                                                          *)

\* The initial state satisfies the invariant.
LEMMA BucketInitInv == BucketInit => BucketInv
BY BucketAssumption DEF BucketInit, BucketInv, BucketTypeOK, Accounts

\* It is enough to look at the accounts of a bucket that is there.
LEMMA AccountsKeep ==
    ASSUME BucketTypeOK', (bucket = NoBucket => spent = 0)',
           bucket' \in Rows => spent' + TokensAt(bucket', clock') <= Capacity + Refill * elapsed'
    PROVE  BucketInv'
<1>1. CASE bucket' = NoBucket
  <2>1. spent' = 0 /\ elapsed' \in Nat
    BY <1>1 DEF BucketTypeOK
  <2>2. Refill * elapsed' \in Nat /\ Capacity \in Nat
    BY <2>1, BucketAssumption, RateType
  <2> QED
    BY <1>1, <2>1, <2>2 DEF BucketInv, Accounts
<1>2. CASE bucket' # NoBucket
  <2>1. bucket' \in Rows
    BY <1>2 DEF BucketTypeOK
  <2> QED
    BY <1>2, <2>1 DEF BucketInv, Accounts
<1> QED
  BY <1>1, <1>2

\* Every step keeps the invariant.
LEMMA BucketStepInv == BucketInv /\ [BucketNext]_bucketVars => BucketInv'
<1> SUFFICES ASSUME BucketInv, [BucketNext]_bucketVars
             PROVE  BucketInv'
  OBVIOUS
<1>0. /\ spent \in Nat /\ clock \in Nat /\ elapsed \in Nat /\ back \in 0 .. MaxBack
      /\ Refill \in Nat /\ Capacity \in Nat /\ Cost \in Nat /\ MaxBack \in Nat
      /\ Refill * elapsed \in Nat
      /\ bucket # NoBucket => bucket \in Rows
      /\ bucket # NoBucket => TokensAt(bucket, clock) \in 0 .. Capacity
  BY BucketAssumption, TokensType DEF BucketInv, BucketTypeOK
<1>00. bucket # NoBucket => spent + TokensAt(bucket, clock) <= Capacity + Refill * elapsed
  BY DEF BucketInv, Accounts
<1>000. NoBucket \notin Rows
  BY BucketAssumption DEF NoBucket, Rows
<1>1. CASE FirstAcquire
  <2>1. /\ bucket' = [tokens |-> Capacity - Cost, updated |-> clock]
        /\ Cost <= Capacity /\ spent' = Cost
        /\ clock' = clock /\ elapsed' = elapsed /\ back' = back
    BY <1>0, <1>1 DEF FirstAcquire, BucketInv
  <2>2. bucket' \in Rows /\ bucket'.updated = clock' /\ bucket'.tokens = Capacity - Cost
    BY <1>0, <2>1 DEF Rows
  <2>3. TokensAt(bucket', clock') = Capacity - Cost
    BY <1>0, <2>1, <2>2, TokensNow
  <2>4. BucketTypeOK' /\ bucket' # NoBucket
    BY <1>0, <1>000, <2>1, <2>2 DEF BucketTypeOK
  <2>5. spent' + TokensAt(bucket', clock') <= Capacity + Refill * elapsed'
    BY <1>0, <2>1, <2>3
  <2> QED
    BY <2>4, <2>5, AccountsKeep
<1>2. CASE Acquire
  <2>1. /\ bucket' = [tokens |-> TokensAt(bucket, clock) - Cost, updated |-> clock]
        /\ bucket # NoBucket /\ Cost <= TokensAt(bucket, clock) /\ spent' = spent + Cost
        /\ clock' = clock /\ elapsed' = elapsed /\ back' = back
    BY <1>0, <1>2 DEF Acquire
  <2>2. /\ bucket' \in Rows /\ bucket'.updated = clock'
        /\ bucket'.tokens = TokensAt(bucket, clock) - Cost
    BY <1>0, <2>1 DEF Rows
  <2>3. TokensAt(bucket', clock') = TokensAt(bucket, clock) - Cost
    BY <1>0, <2>1, <2>2, TokensNow
  <2>4. BucketTypeOK' /\ bucket' # NoBucket
    BY <1>0, <1>000, <2>1, <2>2 DEF BucketTypeOK
  <2>5. spent' + TokensAt(bucket', clock') <= Capacity + Refill * elapsed'
    BY <1>0, <1>00, <2>1, <2>3
  <2> QED
    BY <2>4, <2>5, AccountsKeep
<1>3. CASE Refuse
  <2>1. /\ bucket' = [tokens |-> TokensAt(bucket, clock), updated |-> clock]
        /\ bucket # NoBucket
        /\ spent' = spent /\ clock' = clock /\ elapsed' = elapsed /\ back' = back
    BY <1>3 DEF Refuse
  <2>2. /\ bucket' \in Rows /\ bucket'.updated = clock'
        /\ bucket'.tokens = TokensAt(bucket, clock)
    BY <1>0, <2>1 DEF Rows
  <2>3. TokensAt(bucket', clock') = TokensAt(bucket, clock)
    BY <1>0, <2>1, <2>2, TokensNow
  <2>4. BucketTypeOK' /\ bucket' # NoBucket
    BY <1>0, <1>000, <2>1, <2>2 DEF BucketTypeOK
  <2>5. spent' + TokensAt(bucket', clock') <= Capacity + Refill * elapsed'
    BY <1>00, <2>1, <2>3
  <2> QED
    BY <2>4, <2>5, AccountsKeep
<1>4. CASE Tick
  <2>1. /\ bucket' = bucket /\ clock' = clock + 1 /\ elapsed' = elapsed + 1
        /\ back' = back /\ spent' = spent
    BY <1>4 DEF Tick
  <2>2. BucketTypeOK' /\ (bucket' = NoBucket => spent' = 0)
    BY <1>0, <2>1 DEF BucketInv, BucketTypeOK
  <2>3. Refill * elapsed' = Refill * elapsed + Refill
    BY <1>0, <2>1
  <2>4. ASSUME bucket' \in Rows
        PROVE  spent' + TokensAt(bucket', clock') <= Capacity + Refill * elapsed'
    <3>1. bucket # NoBucket /\ clock' \in Nat
      BY <1>0, <1>000, <2>1, <2>4
    <3>2. /\ TokensAt(bucket', clock') \in Nat
          /\ TokensAt(bucket', clock') <= TokensAt(bucket, clock) + Refill
      BY <1>0, <2>1, <3>1, TokensType, TokensLater, BucketAssumption
    <3> QED
      BY <1>0, <1>00, <2>1, <2>3, <3>1, <3>2
  <2> QED
    BY <2>2, <2>4, AccountsKeep
<1>5. CASE SetBack
  <2>1. /\ bucket' = bucket /\ clock' \in Nat /\ clock' <= clock /\ elapsed' = elapsed
        /\ back' \in 0 .. MaxBack /\ spent' = spent
    BY <1>0, <1>5 DEF SetBack
  <2>2. BucketTypeOK' /\ (bucket' = NoBucket => spent' = 0)
    BY <1>0, <2>1 DEF BucketInv, BucketTypeOK
  <2>3. ASSUME bucket' \in Rows
        PROVE  spent' + TokensAt(bucket', clock') <= Capacity + Refill * elapsed'
    <3>1. bucket # NoBucket
      BY <1>000, <2>1, <2>3
    <3>2. /\ TokensAt(bucket', clock') \in Nat
          /\ TokensAt(bucket', clock') <= TokensAt(bucket, clock)
      BY <1>0, <2>1, <3>1, TokensType, TokensEarlier, BucketAssumption
    <3> QED
      BY <1>0, <1>00, <2>1, <3>1, <3>2
  <2> QED
    BY <2>2, <2>3, AccountsKeep
<1>6. CASE Watch
  <2>1. bucket' = bucket /\ clock' = clock /\ back' = back /\ elapsed' = 0 /\ spent' = 0
    BY <1>6 DEF Watch
  <2>2. BucketTypeOK'
    BY <1>0, <2>1 DEF BucketInv, BucketTypeOK
  <2>3. ASSUME bucket' \in Rows
        PROVE  spent' + TokensAt(bucket', clock') <= Capacity + Refill * elapsed'
    BY <1>0, <1>000, <2>1, <2>3
  <2> QED
    BY <2>1, <2>2, <2>3, AccountsKeep
<1>7. CASE UNCHANGED bucketVars
  BY <1>7 DEF bucketVars, BucketInv, BucketTypeOK, Accounts
<1> QED
  BY <1>1, <1>2, <1>3, <1>4, <1>5, <1>6, <1>7 DEF BucketNext

\* The invariant bounds the admission.
LEMMA InvBounds == BucketInv => AdmissionBounded
<1> SUFFICES ASSUME BucketInv
             PROVE  AdmissionBounded
  OBVIOUS
<1>1. Refill * elapsed \in Nat /\ Capacity \in Nat /\ spent \in Nat
  BY BucketAssumption DEF BucketInv, BucketTypeOK
<1>2. CASE bucket = NoBucket
  BY <1>1, <1>2 DEF BucketInv, AdmissionBounded
<1>3. CASE bucket # NoBucket
  <2>1. TokensAt(bucket, clock) \in Nat
    BY <1>1, <1>3, TokensType DEF BucketInv, BucketTypeOK
  <2> QED
    BY <1>1, <1>3, <2>1 DEF BucketInv, Accounts, AdmissionBounded
<1> QED
  BY <1>2, <1>3

\* However calls, ticks and set-backs of the clock follow one another, in no
\* window does a bucket hand out more than its capacity and the refill of the
\* ticks counted in it.
THEOREM AdmissionCorrect == BucketSpec => []AdmissionBounded
<1>1. BucketInit => BucketInv
  BY BucketInitInv
<1>2. BucketInv /\ [BucketNext]_bucketVars => BucketInv'
  BY BucketStepInv
<1>3. BucketInv => AdmissionBounded
  BY InvBounds
<1> QED
  BY <1>1, <1>2, <1>3, PTL DEF BucketSpec
-----------------------------------------------------------------------------
(* The learning tables (Learning).                                         *)

FeedbackRow ==
    [variant : Variants \cup {NoSuggestion}, action : DOMAIN Rewards \cup {"approve"},
     edited : BOOLEAN]

\* The weight of v after one more row.
NextWeight(weight, row, v) ==
    IF row.variant = v THEN UpdatedWeight(weight, row.action) ELSE weight

Edited(rows) == {n \in DOMAIN rows : rows[n].edited}

\* A transaction that has begun is the only one, and the weight it has read is
\* the stored one.
EntriesOK ==
    /\ entry = [c \in Clients |-> entry[c]]
    /\ \A c, d \in Clients : entry[c] # Idle /\ entry[d] # Idle => c = d
    /\ \A c \in Clients :
        \/ entry[c] = Idle
        \/ \E row \in FeedbackRow : entry[c] = [step |-> "inserted", row |-> row]
        \/ \E row \in FeedbackRow :
            entry[c] = [step |-> "read", row |-> row,
                        old |-> IF row.variant \in Variants THEN weights[row.variant] ELSE 0]

\* The inductive invariant.
LearningInv ==
    /\ feedback \in Seq(FeedbackRow)
    /\ EntriesOK
    /\ WeightsFollowFeedback

\* A set of numbers has a least one.
LEMMA LeastNumber ==
    ASSUME NEW S \in SUBSET Nat, S # {}
    PROVE  \E n \in S : \A m \in S : n <= m
  <1> DEFINE Less == {p \in Nat \X Nat : p[1] < p[2]}
  <1>1. IsWellFoundedOn(Less, Nat)
    BY NatLessThanWellFounded DEF OpToRel
  <1> HIDE DEF Less
  <1>2. PICK n \in S : \A m \in S : <<m, n>> \notin Less
    BY <1>1, WFMin
  <1>3. \A m \in S : ~(m < n)
    BY <1>2 DEF Less
  <1> QED
    BY <1>2, <1>3

\* A replay is what its rows make of the weight, one after another.
LEMMA ReplayRuns ==
    ASSUME NEW rows \in Seq(FeedbackRow), NEW v
    PROVE  \E g : /\ g[0] = start
                  /\ \A n \in 1 .. Len(rows) : g[n] = NextWeight(g[n - 1], rows[n], v)
                  /\ Replayed(rows, v) = g[Len(rows)]
  <1> DEFINE N == Len(rows)
             Runs(g, n) == /\ g[0] = start
                           /\ \A i \in 1 .. n : g[i] = NextWeight(g[i - 1], rows[i], v)
             weight[n \in 0 .. Len(rows)] ==
                IF n = 0 THEN start
                ELSE IF rows[n].variant = v THEN UpdatedWeight(weight[n - 1], rows[n].action)
                ELSE weight[n - 1]
  <1>1. N \in Nat
    BY LenProperties
  <1>2. Replayed(rows, v) = weight[N]
    BY DEF Replayed
  <1>3. \E g : DOMAIN g = 0 .. N /\ Runs(g, N)
    <2> DEFINE Bad == {n \in 0 .. N : ~\E g : DOMAIN g = 0 .. n /\ Runs(g, n)}
    <2>1. CASE Bad = {}
      BY <1>1, <2>1
    <2>2. CASE Bad # {}
      <3>1. Bad \in SUBSET Nat
        BY <1>1
      <3>2. PICK n \in Bad : \A m \in Bad : n <= m
        <4> HIDE DEF Bad
        <4> QED
          BY <2>2, <3>1, LeastNumber
      <3>3. n # 0
        <4> DEFINE g == [i \in 0 .. 0 |-> start]
        <4>1. DOMAIN g = 0 .. 0 /\ Runs(g, 0)
          OBVIOUS
        <4> QED
          BY <3>2, <4>1
      <3>4. n - 1 \in 0 .. N /\ n \in 1 .. N /\ n - 1 \notin Bad
        BY <1>1, <3>2, <3>3
      <3>5. PICK g : DOMAIN g = 0 .. n - 1 /\ Runs(g, n - 1)
        BY <3>4
      <3> DEFINE h == [i \in 0 .. n |-> IF i = n THEN NextWeight(g[n - 1], rows[n], v) ELSE g[i]]
      <3>6. h[n] = NextWeight(g[n - 1], rows[n], v)
        BY <1>1, <3>4
      <3>7. \A i \in 0 .. n - 1 : h[i] = g[i]
        BY <1>1, <3>4
      <3>8. DOMAIN h = 0 .. n
        OBVIOUS
      <3> HIDE DEF h
      <3>9. \A i \in 1 .. n : h[i] = NextWeight(h[i - 1], rows[i], v)
        <4> SUFFICES ASSUME NEW i \in 1 .. n PROVE h[i] = NextWeight(h[i - 1], rows[i], v)
          OBVIOUS
        <4>1. i - 1 \in 0 .. n - 1
          BY <1>1, <3>4
        <4>2. CASE i = n
          BY <3>6, <3>7, <4>1, <4>2
        <4>3. CASE i # n
          <5>1. i \in 1 .. n - 1 /\ i \in 0 .. n - 1
            BY <1>1, <3>4, <4>3
          <5> QED
            BY <3>5, <3>7, <4>1, <5>1
        <4> QED
          BY <4>2, <4>3
      <3>10. h[0] = start
        <4>1. 0 \in 0 .. n - 1
          BY <1>1, <3>4
        <4> QED
          BY <3>5, <3>7, <4>1
      <3> QED
        BY <3>2, <3>8, <3>9, <3>10
    <2> QED
      BY <2>1, <2>2
  <1>4. PICK g : DOMAIN g = 0 .. N /\ Runs(g, N)
    BY <1>3
  <1>5. weight = [n \in 0 .. Len(rows) |->
                    IF n = 0 THEN start
                    ELSE IF rows[n].variant = v THEN UpdatedWeight(weight[n - 1], rows[n].action)
                    ELSE weight[n - 1]]
    <2> DEFINE G == [n \in 0 .. N |-> g[n]]
    <2>1. G = [n \in 0 .. Len(rows) |->
                    IF n = 0 THEN start
                    ELSE IF rows[n].variant = v THEN UpdatedWeight(G[n - 1], rows[n].action)
                    ELSE G[n - 1]]
      <3>1. \A n \in 0 .. N : n # 0 => n \in 1 .. N /\ n - 1 \in 0 .. N
        BY <1>1
      <3> QED
        BY <1>4, <3>1 DEF NextWeight
    <2> HIDE DEF G
    <2> QED
      BY <2>1
  <1> HIDE DEF weight
  <1>6. Runs(weight, N)
    <2>1. 0 \in 0 .. Len(rows) /\ \A n \in 1 .. N : n \in 0 .. Len(rows) /\ n # 0
      BY <1>1
    <2>2. weight[0] = start
      BY <1>5, <2>1
    <2>3. ASSUME NEW n \in 1 .. N PROVE weight[n] = NextWeight(weight[n - 1], rows[n], v)
      BY <1>5, <2>1 DEF NextWeight
    <2> QED
      BY <2>2, <2>3
  <1> QED
    BY <1>2, <1>6

\* A row more is one step more of the replay.
LEMMA ReplayAppend ==
    ASSUME NEW rows \in Seq(FeedbackRow), NEW row \in FeedbackRow, NEW v
    PROVE  Replayed(Append(rows, row), v) = NextWeight(Replayed(rows, v), row, v)
  <1> DEFINE N == Len(rows)
             more == Append(rows, row)
  <1>1. /\ more \in Seq(FeedbackRow) /\ Len(more) = N + 1 /\ N \in Nat
        /\ \A i \in 1 .. N : more[i] = rows[i]
        /\ more[N + 1] = row
    BY AppendProperties, LenProperties
  <1> HIDE DEF more
  <1>2. PICK g : /\ g[0] = start
                 /\ \A n \in 1 .. N : g[n] = NextWeight(g[n - 1], rows[n], v)
                 /\ Replayed(rows, v) = g[N]
    BY ReplayRuns
  <1>3. PICK h : /\ h[0] = start
                 /\ \A n \in 1 .. N + 1 : h[n] = NextWeight(h[n - 1], more[n], v)
                 /\ Replayed(more, v) = h[N + 1]
    BY <1>1, ReplayRuns
  <1>4. h[N] = g[N]
    <2> DEFINE Bad == {n \in 0 .. N : h[n] # g[n]}
    <2>1. CASE Bad = {}
      BY <1>1, <2>1
    <2>2. CASE Bad # {}
      <3>1. Bad \in SUBSET Nat
        BY <1>1
      <3>2. PICK n \in Bad : \A m \in Bad : n <= m
        <4> HIDE DEF Bad
        <4> QED
          BY <2>2, <3>1, LeastNumber
      <3>3. n # 0
        BY <1>2, <1>3, <3>2
      <3>4. n - 1 \in 0 .. N /\ n \in 1 .. N /\ n \in 1 .. N + 1 /\ n - 1 \notin Bad
        BY <1>1, <3>2, <3>3
      <3>5. h[n - 1] = g[n - 1]
        BY <3>4
      <3> QED
        BY <1>1, <1>2, <1>3, <3>2, <3>4, <3>5
    <2> QED
      BY <2>1, <2>2
  <1>5. N + 1 \in 1 .. N + 1 /\ (N + 1) - 1 = N
    BY <1>1
  <1>6. h[N + 1] = NextWeight(h[N], row, v)
    BY <1>1, <1>3, <1>5
  <1> QED
    BY <1>2, <1>3, <1>4, <1>6 DEF more

\* A row more is one example more if its text was edited.
LEMMA EditedAppend ==
    ASSUME NEW rows \in Seq(FeedbackRow), NEW row \in FeedbackRow
    PROVE  /\ Cardinality(Edited(rows)) \in Nat
           /\ Cardinality(Edited(Append(rows, row)))
                = Cardinality(Edited(rows)) + (IF row.edited THEN 1 ELSE 0)
  <1> DEFINE N == Len(rows)
             more == Append(rows, row)
  <1>1. /\ more \in Seq(FeedbackRow) /\ Len(more) = N + 1 /\ N \in Nat
        /\ \A i \in 1 .. N : more[i] = rows[i]
        /\ more[N + 1] = row
    BY AppendProperties, LenProperties
  <1> HIDE DEF more
  <1>2. DOMAIN rows = 1 .. N /\ DOMAIN more = 1 .. N + 1
    BY <1>1, LenProperties
  <1>3. IsFiniteSet(Edited(rows))
    <2>1. 1 \in Int /\ N \in Int
      BY <1>1
    <2>2. IsFiniteSet(1 .. N)
      BY <2>1, FS_Interval
    <2>3. Edited(rows) \in SUBSET (1 .. N)
      BY <1>2 DEF Edited
    <2> QED
      BY <2>2, <2>3, FS_Subset
  <1>4. N + 1 \notin Edited(rows)
    BY <1>1, <1>2 DEF Edited
  <1>5. Edited(more) = IF row.edited THEN Edited(rows) \cup {N + 1} ELSE Edited(rows)
    <2>1. 1 .. N + 1 = (1 .. N) \cup {N + 1}
      BY <1>1
    <2>2. row.edited \in BOOLEAN
      BY DEF FeedbackRow
    <2> QED
      BY <1>1, <1>2, <2>1, <2>2 DEF Edited
  <1> QED
    <2>1. Cardinality(Edited(rows)) \in Nat
      BY <1>3, FS_CardinalityType
    <2>2. Cardinality(Edited(rows) \cup {N + 1}) = Cardinality(Edited(rows)) + 1
      BY <1>3, <1>4, FS_AddElement
    <2> QED
      BY <1>5, <2>1, <2>2 DEF more

\* The initial state satisfies the invariant.
LEMMA LearningInitInv == LearningInit => LearningInv
  <1> SUFFICES ASSUME LearningInit PROVE LearningInv
    OBVIOUS
  <1>1. feedback = <<>> /\ feedback \in Seq(FeedbackRow) /\ Len(feedback) = 0
    BY EmptySeq DEF LearningInit
  <1>2. EntriesOK
    BY DEF LearningInit, EntriesOK
  <1>3. ASSUME NEW v \in Variants PROVE weights[v] = Replayed(feedback, v)
    <2>1. weights[v] = start
      BY DEF LearningInit
    <2> QED
      BY ZenonT(60), <1>1, <2>1, ReplayRuns
  <1>4. Cardinality(Edited(feedback)) = 0
    <2>1. DOMAIN feedback = {}
      BY <1>1
    <2>2. Edited(feedback) = {}
      BY <2>1 DEF Edited
    <2> QED
      BY <2>2, FS_EmptySet
  <1>5. examples = Cardinality(Edited(feedback))
    BY <1>4 DEF LearningInit
  <1> QED
    BY <1>1, <1>2, <1>3, <1>5 DEF LearningInv, WeightsFollowFeedback, Edited

\* What stays when only the calls change.
LEMMA EntryStep ==
    ASSUME LearningInv, UNCHANGED <<start, feedback, weights, examples>>, EntriesOK'
    PROVE  LearningInv'
  <1>1. \A v \in Variants : Replayed(feedback, v)' = Replayed(feedback, v)
    BY DEF Replayed, UpdatedWeight
  <1>2. WeightsFollowFeedback'
    BY <1>1 DEF LearningInv, WeightsFollowFeedback
  <1> QED
    BY <1>2 DEF LearningInv

\* Every step keeps the invariant.
LEMMA LearningNextInv == LearningInv /\ [LearningNext]_learningVars => LearningInv'
  <1> SUFFICES ASSUME LearningInv, [LearningNext]_learningVars PROVE LearningInv'
    OBVIOUS
  <1>0. EntriesOK
    BY DEF LearningInv
  <1>1. ASSUME NEW c \in Clients, NEW v \in Variants \cup {NoSuggestion},
               NEW action \in DOMAIN Rewards \cup {"approve"}, NEW edited \in BOOLEAN,
               Insert(c, v, action, edited)
        PROVE  LearningInv'
    <2> DEFINE row == [variant |-> v, action |-> action, edited |-> edited]
    <2>1. row \in FeedbackRow
      BY DEF FeedbackRow
    <2>2. /\ \A d \in Clients : entry[d] = Idle
          /\ entry' = [entry EXCEPT ![c] = [step |-> "inserted", row |-> row]]
          /\ UNCHANGED <<start, feedback, weights, examples>>
      BY <1>1 DEF Insert, MayInsert
    <2> HIDE DEF row
    <2>3. \A d \in Clients : entry'[d] = IF d = c THEN [step |-> "inserted", row |-> row] ELSE Idle
      BY <1>0, <2>2 DEF EntriesOK
    <2>4. entry' = [d \in Clients |-> entry'[d]]
      BY <1>0, <2>2 DEF EntriesOK
    <2>5. EntriesOK'
      BY <2>1, <2>3, <2>4 DEF EntriesOK
    <2> QED
      BY <2>2, <2>5, EntryStep
  <1>2. ASSUME NEW c \in Clients, ReadWeight(c) PROVE LearningInv'
    <2>1. /\ entry[c].step = "inserted"
          /\ entry' = [entry EXCEPT ![c] =
                [step |-> "read", row |-> entry[c].row,
                 old |-> IF entry[c].row.variant \in Variants THEN weights[entry[c].row.variant]
                         ELSE 0]]
          /\ UNCHANGED <<start, feedback, weights, examples>>
      BY <1>2 DEF ReadWeight
    <2>2. PICK row \in FeedbackRow : entry[c] = [step |-> "inserted", row |-> row]
      BY <1>0, <2>1 DEF EntriesOK, Idle
    <2> DEFINE new == [step |-> "read", row |-> row,
                       old |-> IF row.variant \in Variants THEN weights[row.variant] ELSE 0]
    <2>3. entry' = [entry EXCEPT ![c] = new]
      BY <2>1, <2>2
    <2>4. \A d \in Clients : entry[d] # Idle => d = c
      BY <1>0, <2>2 DEF EntriesOK, Idle
    <2>5. \A d \in Clients : entry'[d] = IF d = c THEN new ELSE Idle
      BY <1>0, <2>3, <2>4 DEF EntriesOK
    <2>6. entry' = [d \in Clients |-> entry'[d]]
      BY <1>0, <2>3 DEF EntriesOK
    <2>7. new = [step |-> "read", row |-> row,
                 old |-> IF row.variant \in Variants THEN weights'[row.variant] ELSE 0]
      BY <2>1
    <2> HIDE DEF new
    <2>8. EntriesOK'
      BY <2>5, <2>6, <2>7 DEF EntriesOK
    <2> QED
      BY <2>1, <2>8, EntryStep
  <1>3. ASSUME NEW c \in Clients, DropFeedback(c) PROVE LearningInv'
    <2>1. /\ entry[c] # Idle /\ entry' = [entry EXCEPT ![c] = Idle]
          /\ UNCHANGED <<start, feedback, weights, examples>>
      BY <1>3 DEF DropFeedback
    <2>2. \A d \in Clients : entry'[d] = Idle
      BY <1>0, <2>1 DEF EntriesOK
    <2>3. entry' = [d \in Clients |-> entry'[d]]
      BY <1>0, <2>1 DEF EntriesOK
    <2>4. EntriesOK'
      BY <2>2, <2>3 DEF EntriesOK
    <2> QED
      BY <2>1, <2>4, EntryStep
  <1>4. ASSUME NEW c \in Clients, CommitFeedback(c) PROVE LearningInv'
    <2>1. /\ entry[c].step = "read"
          /\ feedback' = Append(feedback, entry[c].row)
          /\ weights' = [v \in Variants |-> IF v = entry[c].row.variant
                                            THEN UpdatedWeight(entry[c].old, entry[c].row.action)
                                            ELSE weights[v]]
          /\ examples' = examples + (IF entry[c].row.edited THEN 1 ELSE 0)
          /\ entry' = [entry EXCEPT ![c] = Idle]
          /\ start' = start
      BY <1>4 DEF CommitFeedback
    <2>2. PICK row \in FeedbackRow :
            entry[c] = [step |-> "read", row |-> row,
                        old |-> IF row.variant \in Variants THEN weights[row.variant] ELSE 0]
      BY <1>0, <2>1 DEF EntriesOK, Idle
    <2>3. /\ entry[c].row = row /\ entry[c] # Idle
          /\ row.variant \in Variants => entry[c].old = weights[row.variant]
      BY <2>2 DEF Idle
    <2>4. feedback \in Seq(FeedbackRow) /\ feedback' = Append(feedback, row)
      BY <2>1, <2>3 DEF LearningInv
    <2>5. feedback' \in Seq(FeedbackRow)
      BY <2>4, AppendProperties
    <2>6. ASSUME NEW v \in Variants PROVE weights'[v] = Replayed(feedback, v)'
      <3>1. weights'[v] = NextWeight(weights[v], row, v)
        BY <2>1, <2>3 DEF NextWeight
      <3>2. weights[v] = Replayed(feedback, v)
        BY DEF LearningInv, WeightsFollowFeedback
      <3>3. Replayed(Append(feedback, row), v) = NextWeight(Replayed(feedback, v), row, v)
        BY <2>4, ReplayAppend
      <3>4. Replayed(feedback, v)' = Replayed(Append(feedback, row), v)
        BY <2>1, <2>4 DEF Replayed, UpdatedWeight
      <3> QED
        BY <3>1, <3>2, <3>3, <3>4
    <2>7. examples' = Cardinality(Edited(feedback'))
      <3>1. examples = Cardinality(Edited(feedback))
        BY DEF LearningInv, WeightsFollowFeedback, Edited
      <3>2. examples' = examples + (IF row.edited THEN 1 ELSE 0)
        BY <2>1, <2>3
      <3> QED
        BY <2>4, <3>1, <3>2, EditedAppend
    <2>8. \A d \in Clients : entry'[d] = Idle
      BY <1>0, <2>1, <2>3 DEF EntriesOK
    <2>9. entry' = [d \in Clients |-> entry'[d]]
      BY <1>0, <2>1 DEF EntriesOK
    <2>10. EntriesOK'
      BY <2>8, <2>9 DEF EntriesOK
    <2> QED
      BY <2>5, <2>6, <2>7, <2>10 DEF LearningInv, WeightsFollowFeedback, Edited
  <1>5. CASE UNCHANGED learningVars
    <2>1. UNCHANGED <<start, feedback, weights, examples, entry>>
      BY <1>5 DEF learningVars
    <2>2. EntriesOK'
      BY <1>0, <2>1 DEF EntriesOK
    <2> QED
      BY <2>1, <2>2, EntryStep
  <1> QED
    BY <1>1, <1>2, <1>3, <1>4, <1>5 DEF LearningNext

\* A weight is what the stored feedback makes of it, and there is an example for
\* every edited text, whichever processes record feedback at once.
THEOREM LearningCorrect == LearningSpec => []WeightsFollowFeedback
  <1>1. LearningInv => WeightsFollowFeedback
    BY DEF LearningInv
  <1> QED
    BY <1>1, LearningInitInv, LearningNextInv, PTL DEF LearningSpec

=============================================================================
