----------------------------- MODULE DerivedTables -----------------------------
(***************************************************************************)
(* CacheRepository and CursorRepository (xnative/db/repositories.py) inside *)
(* the units of work that call them: values derived from a source row, kept *)
(* under the versions of one cache key, and the position of a pipeline.     *)
(* Callers compute from what they read, in the same unit of work or in an   *)
(* earlier one.  A unit of work is a deferred SQLite transaction in WAL     *)
(* mode: it works on a snapshot, and may write if that is still the last.   *)
(***************************************************************************)
EXTENDS Integers

CONSTANTS
    Units,      \* processes, each with one unit of work at a time
    Versions,   \* versions of a cache key in one namespace
    MaxSource,  \* bound: changes of the source
    MaxCursor   \* bound: pages of the pipeline

VARIABLES
    stored,  \* the last commit
    unit,    \* the unit of work of each process
    copy     \* what a process has read last: its derived value and position

derivedVars == <<stored, unit, copy>>

NoEntry == [value |-> -1, served |-> FALSE, carried |-> FALSE]

\* source counts the changes of the source row; served says that an entry is
\* neither invalidated nor expired.  carried is no column: it marks what a unit
\* of work wrote (an entry, or the cursor) from something it had not read itself.
Nothing ==
    [source |-> 0, cursor |-> 0, carried |-> FALSE, entry |-> [v \in Versions |-> NoEntry]]

Closed == [phase |-> "closed", view |-> Nothing, latest |-> FALSE, own |-> FALSE]

DerivedInit ==
    /\ stored = Nothing
    /\ unit = [u \in Units |-> Closed]
    /\ copy = [u \in Units |-> [source |-> 0, cursor |-> 0]]

-----------------------------------------------------------------------------
(* Units of work.                                                          *)

LockFree == \A u \in Units : unit[u].phase # "writing"

Snapshot == [stored EXCEPT !.carried = FALSE]

\* The first statement is a read, which takes the snapshot ...
BeginRead(u) ==
    /\ unit[u].phase = "closed"
    /\ unit' = [unit EXCEPT ![u] = [Closed EXCEPT
                    !.phase = "reading", !.view = Snapshot, !.latest = TRUE]]
    /\ UNCHANGED <<stored, copy>>

\* ... or a write, which waits for the lock first, as in a worker's poll.
BeginWriting(u) ==
    /\ unit[u].phase = "closed"
    /\ LockFree
    /\ unit' = [unit EXCEPT ![u] = [Closed EXCEPT
                    !.phase = "writing", !.view = Snapshot, !.latest = TRUE]]
    /\ UNCHANGED <<stored, copy>>

\* Mutant: the snapshot may be an old one, as in a database without snapshots.
MayUpgradeOld(u) == unit[u].phase = "reading" /\ LockFree

\* Otherwise the write fails with SQLITE_BUSY or SQLITE_BUSY_SNAPSHOT.
MayUpgrade(u) == unit[u].phase = "reading" /\ LockFree /\ unit[u].latest

Upgrade(u) ==
    /\ MayUpgrade(u)
    /\ unit' = [unit EXCEPT ![u].phase = "writing"]
    /\ UNCHANGED <<stored, copy>>

Finish(u) ==
    /\ unit[u].phase = "writing"
    /\ stored' = unit[u].view
    /\ unit' = [v \in Units |-> IF v = u THEN Closed ELSE [unit[v] EXCEPT !.latest = FALSE]]
    /\ UNCHANGED copy

\* The end of a unit that only read, an exception, or the end of the process.
GiveUp(u) ==
    /\ unit[u].phase # "closed"
    /\ unit' = [unit EXCEPT ![u] = Closed]
    /\ UNCHANGED <<stored, copy>>

-----------------------------------------------------------------------------
(* What callers do in them.                                                *)

Read(u) ==
    /\ unit[u].phase # "closed"
    /\ copy' = [copy EXCEPT ![u] = [source |-> unit[u].view.source, cursor |-> unit[u].view.cursor]]
    /\ unit' = [unit EXCEPT ![u].own = TRUE]
    /\ UNCHANGED stored

Write(u, tables) ==
    /\ unit[u].phase = "writing"
    /\ unit' = [unit EXCEPT ![u].view = tables]
    /\ UNCHANGED <<stored, copy>>

\* Mutant: version=NULL is compared, and no row matches.
InvalidateNone(entries) == entries

\* CacheRepository.invalidate of a whole namespace.
Invalidate(entries) == [v \in Versions |-> [entries[v] EXCEPT !.served = FALSE]]

\* The caller changes the source and invalidates what was derived from it; a
\* value that it computed before is an old one now.
ChangeSource(u) ==
    /\ unit[u].phase = "writing"
    /\ unit[u].view.source < MaxSource
    /\ LET changed == [unit[u].view EXCEPT !.source = @ + 1, !.entry = Invalidate(@)]
       IN unit' = [unit EXCEPT ![u].view = changed, ![u].own = FALSE]
    /\ UNCHANGED <<stored, copy>>

\* CacheRepository.invalidate of one version.
InvalidateVersion(u, v) ==
    Write(u, [unit[u].view EXCEPT !.entry[v].served = FALSE])

\* CacheRepository.put clears invalidated_at and sets a new expires_at.
Put(u, v) ==
    Write(u, [unit[u].view EXCEPT !.entry[v] =
                 [value |-> copy[u].source, served |-> TRUE, carried |-> ~unit[u].own]])

\* CursorRepository.advance stores what it is given.
Advance(u) ==
    /\ copy[u].cursor < MaxCursor
    /\ Write(u, [unit[u].view EXCEPT !.cursor = copy[u].cursor + 1,
                                           !.carried = IF unit[u].own THEN @ ELSE TRUE])

\* expires_at passes, for every reader alike.
Expire(v) ==
    /\ stored.entry[v].served
    /\ stored' = [stored EXCEPT !.entry[v].served = FALSE]
    /\ unit' = [u \in Units |-> [unit[u] EXCEPT !.view.entry[v].served =
                   IF @ /\ unit[u].view.entry[v] = stored.entry[v] THEN FALSE ELSE @]]
    /\ UNCHANGED copy

DerivedNext ==
    \/ \E u \in Units :
            \/ BeginRead(u) \/ BeginWriting(u) \/ Upgrade(u) \/ Finish(u) \/ GiveUp(u)
            \/ Read(u) \/ ChangeSource(u) \/ Advance(u)
            \/ \E v \in Versions : InvalidateVersion(u, v) \/ Put(u, v)
    \/ \E v \in Versions : Expire(v)

DerivedSpec == DerivedInit /\ [][DerivedNext]_derivedVars

-----------------------------------------------------------------------------

Tables ==
    [source : Nat, cursor : Nat, carried : BOOLEAN,
     entry : [Versions -> [value : Int, served : BOOLEAN, carried : BOOLEAN]]]

DerivedTypeOK ==
    /\ stored \in Tables
    /\ unit \in [Units -> [phase : {"closed", "reading", "writing"}, view : Tables,
                           latest : BOOLEAN, own : BOOLEAN]]
    /\ copy \in [Units -> [source : Nat, cursor : Nat]]

Fresh(tables) ==
    \A v \in Versions :
        tables.entry[v].served =>
            tables.entry[v].carried \/ tables.entry[v].value = tables.source

\* CacheRepository.get serves, to every unit of work, a value of the source as
\* that unit sees it, unless a caller put a value that it had computed before.
CacheFresh == Fresh(stored) /\ \A u \in Units : Fresh(unit[u].view)

\* A pipeline cursor moves back only by a caller that advances it from a
\* position which it has not read in the same unit of work.
CursorMovesOn == [][stored'.cursor >= stored.cursor \/ stored'.carried]_derivedVars

=============================================================================
