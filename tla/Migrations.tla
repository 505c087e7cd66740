------------------------------ MODULE Migrations ------------------------------
(***************************************************************************)
(* xnative/db/migration_runner.py: run_migrations, which init_db calls for *)
(* every connection of every process.                                      *)
(*                                                                         *)
(* conn.execute("BEGIN") takes no lock, and executescript commits it before *)
(* it runs the script in autocommit mode.  So every statement of a script  *)
(* is a transaction of its own, and only the row of schema_migrations is   *)
(* written in a transaction that the runner commits: that INSERT takes the *)
(* write lock of the database, which the commit releases.                  *)
(*                                                                         *)
(* Two releases may carry different scripts under one number.  They name   *)
(* the same objects, and an object keeps the definition it was created     *)
(* with; a statement over an object of the other script is taken to        *)
(* succeed.                                                                *)
(***************************************************************************)
EXTENDS Integers, FiniteSets

CONSTANTS
    Processes,   \* API, workers, user interface: whoever opens the database
    Last,        \* the scripts are numbered 1 .. Last (0001_, 0002_, ...)
    Release,     \* the last script in the release a process runs
    Statements,  \* statements in each script
    Checksums,
    Checksum,    \* checksum of each script in the release a process runs
    MaxWrites,   \* bound: transactions of connected processes in a bounded run
    MaxCrashes,  \* bound: processes killed in a bounded run
    NoProcess

ASSUME MigrationsAssumption ==
    /\ Last \in Nat \ {0}
    /\ Statements \in [1 .. Last -> Nat \ {0}]
    /\ Release \in [Processes -> 1 .. Last]
    /\ Checksum \in [Processes -> [1 .. Last -> Checksums]]
    /\ MaxWrites \in Nat
    /\ MaxCrashes \in Nat
    /\ NoProcess \notin Processes

VARIABLES
    schema,      \* the definition of each object <<version, n>> that exists: the
                 \* checksum of the script that created it
    recorded,    \* schema_migrations: the checksum of every installed version
    lock,        \* the process in whose transaction the database is written
    pc,          \* where a process is in init_db
    applied,     \* what the process read from schema_migrations
    version,     \* the script it has reached
    statement,   \* the statement of that script it runs next
    writes, crashes

vars == <<schema, recorded, lock, pc, applied, version, statement, writes, crashes>>

Versions == 1 .. Last

\* _migration_files
Scripts(p) == 1 .. Release[p]

Objects(v) == {v} \X (1 .. Statements[v])

EmptyRecord == [v \in {} |-> {}]

Init ==
    /\ schema = EmptyRecord
    /\ recorded = EmptyRecord
    /\ lock = NoProcess
    /\ pc = [p \in Processes |-> "down"]
    /\ applied = [p \in Processes |-> EmptyRecord]
    /\ version = [p \in Processes |-> 1]
    /\ statement = [p \in Processes |-> 1]
    /\ writes = 0
    /\ crashes = 0

-----------------------------------------------------------------------------

Goto(p, label) == pc' = [pc EXCEPT ![p] = label]

\* A process starts, or opens its next connection; it reads the installed
\* versions once, before the loop over the scripts.
Connect(p) ==
    /\ pc[p] \in {"down", "ready"}
    /\ Goto(p, "loop")
    /\ applied' = [applied EXCEPT ![p] = recorded]
    /\ version' = [version EXCEPT ![p] = 1]
    /\ UNCHANGED <<schema, recorded, lock, statement, writes, crashes>>

\* Mutant: the checksum is not compared.
SkipAnyChecksum(p) ==
    /\ pc[p] = "loop"
    /\ version[p] \in Scripts(p) \cap DOMAIN applied[p]
    /\ version' = [version EXCEPT ![p] = @ + 1]
    /\ UNCHANGED <<schema, recorded, lock, pc, applied, statement, writes, crashes>>

\* The version is installed: only its checksum is compared.
Skip(p) ==
    /\ pc[p] = "loop"
    /\ version[p] \in Scripts(p) \cap DOMAIN applied[p]
    /\ applied[p][version[p]] = Checksum[p][version[p]]
    /\ version' = [version EXCEPT ![p] = @ + 1]
    /\ UNCHANGED <<schema, recorded, lock, pc, applied, statement, writes, crashes>>

\* RuntimeError: the script was changed after it had been installed.
Mismatch(p) ==
    /\ pc[p] = "loop"
    /\ version[p] \in Scripts(p) \cap DOMAIN applied[p]
    /\ applied[p][version[p]] # Checksum[p][version[p]]
    /\ Goto(p, "down")
    /\ UNCHANGED <<schema, recorded, lock, applied, version, statement, writes, crashes>>

\* Mutant: the scripts are taken in the order of the directory.
BeginScriptUnordered(p) ==
    /\ pc[p] = "loop"
    /\ version[p] \in Scripts(p) \ DOMAIN applied[p]
    /\ \E v \in Scripts(p) \ DOMAIN applied[p] : version' = [version EXCEPT ![p] = v]
    /\ Goto(p, "script")
    /\ statement' = [statement EXCEPT ![p] = 1]
    /\ UNCHANGED <<schema, recorded, lock, applied, writes, crashes>>

BeginScript(p) ==
    /\ pc[p] = "loop"
    /\ version[p] \in Scripts(p) \ DOMAIN applied[p]
    /\ Goto(p, "script")
    /\ statement' = [statement EXCEPT ![p] = 1]
    /\ UNCHANGED <<schema, recorded, lock, applied, version, writes, crashes>>

Create(object, definition) ==
    schema' = [o \in DOMAIN schema \cup {object} |->
                  IF o = object THEN definition ELSE schema[o]]

\* CREATE ... IF NOT EXISTS, committed at once.  It needs the write lock only
\* when there is something to create; whatever exists stays as it is, also when
\* another script has created it.
RunStatement(p) ==
    LET object == <<version[p], statement[p]>>
    IN /\ pc[p] = "script"
       /\ \/ object \in DOMAIN schema /\ UNCHANGED schema
          \/ /\ object \notin DOMAIN schema
             /\ lock = NoProcess
             /\ Create(object, Checksum[p][version[p]])
       /\ IF statement[p] = Statements[version[p]]
          THEN Goto(p, "insert") /\ UNCHANGED statement
          ELSE statement' = [statement EXCEPT ![p] = @ + 1] /\ UNCHANGED pc
       /\ UNCHANGED <<recorded, lock, applied, version, writes, crashes>>

InsertVersion(p) ==
    /\ pc[p] = "insert"
    /\ lock = NoProcess
    /\ version[p] \notin DOMAIN recorded
    /\ lock' = p
    /\ Goto(p, "commit")
    /\ UNCHANGED <<schema, recorded, applied, version, statement, writes, crashes>>

\* Mutant: the INSERT is tried again, without an end.
RetryInsert(p) ==
    /\ pc[p] = "insert"
    /\ lock = NoProcess
    /\ version[p] \in DOMAIN recorded
    /\ UNCHANGED vars

\* IntegrityError: another process has installed the version meanwhile.
InsertConflict(p) ==
    /\ pc[p] = "insert"
    /\ lock = NoProcess
    /\ version[p] \in DOMAIN recorded
    /\ Goto(p, "down")
    /\ UNCHANGED <<schema, recorded, lock, applied, version, statement, writes, crashes>>

Commit(p) ==
    /\ pc[p] = "commit"
    /\ recorded' = [v \in DOMAIN recorded \cup {version[p]} |->
                        IF v = version[p] THEN Checksum[p][v] ELSE recorded[v]]
    /\ lock' = NoProcess
    /\ Goto(p, "loop")
    /\ version' = [version EXCEPT ![p] = @ + 1]
    /\ UNCHANGED <<schema, applied, statement, writes, crashes>>

Finish(p) ==
    /\ pc[p] = "loop"
    /\ version[p] > Release[p]
    /\ Goto(p, "ready")
    /\ UNCHANGED <<schema, recorded, lock, applied, version, statement, writes, crashes>>

\* A connected process writes in a UnitOfWork of its own.
BeginWrite(p) ==
    /\ pc[p] = "ready"
    /\ lock = NoProcess
    /\ writes < MaxWrites
    /\ lock' = p
    /\ Goto(p, "writing")
    /\ writes' = writes + 1
    /\ UNCHANGED <<schema, recorded, applied, version, statement, crashes>>

EndWrite(p) ==
    /\ pc[p] = "writing"
    /\ lock' = NoProcess
    /\ Goto(p, "ready")
    /\ UNCHANGED <<schema, recorded, applied, version, statement, writes, crashes>>

\* Mutant: the error is swallowed, and the version recorded.
LockTimeoutRecords(p) ==
    /\ pc[p] = "script"
    /\ lock # NoProcess
    /\ <<version[p], statement[p]>> \notin DOMAIN schema
    /\ Goto(p, "insert")
    /\ UNCHANGED <<schema, recorded, lock, applied, version, statement, writes, crashes>>

\* busy_timeout runs out: OperationalError ends init_db.  The rollback has
\* nothing to undo, as the script commits statement by statement.
LockTimeout(p) ==
    /\ pc[p] \in {"script", "insert"}
    /\ lock # NoProcess
    /\ pc[p] = "script" => <<version[p], statement[p]>> \notin DOMAIN schema
    /\ Goto(p, "down")
    /\ UNCHANGED <<schema, recorded, lock, applied, version, statement, writes, crashes>>

\* The process is killed; its open transaction goes with it.
Crash(p) ==
    /\ crashes < MaxCrashes
    /\ pc[p] # "down"
    /\ Goto(p, "down")
    /\ lock' = IF lock = p THEN NoProcess ELSE lock
    /\ crashes' = crashes + 1
    /\ UNCHANGED <<schema, recorded, applied, version, statement, writes>>

-----------------------------------------------------------------------------

Step(p) ==
    \/ Connect(p)
    \/ Skip(p)
    \/ Mismatch(p)
    \/ BeginScript(p)
    \/ RunStatement(p)
    \/ InsertVersion(p)
    \/ InsertConflict(p)
    \/ Commit(p)
    \/ Finish(p)
    \/ EndWrite(p)

Next == \E p \in Processes : Step(p) \/ BeginWrite(p) \/ LockTimeout(p) \/ Crash(p)

Spec == Init /\ [][Next]_vars

\* A process that is scheduled goes on, and whoever runs the system starts a
\* process that has ended again.
FairSpec == Spec /\ \A p \in Processes : WF_vars(Step(p))

-----------------------------------------------------------------------------
(* Properties.                                                             *)

\* Tables, locks and process states are well-formed; the lock is held exactly
\* between the INSERT of a version and its commit, and while a process writes.
TypeOK ==
    /\ DOMAIN schema \subseteq UNION {Objects(v) : v \in Versions}
    /\ schema \in [DOMAIN schema -> Checksums]
    /\ DOMAIN recorded \subseteq Versions
    /\ recorded \in [DOMAIN recorded -> Checksums]
    /\ lock \in Processes \cup {NoProcess}
    /\ pc \in [Processes -> {"down", "loop", "script", "insert", "commit", "ready", "writing"}]
    /\ \A p \in Processes : pc[p] \in {"commit", "writing"} <=> lock = p
    /\ DOMAIN applied = Processes
    /\ version \in [Processes -> 1 .. Last + 1]
    /\ statement \in [Processes -> Nat \ {0}]
    /\ writes \in 0 .. MaxWrites
    /\ crashes \in 0 .. MaxCrashes

\* A version is recorded only when every object of its script exists, although
\* scripts are neither atomic nor run by one process alone.
RecordedIsComplete ==
    \A v \in DOMAIN recorded : Objects(v) \subseteq DOMAIN schema

\* Every release that has the script has it unchanged.
Unchanged(v) ==
    \A p, q \in Processes : v \in Scripts(p) \cap Scripts(q) => Checksum[p][v] = Checksum[q][v]

\* A process gets a connection, and writes, only to a database in which every
\* script of its release is recorded with the checksum it has in that release and
\* every object of it exists, as that script defines it unless other releases have
\* a changed one.
ReadyIsMigrated ==
    \A p \in Processes : pc[p] \in {"ready", "writing"} =>
        \A v \in Scripts(p) :
            /\ v \in DOMAIN recorded /\ recorded[v] = Checksum[p][v]
            /\ \A object \in Objects(v) :
                /\ object \in DOMAIN schema
                /\ Unchanged(v) => schema[object] = Checksum[p][v]

\* The versions are installed in their order: no gap below an installed one.
NoGap ==
    \A v \in DOMAIN recorded : 1 .. v \subseteq DOMAIN recorded

\* Every process whose release agrees with what is installed gets its connection
\* again and again, in spite of crashes, races for a version and lock timeouts.
EverybodyConnects ==
    \A p \in Processes :
        []<>(pc[p] = "ready" \/ \E v \in Scripts(p) \cap DOMAIN recorded :
                                    recorded[v] # Checksum[p][v])

=============================================================================
