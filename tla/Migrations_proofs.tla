-------------------------- MODULE Migrations_proofs --------------------------
(***************************************************************************)
(* Proofs about Migrations for any number of processes, scripts and        *)
(* statements, and for any mix of releases.                                *)
(***************************************************************************)
EXTENDS Migrations, TLAPS

Below(v) == 1 .. v - 1

\* What a process may rely on at each point of init_db.  Its copy of
\* schema_migrations grows stale but never wrong, as rows are only added.
Reached(p) ==
    /\ pc[p] \in {"loop", "script", "insert", "commit"} =>
        /\ DOMAIN applied[p] \subseteq DOMAIN recorded
        /\ \A v \in DOMAIN applied[p] : applied[p][v] = recorded[v]
        /\ \A v \in Below(version[p]) :
            v \in DOMAIN recorded /\ recorded[v] = Checksum[p][v]
    /\ pc[p] \in {"script", "insert", "commit"} => version[p] \in Scripts(p)
    /\ pc[p] = "script" =>
        /\ statement[p] <= Statements[version[p]]
        /\ \A n \in 1 .. statement[p] - 1 : <<version[p], n>> \in DOMAIN schema
    /\ pc[p] \in {"insert", "commit"} => Objects(version[p]) \subseteq DOMAIN schema
    /\ pc[p] = "commit" => version[p] \notin DOMAIN recorded
    /\ pc[p] \in {"ready", "writing"} =>
        \A v \in Scripts(p) : v \in DOMAIN recorded /\ recorded[v] = Checksum[p][v]

\* An object is as the script of some release defines it.
FromScripts ==
    \A v \in Versions : \A object \in Objects(v) : object \in DOMAIN schema =>
        \E p \in Processes : v \in Scripts(p) /\ schema[object] = Checksum[p][v]

\* The inductive invariant.
Installing ==
    /\ TypeOK
    /\ FromScripts
    /\ RecordedIsComplete
    /\ NoGap
    /\ \A p \in Processes : Reached(p)

-----------------------------------------------------------------------------

\* No process but p has moved, objects and version rows were only added, and no
\* row while another process holds the lock: what the others rely on is kept.
LEMMA OthersKeep ==
    ASSUME NEW q \in Processes, Reached(q), TypeOK,
           pc'[q] = pc[q], applied'[q] = applied[q],
           version'[q] = version[q], statement'[q] = statement[q],
           DOMAIN schema \subseteq DOMAIN schema',
           DOMAIN recorded \subseteq DOMAIN recorded',
           DOMAIN recorded' \subseteq Versions,
           \A v \in DOMAIN recorded : recorded'[v] = recorded[v],
           pc[q] = "commit" => DOMAIN recorded' = DOMAIN recorded
    PROVE  Reached(q)'
  BY DEF Reached, Below

\* The scripts of a release are among the versions.
LEMMA ScriptsAreVersions ==
    ASSUME NEW p \in Processes
    PROVE  Scripts(p) \subseteq Versions /\ Release[p] \in Nat
  BY MigrationsAssumption DEF Scripts, Versions

\* The initial state satisfies the invariant.
LEMMA InstallingInit == Init => Installing
  <1> SUFFICES ASSUME Init PROVE Installing
    OBVIOUS
  <1> USE MigrationsAssumption
  <1>1. TypeOK
    BY DEF Init, TypeOK, EmptyRecord
  <1>2. RecordedIsComplete /\ NoGap /\ FromScripts
    BY DEF Init, RecordedIsComplete, NoGap, FromScripts, EmptyRecord
  <1>3. \A p \in Processes : Reached(p)
    BY DEF Init, Reached
  <1> QED
    BY <1>1, <1>2, <1>3 DEF Installing

\* A step that leaves schema and version rows alone leaves to prove only what
\* the process that takes it relies on next.
LEMMA LocalStep ==
    ASSUME Installing, TypeOK', NEW p \in Processes,
           UNCHANGED <<schema, recorded>>, Reached(p)',
           \A q \in Processes \ {p} :
                /\ pc'[q] = pc[q] /\ applied'[q] = applied[q]
                /\ version'[q] = version[q] /\ statement'[q] = statement[q]
    PROVE  Installing'
  <1>1. RecordedIsComplete' /\ NoGap' /\ FromScripts'
    BY DEF Installing, RecordedIsComplete, NoGap, FromScripts
  <1>2. ASSUME NEW q \in Processes, q # p PROVE Reached(q)'
    BY <1>2, OthersKeep DEF Installing, TypeOK
  <1> QED
    BY <1>1, <1>2 DEF Installing

\* A process that connects reads every version row there is.
LEMMA ConnectStep ==
    ASSUME Installing, NEW p \in Processes, Connect(p)
    PROVE  Installing'
  <1>1. TypeOK'
    <2>1. pc' = [pc EXCEPT ![p] = "loop"] /\ pc[p] \notin {"commit", "writing"}
      BY DEF Goto, Connect
    <2>2. /\ pc' \in [Processes -> {"down", "loop", "script", "insert", "commit", "ready", "writing"}]
          /\ \A q \in Processes : pc'[q] \in {"commit", "writing"} <=> pc[q] \in {"commit", "writing"}
      BY <2>1 DEF Installing, TypeOK
    <2>3. version' \in [Processes -> 1 .. Last + 1] /\ DOMAIN applied' = Processes
      BY MigrationsAssumption DEF Installing, TypeOK, Connect
    <2> QED
      BY <2>2, <2>3 DEF Installing, TypeOK, Connect
  <1>2. Reached(p)'
    <2>1. /\ pc'[p] = "loop" /\ version'[p] = 1
          /\ applied'[p] = recorded /\ recorded' = recorded
      BY DEF Installing, TypeOK, Goto, Connect
    <2>2. Below(1) = {}
      BY DEF Below
    <2> QED
      BY <2>1, <2>2 DEF Reached
  <1> QED
    BY <1>1, <1>2, LocalStep DEF Installing, TypeOK, Goto, Connect

\* The version passed over is recorded with the checksum of the release.
LEMMA SkipStep ==
    ASSUME Installing, NEW p \in Processes, Skip(p)
    PROVE  Installing'
  <1>1. /\ TypeOK /\ Reached(p)
        /\ pc[p] = "loop" /\ pc' = pc
        /\ version[p] \in Versions /\ version[p] \in DOMAIN applied[p]
        /\ applied[p][version[p]] = Checksum[p][version[p]]
        /\ version' = [version EXCEPT ![p] = @ + 1]
        /\ UNCHANGED <<schema, recorded, lock, applied, statement, writes, crashes>>
    BY ScriptsAreVersions DEF Installing, Skip
  <1>2. TypeOK'
    <2>1. version[p] + 1 \in 1 .. Last + 1
      BY <1>1, MigrationsAssumption DEF Versions
    <2> QED
      BY <1>1, <2>1 DEF TypeOK
  <1>3. Reached(p)'
    <2>1. version'[p] = version[p] + 1
      BY <1>1 DEF TypeOK
    <2>2. \A v \in Below(version[p] + 1) : v \in Below(version[p]) \/ v = version[p]
      BY <1>1, MigrationsAssumption DEF Versions, Below
    <2>3. \A v \in Below(version'[p]) :
            v \in DOMAIN recorded' /\ recorded'[v] = Checksum[p][v]
      BY <1>1, <2>1, <2>2 DEF Reached
    <2> QED
      BY <1>1, <2>3 DEF Reached
  <1> QED
    BY <1>1, <1>2, <1>3, LocalStep DEF TypeOK

\* A process that raises leaves everything behind as it is.
LEMMA DownStep ==
    ASSUME Installing, NEW p \in Processes, (Mismatch(p) \/ InsertConflict(p) \/ LockTimeout(p))
    PROVE  Installing'
  <1>1. TypeOK'
    <2>1. CASE Mismatch(p)
      BY <2>1 DEF Installing, TypeOK, Goto, Mismatch
    <2>2. CASE InsertConflict(p)
      BY <2>2 DEF Installing, TypeOK, Goto, InsertConflict
    <2>3. CASE LockTimeout(p)
      BY <2>3 DEF Installing, TypeOK, Goto, LockTimeout
    <2> QED
      BY <2>1, <2>2, <2>3
  <1>2. Reached(p)'
    <2>1. pc'[p] = "down"
      BY DEF Installing, TypeOK, Goto, Mismatch, InsertConflict, LockTimeout
    <2> QED
      BY <2>1 DEF Reached
  <1> QED
    BY <1>1, <1>2, LocalStep DEF Installing, TypeOK, Goto, Mismatch, InsertConflict, LockTimeout

\* A script begins before its first statement.
LEMMA BeginStep ==
    ASSUME Installing, NEW p \in Processes, BeginScript(p)
    PROVE  Installing'
  <1>1. TypeOK'
    <2>1. /\ TypeOK /\ pc[p] = "loop"
          /\ pc' = [pc EXCEPT ![p] = "script"]
          /\ statement' = [statement EXCEPT ![p] = 1]
          /\ UNCHANGED <<schema, recorded, lock, applied, version, writes, crashes>>
      BY DEF Installing, Goto, BeginScript
    <2> QED
      BY <2>1 DEF TypeOK
  <1>2. Reached(p)'
    <2>1. Statements[version[p]] \in Nat \ {0}
      BY MigrationsAssumption, ScriptsAreVersions DEF BeginScript, Versions
    <2>2. /\ pc'[p] = "script" /\ statement'[p] = 1
          /\ version[p] \in Scripts(p)
          /\ UNCHANGED <<schema, recorded, applied, version>>
      BY DEF Installing, TypeOK, Goto, BeginScript
    <2>3. pc[p] = "loop" /\ Reached(p)
      BY DEF Installing, BeginScript
    <2> QED
      BY <2>1, <2>2, <2>3 DEF Reached
  <1> QED
    BY <1>1, <1>2, LocalStep DEF Installing, TypeOK, Goto, BeginScript

\* The row of a version is written by the one process that holds the lock.
LEMMA InsertStep ==
    ASSUME Installing, NEW p \in Processes, InsertVersion(p)
    PROVE  Installing'
  <1>1. TypeOK'
    BY MigrationsAssumption DEF Installing, TypeOK, Goto, InsertVersion
  <1>2. Reached(p)'
    <2>1. /\ Reached(p) /\ pc[p] = "insert" /\ pc'[p] = "commit"
          /\ version[p] \notin DOMAIN recorded
          /\ UNCHANGED <<schema, recorded, applied, version>>
      BY DEF Installing, TypeOK, Goto, InsertVersion
    <2> QED
      BY <2>1 DEF Reached
  <1> QED
    BY <1>1, <1>2, LocalStep DEF Installing, TypeOK, Goto, InsertVersion

\* After the last script of its release a process has seen all of them recorded.
LEMMA FinishStep ==
    ASSUME Installing, NEW p \in Processes, Finish(p)
    PROVE  Installing'
  <1>1. TypeOK'
    BY DEF Installing, TypeOK, Goto, Finish
  <1>2. Scripts(p) \subseteq Below(version[p])
    BY ScriptsAreVersions DEF Installing, TypeOK, Finish, Scripts, Below
  <1>3. /\ pc'[p] = "ready"
        /\ \A v \in Scripts(p) : v \in DOMAIN recorded /\ recorded[v] = Checksum[p][v]
    BY <1>2 DEF Installing, Reached, TypeOK, Goto, Finish
  <1>4. Reached(p)'
    BY <1>3 DEF Reached, Finish
  <1> QED
    BY <1>1, <1>4, LocalStep DEF Installing, TypeOK, Goto, Finish

\* A connected process relies on the same while it writes.
LEMMA WriteStep ==
    ASSUME Installing, NEW p \in Processes, BeginWrite(p) \/ EndWrite(p)
    PROVE  Installing'
  <1>1. TypeOK'
    <2>1. CASE BeginWrite(p)
      <3>1. pc' = [pc EXCEPT ![p] = "writing"] /\ lock = NoProcess /\ lock' = p
        BY <2>1 DEF Goto, BeginWrite
      <3>2. /\ pc' \in [Processes -> {"down", "loop", "script", "insert", "commit", "ready", "writing"}]
            /\ \A q \in Processes : pc'[q] \in {"commit", "writing"} <=> lock' = q
        BY <3>1, MigrationsAssumption DEF Installing, TypeOK
      <3>3. writes' \in 0 .. MaxWrites /\ lock' \in Processes
        BY <2>1, MigrationsAssumption DEF Installing, TypeOK, BeginWrite
      <3> QED
        BY <2>1, <3>2, <3>3 DEF Installing, TypeOK, BeginWrite
    <2>2. CASE EndWrite(p)
      <3>1. pc' = [pc EXCEPT ![p] = "ready"] /\ lock = p /\ lock' = NoProcess
        BY <2>2 DEF Installing, TypeOK, Goto, EndWrite
      <3>2. /\ pc' \in [Processes -> {"down", "loop", "script", "insert", "commit", "ready", "writing"}]
            /\ \A q \in Processes : pc'[q] \in {"commit", "writing"} <=> lock' = q
        BY <3>1, MigrationsAssumption DEF Installing, TypeOK
      <3> QED
        BY <2>2, <3>1, <3>2 DEF Installing, TypeOK, EndWrite
    <2> QED
      BY <2>1, <2>2
  <1>2. /\ pc[p] \in {"ready", "writing"} /\ pc'[p] \in {"ready", "writing"}
        /\ UNCHANGED recorded
    BY DEF Installing, TypeOK, Goto, BeginWrite, EndWrite
  <1>3. Reached(p)'
    BY <1>2 DEF Installing, Reached
  <1> QED
    BY <1>1, <1>3, LocalStep DEF Installing, TypeOK, Goto, BeginWrite, EndWrite

\* A killed process loses the lock and relies on nothing.
LEMMA CrashStep ==
    ASSUME Installing, NEW p \in Processes, Crash(p)
    PROVE  Installing'
  <1>1. TypeOK'
    <2>1. /\ TypeOK
          /\ pc' = [pc EXCEPT ![p] = "down"]
          /\ lock' = IF lock = p THEN NoProcess ELSE lock
          /\ crashes' = crashes + 1 /\ crashes < MaxCrashes
          /\ UNCHANGED <<schema, recorded, applied, version, statement, writes>>
      BY DEF Installing, Goto, Crash
    <2>2. /\ pc' \in [Processes ->
                      {"down", "loop", "script", "insert", "commit", "ready", "writing"}]
          /\ \A q \in Processes : pc'[q] \in {"commit", "writing"} <=> lock' = q
          /\ lock' \in Processes \cup {NoProcess}
      BY <2>1, MigrationsAssumption DEF TypeOK
    <2>3. crashes' \in 0 .. MaxCrashes
      BY <2>1, MigrationsAssumption DEF TypeOK
    <2> QED
      BY <2>1, <2>2, <2>3 DEF TypeOK
  <1>2. Reached(p)'
    <2>1. pc'[p] = "down"
      BY DEF Installing, TypeOK, Goto, Crash
    <2> QED
      BY <2>1 DEF Reached
  <1> QED
    BY <1>1, <1>2, LocalStep DEF Installing, TypeOK, Goto, Crash

\* One more object never hurts; after the last one the script is complete.
LEMMA StatementStep ==
    ASSUME Installing, NEW p \in Processes, RunStatement(p)
    PROVE  Installing'
  <1> DEFINE object == <<version[p], statement[p]>>
  <1>1. /\ TypeOK /\ Reached(p)
        /\ version[p] \in Versions
        /\ statement[p] \in 1 .. Statements[version[p]]
        /\ Statements[version[p]] \in Nat
        /\ \A n \in 1 .. statement[p] - 1 : <<version[p], n>> \in DOMAIN schema
        /\ version[p] \in Scripts(p)
        /\ Checksum[p][version[p]] \in Checksums
    <2>1. TypeOK /\ Reached(p) /\ pc[p] = "script"
      BY DEF Installing, RunStatement
    <2>2. version[p] \in Scripts(p) /\ version[p] \in Versions
      BY <2>1, ScriptsAreVersions DEF Reached
    <2>3. Statements[version[p]] \in Nat /\ Checksum[p][version[p]] \in Checksums
      BY <2>2, MigrationsAssumption DEF Versions
    <2>4. /\ statement[p] \in 1 .. Statements[version[p]]
          /\ \A n \in 1 .. statement[p] - 1 : <<version[p], n>> \in DOMAIN schema
      BY <2>1, <2>3 DEF Reached, TypeOK
    <2> QED
      BY <2>1, <2>2, <2>3, <2>4
  <1>2. /\ DOMAIN schema' = DOMAIN schema \cup {object} /\ recorded' = recorded
        /\ \A o \in DOMAIN schema : schema'[o] = schema[o]
        /\ object \notin DOMAIN schema => schema'[object] = Checksum[p][version[p]]
        /\ schema' \in [DOMAIN schema' -> Checksums]
    <2>1. CASE object \in DOMAIN schema
      <3>1. schema' = schema /\ recorded' = recorded
        BY <2>1 DEF RunStatement
      <3> QED
        BY <1>1, <2>1, <3>1 DEF TypeOK
    <2>2. CASE object \notin DOMAIN schema
      <3>1. /\ recorded' = recorded
            /\ schema' = [o \in DOMAIN schema \cup {object} |->
                            IF o = object THEN Checksum[p][version[p]] ELSE schema[o]]
        BY <2>2 DEF RunStatement, Create
      <3> HIDE DEF object
      <3> QED
        BY <1>1, <2>2, <3>1 DEF TypeOK
    <2> QED
      BY <2>1, <2>2
  <1>3. object \in Objects(version[p])
    BY <1>1 DEF Objects
  <1>4. TypeOK'
    <2>1. DOMAIN schema' \subseteq UNION {Objects(v) : v \in Versions}
      BY <1>1, <1>2, <1>3 DEF TypeOK
    <2> QED
      BY <1>1, <1>2, <2>1 DEF TypeOK, RunStatement, Goto
  <1>5. RecordedIsComplete' /\ NoGap'
    BY <1>2 DEF Installing, RecordedIsComplete, NoGap
  <1>8. FromScripts'
    <2> SUFFICES ASSUME NEW v \in Versions, NEW o \in Objects(v), o \in DOMAIN schema'
                 PROVE  \E q \in Processes : v \in Scripts(q) /\ schema'[o] = Checksum[q][v]
      BY DEF FromScripts
    <2>1. CASE o \in DOMAIN schema
      BY <1>2, <2>1 DEF Installing, FromScripts
    <2>2. CASE o \notin DOMAIN schema
      <3>1. o = object
        BY <1>2, <2>2
      <3>2. v = version[p]
        BY <3>1 DEF Objects
      <3> QED
        BY <1>1, <1>2, <2>2, <3>1, <3>2
    <2> QED
      BY <2>1, <2>2
  <1>6. Reached(p)'
    <2>1. CASE statement[p] = Statements[version[p]]
      <3>1. Objects(version[p]) \subseteq DOMAIN schema'
        BY <1>1, <1>2, <2>1 DEF Objects
      <3>2. pc'[p] = "insert"
        BY <1>1, <2>1 DEF TypeOK, RunStatement, Goto
      <3> QED
        BY <1>1, <1>2, <3>1, <3>2 DEF Reached, RunStatement
    <2>2. CASE statement[p] # Statements[version[p]]
      <3>1. pc'[p] = "script" /\ statement'[p] = statement[p] + 1
        BY <1>1, <2>2 DEF TypeOK, RunStatement, Goto
      <3>2. statement'[p] <= Statements[version[p]]
        BY <1>1, <2>2, <3>1
      <3>3. \A n \in 1 .. statement'[p] - 1 : <<version[p], n>> \in DOMAIN schema'
        BY <1>1, <1>2, <3>1
      <3> QED
        BY <1>1, <1>2, <3>1, <3>2, <3>3 DEF Reached, RunStatement
    <2> QED
      BY <2>1, <2>2
  <1>7. ASSUME NEW q \in Processes, q # p PROVE Reached(q)'
    BY <1>2, <1>7, OthersKeep DEF Installing, TypeOK, RunStatement, Goto
  <1> QED
    BY <1>4, <1>5, <1>6, <1>7, <1>8 DEF Installing

\* The version recorded is complete, has no gap below it and was not recorded
\* before; the other processes are not about to record anything.
LEMMA CommitStep ==
    ASSUME Installing, NEW p \in Processes, Commit(p)
    PROVE  Installing'
  <1> DEFINE v0 == version[p]
  <1>1. /\ TypeOK /\ Reached(p) /\ pc[p] = "commit" /\ lock = p
        /\ v0 \in Versions /\ v0 \notin DOMAIN recorded
        /\ Objects(v0) \subseteq DOMAIN schema
        /\ Below(v0) \subseteq DOMAIN recorded
    BY ScriptsAreVersions DEF Installing, Reached, TypeOK, Commit
  <1>2. /\ schema' = schema
        /\ DOMAIN recorded' = DOMAIN recorded \cup {v0}
        /\ recorded'[v0] = Checksum[p][v0]
        /\ \A v \in DOMAIN recorded : recorded'[v] = recorded[v]
    BY <1>1 DEF Commit
  <1>3. Checksum[p][v0] \in Checksums
    BY <1>1, MigrationsAssumption DEF Versions
  <1>4. /\ DOMAIN recorded' \subseteq Versions
        /\ recorded' \in [DOMAIN recorded' -> Checksums]
    BY <1>1, <1>2, <1>3 DEF TypeOK, Commit
  <1>5. /\ pc' = [pc EXCEPT ![p] = "loop"]
        /\ version' = [version EXCEPT ![p] = v0 + 1]
        /\ lock' = NoProcess
        /\ UNCHANGED <<applied, statement, writes, crashes>>
    BY DEF Commit, Goto
  <1>6. TypeOK'
    <2>1. v0 + 1 \in 1 .. Last + 1
      BY <1>1, MigrationsAssumption DEF Versions
    <2>2. \A q \in Processes : pc'[q] \in {"commit", "writing"} <=> lock' = q
      BY <1>1, <1>5, MigrationsAssumption DEF TypeOK
    <2> QED
      BY <1>1, <1>2, <1>4, <1>5, <2>1, <2>2 DEF TypeOK
  <1>7. RecordedIsComplete'
    BY <1>1, <1>2 DEF Installing, RecordedIsComplete, Objects
  <1>11. FromScripts'
    BY <1>2 DEF Installing, FromScripts
  <1>8. NoGap'
    <2>1. 1 .. v0 \subseteq DOMAIN recorded'
      BY <1>1, <1>2 DEF Versions, Below
    <2> QED
      BY <1>2, <2>1 DEF Installing, NoGap
  <1>9. Reached(p)'
    <2>1. pc'[p] = "loop" /\ version'[p] = v0 + 1
      BY <1>1, <1>5 DEF TypeOK
    <2>2. \A v \in Below(v0 + 1) : v \in Below(v0) \/ v = v0
      BY <1>1, MigrationsAssumption DEF Versions, Below
    <2>3. \A v \in Below(version'[p]) :
            v \in DOMAIN recorded' /\ recorded'[v] = Checksum[p][v]
      BY <1>1, <1>2, <2>1, <2>2 DEF Reached
    <2>4. /\ DOMAIN applied'[p] \subseteq DOMAIN recorded'
          /\ \A v \in DOMAIN applied'[p] : applied'[p][v] = recorded'[v]
      BY <1>1, <1>2, <1>5 DEF Reached
    <2> QED
      BY <2>1, <2>3, <2>4 DEF Reached
  <1>10. ASSUME NEW q \in Processes, q # p PROVE Reached(q)'
    <2>1. /\ pc'[q] = pc[q] /\ applied'[q] = applied[q]
          /\ version'[q] = version[q] /\ statement'[q] = statement[q]
      BY <1>1, <1>5, <1>10 DEF TypeOK
    <2>2. pc[q] # "commit"
      BY <1>1, <1>10 DEF TypeOK
    <2>3. Reached(q)
      BY DEF Installing
    <2> QED
      BY <1>1, <1>2, <1>4, <2>1, <2>2, <2>3, OthersKeep
  <1> QED
    BY <1>6, <1>7, <1>8, <1>9, <1>10, <1>11 DEF Installing

-----------------------------------------------------------------------------

\* Every step keeps the invariant.
LEMMA InstallingNext == Installing /\ [Next]_vars => Installing'
  <1> SUFFICES ASSUME Installing, [Next]_vars PROVE Installing'
    OBVIOUS
  <1>1. CASE Next
    <2>1. PICK p \in Processes : Step(p) \/ BeginWrite(p) \/ LockTimeout(p) \/ Crash(p)
      BY <1>1 DEF Next
    <2> QED
      BY <2>1, ConnectStep, SkipStep, DownStep, BeginStep, StatementStep,
         InsertStep, CommitStep, FinishStep, WriteStep, CrashStep DEF Step
  <1>2. CASE UNCHANGED vars
    BY <1>2 DEF vars, Installing, TypeOK, RecordedIsComplete, NoGap, FromScripts, Reached
  <1> QED
    BY <1>1, <1>2

\* Every reachable state satisfies the inductive invariant.
THEOREM InstallingCorrect == Spec => []Installing
  BY InstallingInit, InstallingNext, PTL DEF Spec

\* Version rows never run ahead of the scripts, in spite of scripts that are
\* neither atomic nor run by one process alone.
THEOREM RecordedCorrect == Spec => []RecordedIsComplete
  <1>1. Installing => RecordedIsComplete
    BY DEF Installing
  <1> QED
    BY <1>1, InstallingCorrect, PTL

\* The versions are installed in their order.
THEOREM OrderCorrect == Spec => []NoGap
  <1>1. Installing => NoGap
    BY DEF Installing
  <1> QED
    BY <1>1, InstallingCorrect, PTL

\* Whoever has a connection has it to a database in which the scripts of its
\* release are recorded with its checksums and complete, although it has looked
\* at the version rows only once, before the loop; and a script that no release
\* has changed is installed as it is.
THEOREM ReadyCorrect == Spec => []ReadyIsMigrated
  <1>1. ASSUME Installing PROVE ReadyIsMigrated
    <2> SUFFICES ASSUME NEW p \in Processes, pc[p] \in {"ready", "writing"}, NEW v \in Scripts(p)
                 PROVE  /\ v \in DOMAIN recorded /\ recorded[v] = Checksum[p][v]
                        /\ \A object \in Objects(v) :
                            /\ object \in DOMAIN schema
                            /\ Unchanged(v) => schema[object] = Checksum[p][v]
      BY DEF ReadyIsMigrated
    <2>1. v \in DOMAIN recorded /\ recorded[v] = Checksum[p][v]
      BY <1>1 DEF Installing, Reached
    <2>2. Objects(v) \subseteq DOMAIN schema
      BY <1>1, <2>1 DEF Installing, RecordedIsComplete
    <2>3. ASSUME NEW object \in Objects(v), Unchanged(v) PROVE schema[object] = Checksum[p][v]
      <3>1. PICK q \in Processes : v \in Scripts(q) /\ schema[object] = Checksum[q][v]
        BY <1>1, <2>2, ScriptsAreVersions DEF Installing, FromScripts
      <3> QED
        BY <2>3, <3>1 DEF Unchanged
    <2> QED
      BY <2>1, <2>2, <2>3
  <1> QED
    BY <1>1, InstallingCorrect, PTL

=============================================================================
