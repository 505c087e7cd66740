------------------------------ MODULE MediaStore ------------------------------
(***************************************************************************)
(* xnative/media/media_store.py: media files under content-addressed paths *)
(* and the manifest beside them, one JSON document that every call loads,  *)
(* changes and replaces atomically.                                        *)
(*                                                                         *)
(* The calls follow one another: nothing in the repository calls the store *)
(* from two places at once.  But a call is several effects on the disk, and *)
(* the process may die, or the disk fill up, between any two of them.      *)
(*                                                                         *)
(* Every caller names its reference; a missing source file and a dry run   *)
(* change nothing and are stuttering steps.                                *)
(***************************************************************************)
EXTENDS Integers, FiniteSets, FiniteSetsExt

CONSTANTS
    Contents,    \* what exact_sha256 tells apart
    FileSuffixes,    \* file name suffixes a source of one content may have
    SizeOf,      \* bytes of a content; a source may be empty
    RefIds,      \* reference_id, one per logical attachment
    Urls,        \* remote media found to be gone
    Policies,    \* storage_policy; only "original" is told apart from the others
    TTLs,        \* ttl_seconds of a retention policy, Never for None
    Targets,     \* target_bytes of a collection
    Never, NoPath,
    MaxTime,     \* bound: the clock of a bounded run
    MaxCrashes   \* bound: calls that die

ASSUME MediaStoreAssumption ==
    /\ SizeOf \in [Contents -> Nat]
    /\ TTLs \subseteq Nat \cup {Never}
    /\ Targets \subseteq Nat
    /\ Never \notin Nat
    /\ NoPath \notin FileSuffixes
    /\ MaxTime \in Nat
    /\ MaxCrashes \in Nat

VARIABLES
    files,     \* bytes in each file that exists, by path
    manifest,  \* the saved document
    call,      \* the call in progress
    clock,
    crashes

vars == <<files, manifest, call, clock, crashes>>

\* deleted stands for local_deleted_at, local_deleted_reason and the
\* availability "metadata_only", which are set together.
Entry ==
    [path    : FileSuffixes \cup {NoPath},
     size    : Nat,
     refs    : SUBSET RefIds,
     used    : Nat,
     policy  : Policies,
     expires : Nat \cup {Never},
     deleted : BOOLEAN]

EmptyTable == [c \in {} |-> {}]

Idle == [op |-> "idle"]

Init ==
    /\ files = EmptyTable
    /\ manifest = [files |-> EmptyTable, remote |-> {}]
    /\ call = Idle
    /\ clock = 0
    /\ crashes = 0

Put(f, x, y) == [z \in DOMAIN f \cup {x} |-> IF z = x THEN y ELSE f[z]]

Drop(f, x) == [z \in DOMAIN f \ {x} |-> f[z]]

-----------------------------------------------------------------------------
(* store_local_media                                                       *)

\* A file at the content's path is taken for the content.  Otherwise the copy
\* begins with an empty file, which is all there is to copy of an empty source.
StoreBegins(c, s, r, policy, ttl) ==
    LET duplicate == <<c, s>> \in DOMAIN files
    IN /\ call = Idle
       /\ call' = [op      |-> IF duplicate \/ SizeOf[c] = 0 THEN "save" ELSE "copy",
                   content |-> c,
                   suffix  |-> s,
                   ref     |-> r,
                   policy  |-> policy,
                   now     |-> clock,
                   expires |-> IF ttl = Never THEN Never ELSE clock + ttl]
       /\ files' = IF duplicate THEN files ELSE Put(files, <<c, s>>, 0)
       /\ UNCHANGED <<manifest, clock, crashes>>

\* shutil.copy2 writes the file piece by piece.
CopyOn ==
    LET path == <<call.content, call.suffix>>
    IN /\ call.op = "copy"
       /\ files' = [files EXCEPT ![path] = @ + 1]
       /\ call' = IF files'[path] = SizeOf[call.content]
                  THEN [call EXCEPT !.op = "save"]
                  ELSE call
       /\ UNCHANGED <<manifest, clock, crashes>>

NewEntry == [refs |-> {}, deleted |-> FALSE]

\* The entry of an earlier time keeps its references and its traces of a
\* deletion; everything else is written anew.
StoredEntry(old) ==
    [path    |-> call.suffix,
     size    |-> files[<<call.content, call.suffix>>],
     refs    |-> old.refs \cup {call.ref},
     used    |-> call.now,
     policy  |-> call.policy,
     expires |-> call.expires,
     deleted |-> old.deleted]

StoreEnds ==
    LET c == call.content
        old == IF c \in DOMAIN manifest.files THEN manifest.files[c] ELSE NewEntry
    IN /\ call.op = "save"
       /\ manifest' = [manifest EXCEPT !.files = Put(@, c, StoredEntry(old))]
       /\ call' = Idle
       /\ UNCHANGED <<files, clock, crashes>>

-----------------------------------------------------------------------------
(* release_local_media, record_remote_media_snapshot                       *)

Release(c, r) ==
    /\ call = Idle
    /\ c \in DOMAIN manifest.files
    /\ manifest' = [manifest EXCEPT !.files[c].refs = @ \ {r},
                                    !.files[c].used = clock]
    /\ UNCHANGED <<files, call, clock, crashes>>

RecordSnapshot(u) ==
    /\ call = Idle
    /\ manifest' = [manifest EXCEPT !.remote = @ \cup {u}]
    /\ UNCHANGED <<files, call, clock, crashes>>

-----------------------------------------------------------------------------
(* garbage_collect_media                                                   *)

Expired(e, now) == e.expires # Never /\ e.expires <= now

Bytes(table) == MapThenSumSet(LAMBDA c : table[c].size, DOMAIN table)

\* Mutant: a referenced file goes as well.
CollectableReferenced(e, now) ==
    /\ e.size > 0
    /\ Expired(e, now) \/ e.policy # "original"

Collectable(e, now) ==
    /\ e.size > 0
    /\ Expired(e, now) \/ (e.refs = {} /\ e.policy # "original")

\* Expired entries first, then the least recently used; ties fall as they may.
GoesBefore(table, now, c, d) ==
    LET x == Expired(table[c], now)
        y == Expired(table[d], now)
    IN (x /\ ~y) \/ (x = y /\ table[c].used < table[d].used)

CollectBegins(target) ==
    /\ call = Idle
    /\ call' = [op     |-> "collect",
                now    |-> clock,
                target |-> target,
                table  |-> manifest,
                bytes  |-> Bytes(manifest.files),
                todo   |-> {c \in DOMAIN manifest.files :
                                Collectable(manifest.files[c], clock)}]
    /\ UNCHANGED <<files, manifest, clock, crashes>>

\* Mutant: the quota stops the collection also in front of an expired entry.
EnoughAtOnce == call.bytes <= call.target

\* Only the quota stops a collection, and only at an entry that has not expired.
Enough ==
    /\ call.bytes <= call.target
    /\ \A c \in call.todo : ~Expired(call.table.files[c], call.now)

\* Mutants: the entry of a referenced content goes as well, or is left as it was.
CollectedAltogether(t, c) == Drop(t, c)

CollectedUnreferenced(t, c) == IF t[c].refs = {} THEN Drop(t, c) ELSE t

\* A referenced entry stays as the record of what was there.
Collected(t, c) ==
    IF t[c].refs = {}
    THEN Drop(t, c)
    ELSE Put(t, c, [t[c] EXCEPT !.path = NoPath, !.size = 0, !.deleted = TRUE])

\* The file goes at once, its entry in memory only.
CollectOne(c) ==
    LET entries == call.table.files
        e == entries[c]
    IN /\ call.op = "collect"
       /\ c \in call.todo
       /\ \A d \in call.todo : ~GoesBefore(entries, call.now, d, c)
       /\ ~Enough
       /\ files' = Drop(files, <<c, e.path>>)
       /\ call' = [call EXCEPT
                        !.table.files = Collected(@, c),
                        !.bytes = @ - e.size,
                        !.todo = @ \ {c}]
       /\ UNCHANGED <<manifest, clock, crashes>>

CollectEnds ==
    /\ call.op = "collect"
    /\ call.todo = {} \/ Enough
    /\ manifest' = call.table
    /\ call' = Idle
    /\ UNCHANGED <<files, clock, crashes>>

-----------------------------------------------------------------------------

\* The process dies, or an OSError ends the call: nothing is undone.
CallDies ==
    /\ call # Idle
    /\ crashes < MaxCrashes
    /\ call' = Idle
    /\ crashes' = crashes + 1
    /\ UNCHANGED <<files, manifest, clock>>

TimePasses ==
    /\ clock < MaxTime
    /\ clock' = clock + 1
    /\ UNCHANGED <<files, manifest, call, crashes>>

Next ==
    \/ \E c \in Contents, s \in FileSuffixes, r \in RefIds, policy \in Policies, ttl \in TTLs :
            StoreBegins(c, s, r, policy, ttl)
    \/ CopyOn
    \/ StoreEnds
    \/ \E c \in Contents, r \in RefIds : Release(c, r)
    \/ \E u \in Urls : RecordSnapshot(u)
    \/ \E target \in Targets : CollectBegins(target)
    \/ \E c \in Contents : CollectOne(c)
    \/ CollectEnds
    \/ CallDies
    \/ TimePasses

Spec == Init /\ [][Next]_vars

-----------------------------------------------------------------------------
(* Properties of every run.                                                *)

Kept(e) == e.refs # {} \/ e.policy = "original"

\* The file that the entry of a referenced or protected content names is there
\* until its retention ends, whatever was collected, stored again, or left half
\* done by a crash.
KeptFileIsThere ==
    \A c \in DOMAIN manifest.files :
        LET e == manifest.files[c]
        IN e.path # NoPath /\ Kept(e) /\ ~Expired(e, clock) => <<c, e.path>> \in DOMAIN files

\* The evidence outlives the file: the entry of a referenced content and the
\* snapshots of media that are gone are never dropped from the manifest.
EvidenceIsKept ==
    [][/\ \A c \in DOMAIN manifest.files :
            manifest.files[c].refs # {} => c \in DOMAIN manifest'.files
       /\ manifest.remote \subseteq manifest'.remote]_vars

-----------------------------------------------------------------------------
(* Properties of runs without crashes, one suffix per content.             *)

\* Between two calls the directory holds exactly the files the manifest names,
\* each complete and with its size in the manifest.
DirectoryAgrees ==
    LET named == {c \in DOMAIN manifest.files : manifest.files[c].path # NoPath}
    IN call = Idle /\ crashes = 0 =>
        /\ DOMAIN files = {<<c, manifest.files[c].path>> : c \in named}
        /\ \A c \in named :
            /\ manifest.files[c].size = SizeOf[c]
            /\ files[<<c, manifest.files[c].path>>] = SizeOf[c]

DiskBytes(f) == MapThenSumSet(LAMBDA p : f[p], DOMAIN f)

\* A collection removes an unexpired file only while the disk is over its
\* target, never a kept one, and the least recently used first.  At its end the
\* disk is within the target, or only kept files are left; in either case no
\* file is left whose retention had ended.  Empty files are never looked at.
CollectionMeetsTarget ==
    [][/\ crashes = 0 => \A p \in DOMAIN files \ DOMAIN files' :
            LET Of(q) == manifest.files[q[1]]
            IN ~Expired(Of(p), call.now) =>
                /\ DiskBytes(files) > call.target
                /\ ~Kept(Of(p))
                /\ \A q \in DOMAIN files' :
                    Kept(Of(q)) \/ Of(q).size = 0 \/ Of(p).used <= Of(q).used
       /\ call.op = "collect" /\ call' = Idle /\ crashes' = 0 =>
            LET left == {e \in {manifest'.files[p[1]] : p \in DOMAIN files'} : e.size > 0}
            IN /\ DiskBytes(files') <= call.target \/ \A e \in left : Kept(e)
               /\ \A e \in left : ~Expired(e, call.now)]_vars

-----------------------------------------------------------------------------
(* Claims of the documentation.                                            *)

\* "The file path is content-addressed by full SHA-256": a file that the
\* manifest names holds its content.
NamedFileIsWhole ==
    \A c \in DOMAIN manifest.files :
        LET p == <<c, manifest.files[c].path>>
        IN p \in DOMAIN files => files[p] = SizeOf[c]

=============================================================================
