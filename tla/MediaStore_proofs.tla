-------------------------- MODULE MediaStore_proofs --------------------------
(***************************************************************************)
(* Proofs about MediaStore for any contents, policies and targets, and any *)
(* number of calls that die.                                               *)
(***************************************************************************)
EXTENDS MediaStore, FiniteSetTheorems, WellFoundedInduction, TLAPS

\* An entry that names no file counts no bytes.
IsTable(t) ==
    /\ t \in [DOMAIN t -> Entry]
    /\ DOMAIN t \subseteq Contents
    /\ IsFiniteSet(DOMAIN t)
    /\ \A c \in DOMAIN t : t[c].path = NoPath => t[c].size = 0

IsManifest(m) ==
    /\ m = [files |-> m.files, remote |-> m.remote]
    /\ IsTable(m.files)

IsDirectory(f) ==
    /\ f \in [DOMAIN f -> Nat]
    /\ DOMAIN f \subseteq Contents \X FileSuffixes
    /\ IsFiniteSet(DOMAIN f)

Storing ==
    [op : {"copy", "save"}, content : Contents, suffix : FileSuffixes, ref : RefIds,
     policy : Policies, now : Nat, expires : Nat \cup {Never}]

\* A collection in progress.
Collecting(now, target, table, bytes, todo) ==
    [op |-> "collect", now |-> now, target |-> target, table |-> table,
     bytes |-> bytes, todo |-> todo]

Typed ==
    /\ IsDirectory(files)
    /\ IsManifest(manifest)
    /\ clock \in Nat /\ crashes \in Nat

\* Apart from the entries it has collected a collection works on the saved
\* manifest, and what is left to do is all that it may collect.
CollectionOK(now, table, todo) ==
    /\ now \in Nat /\ now <= clock
    /\ IsManifest(table)
    /\ table.remote = manifest.remote
    /\ DOMAIN table.files \subseteq DOMAIN manifest.files
    /\ \A c \in DOMAIN manifest.files \ DOMAIN table.files : manifest.files[c].refs = {}
    /\ \A c \in DOMAIN table.files :
          table.files[c] = manifest.files[c] \/ table.files[c].path = NoPath
    /\ todo = {c \in DOMAIN table.files : Collectable(table.files[c], now)}

\* What a call relies on: a store on the file it writes or has found.
CallOK ==
    \/ call = Idle
    \/ call \in Storing /\ <<call.content, call.suffix>> \in DOMAIN files
    \/ \E now, target, table, bytes, todo :
          call = Collecting(now, target, table, bytes, todo) /\ CollectionOK(now, table, todo)

\* The inductive invariant.
StoreInv == Typed /\ CallOK /\ KeptFileIsThere

-----------------------------------------------------------------------------
(* The operators on tables.                                                *)

\* Put and Drop change one place of a function.
LEMMA PutFacts ==
    ASSUME NEW f, NEW x, NEW y
    PROVE  /\ DOMAIN Put(f, x, y) = DOMAIN f \cup {x}
           /\ Put(f, x, y)[x] = y
           /\ \A z \in DOMAIN f \ {x} : Put(f, x, y)[z] = f[z]
  BY DEF Put

LEMMA DropFacts ==
    ASSUME NEW f, NEW x
    PROVE  /\ DOMAIN Drop(f, x) = DOMAIN f \ {x}
           /\ \A z \in DOMAIN f \ {x} : Drop(f, x)[z] = f[z]
  BY DEF Drop

\* They keep its range and leave its domain finite.
LEMMA PutType ==
    ASSUME NEW S, NEW f, f \in [DOMAIN f -> S], IsFiniteSet(DOMAIN f), NEW x, NEW y \in S
    PROVE  /\ Put(f, x, y) \in [DOMAIN Put(f, x, y) -> S]
           /\ IsFiniteSet(DOMAIN Put(f, x, y))
  <1>1. DOMAIN Put(f, x, y) = DOMAIN f \cup {x}
    BY PutFacts
  <1>2. Put(f, x, y) \in [DOMAIN f \cup {x} -> S]
    BY DEF Put
  <1>3. IsFiniteSet(DOMAIN f \cup {x})
    BY FS_AddElement
  <1> QED
    BY <1>1, <1>2, <1>3

LEMMA DropType ==
    ASSUME NEW S, NEW f, f \in [DOMAIN f -> S], IsFiniteSet(DOMAIN f), NEW x
    PROVE  /\ Drop(f, x) \in [DOMAIN Drop(f, x) -> S]
           /\ IsFiniteSet(DOMAIN Drop(f, x))
  <1>1. DOMAIN Drop(f, x) = DOMAIN f \ {x}
    BY DropFacts
  <1>2. Drop(f, x) \in [DOMAIN f \ {x} -> S]
    BY DEF Drop
  <1>3. IsFiniteSet(DOMAIN f \ {x})
    BY FS_Subset
  <1> QED
    BY <1>1, <1>2, <1>3

\* A table stays one when an entry is put into it or dropped.
LEMMA TableFacts ==
    ASSUME NEW t, IsTable(t), NEW c \in Contents
    PROVE  /\ IsTable(Drop(t, c))
           /\ \A e \in Entry : (e.path = NoPath => e.size = 0) => IsTable(Put(t, c, e))
  <1>1. IsTable(Drop(t, c))
    <2>1. /\ DOMAIN Drop(t, c) \subseteq DOMAIN t
          /\ \A d \in DOMAIN Drop(t, c) : Drop(t, c)[d] = t[d]
      BY DropFacts
    <2>2. Drop(t, c) \in [DOMAIN Drop(t, c) -> Entry] /\ IsFiniteSet(DOMAIN Drop(t, c))
      BY DropType DEF IsTable
    <2> QED
      BY <2>1, <2>2 DEF IsTable
  <1>2. ASSUME NEW e \in Entry, e.path = NoPath => e.size = 0 PROVE IsTable(Put(t, c, e))
    <2>1. /\ DOMAIN Put(t, c, e) = DOMAIN t \cup {c}
          /\ Put(t, c, e)[c] = e
          /\ \A d \in DOMAIN t \ {c} : Put(t, c, e)[d] = t[d]
      BY DEF Put
    <2>2. Put(t, c, e) \in [DOMAIN Put(t, c, e) -> Entry] /\ IsFiniteSet(DOMAIN Put(t, c, e))
      BY PutType DEF IsTable
    <2> QED
      BY <1>2, <2>1, <2>2 DEF IsTable
  <1> QED
    BY <1>1, <1>2

\* The same for a directory of files.
LEMMA DirectoryFacts ==
    ASSUME NEW f, IsDirectory(f), NEW c \in Contents
    PROVE  /\ \A s : IsDirectory(Drop(f, <<c, s>>))
           /\ \A s \in FileSuffixes : IsDirectory(Put(f, <<c, s>>, 0))
           /\ \A p \in DOMAIN f : IsDirectory([f EXCEPT ![p] = @ + 1])
  <1>1. ASSUME NEW s PROVE IsDirectory(Drop(f, <<c, s>>))
    <2>1. DOMAIN Drop(f, <<c, s>>) \subseteq Contents \X FileSuffixes
      BY DropFacts DEF IsDirectory
    <2> QED
      BY <2>1, DropType DEF IsDirectory
  <1>2. ASSUME NEW s \in FileSuffixes PROVE IsDirectory(Put(f, <<c, s>>, 0))
    <2>1. DOMAIN Put(f, <<c, s>>, 0) = DOMAIN f \cup {<<c, s>>}
      BY PutFacts
    <2>2. DOMAIN Put(f, <<c, s>>, 0) \subseteq Contents \X FileSuffixes
      BY <2>1 DEF IsDirectory
    <2>3. 0 \in Nat
      OBVIOUS
    <2> QED
      BY <2>2, <2>3, PutType DEF IsDirectory
  <1>3. ASSUME NEW p \in DOMAIN f PROVE IsDirectory([f EXCEPT ![p] = @ + 1])
    BY DEF IsDirectory
  <1> QED
    BY <1>1, <1>2, <1>3

\* What a collection makes of an entry.
LEMMA CollectedFacts ==
    ASSUME NEW t, IsTable(t), NEW c \in DOMAIN t
    PROVE  /\ IsTable(Collected(t, c))
           /\ DOMAIN Collected(t, c) = IF t[c].refs = {} THEN DOMAIN t \ {c} ELSE DOMAIN t
           /\ \A d \in DOMAIN t \ {c} : Collected(t, c)[d] = t[d]
           /\ t[c].refs # {} => /\ Collected(t, c)[c].size = 0
                               /\ Collected(t, c)[c].path = NoPath
  <1> DEFINE e == [t[c] EXCEPT !.path = NoPath, !.size = 0, !.deleted = TRUE]
  <1>1. c \in Contents /\ e \in Entry /\ e.size = 0 /\ e.path = NoPath
    BY DEF IsTable, Entry
  <1> HIDE DEF e
  <1>2. CASE t[c].refs = {}
    BY <1>1, <1>2, DropFacts, TableFacts DEF Collected
  <1>3. CASE t[c].refs # {}
    <2>1. Collected(t, c) = Put(t, c, e)
      BY <1>3 DEF Collected, e
    <2>2. IsTable(Put(t, c, e))
      BY <1>1, TableFacts
    <2>3. /\ DOMAIN Put(t, c, e) = DOMAIN t \cup {c}
          /\ Put(t, c, e)[c] = e
          /\ \A d \in DOMAIN t \ {c} : Put(t, c, e)[d] = t[d]
      BY DEF Put
    <2> QED
      BY <1>1, <1>3, <2>1, <2>2, <2>3
  <1> QED
    BY <1>2, <1>3

-----------------------------------------------------------------------------
(* Every action keeps the invariant.                                       *)

\* The file of every entry that must be kept is there.
LEMMA KeptByMoreFiles ==
    ASSUME Typed, KeptFileIsThere, UNCHANGED manifest, DOMAIN files \subseteq DOMAIN files',
           clock' \in Nat, clock <= clock'
    PROVE  KeptFileIsThere'
  <1> SUFFICES ASSUME NEW c \in DOMAIN manifest.files,
                      manifest.files[c].path # NoPath, Kept(manifest.files[c]),
                      ~Expired(manifest.files[c], clock')
               PROVE  <<c, manifest.files[c].path>> \in DOMAIN files'
    BY DEF KeptFileIsThere
  <1>1. manifest.files[c] \in Entry
    BY DEF Typed, IsManifest, IsTable
  <1>2. ~Expired(manifest.files[c], clock)
    BY <1>1, MediaStoreAssumption DEF Expired, Entry, Typed
  <1> QED
    BY <1>2 DEF KeptFileIsThere

LEMMA InitInv == Init => StoreInv
  <1> SUFFICES ASSUME Init PROVE StoreInv
    OBVIOUS
  <1>1. IsTable(EmptyTable) /\ IsDirectory(EmptyTable)
    BY FS_EmptySet DEF IsTable, IsDirectory, EmptyTable
  <1>2. Typed /\ CallOK
    BY <1>1 DEF Init, Typed, CallOK, IsManifest
  <1>3. KeptFileIsThere
    BY DEF Init, KeptFileIsThere, EmptyTable
  <1> QED
    BY <1>2, <1>3 DEF StoreInv

LEMMA StoreBeginsStep ==
    ASSUME StoreInv, NEW c \in Contents, NEW s \in FileSuffixes, NEW r \in RefIds,
           NEW policy \in Policies, NEW ttl \in TTLs, StoreBegins(c, s, r, policy, ttl)
    PROVE  StoreInv'
  <1>1. IsDirectory(files') /\ DOMAIN files \subseteq DOMAIN files' /\ <<c, s>> \in DOMAIN files'
    <2>1. CASE <<c, s>> \in DOMAIN files
      BY <2>1 DEF StoreBegins, StoreInv, Typed
    <2>2. CASE <<c, s>> \notin DOMAIN files
      <3>1. files' = Put(files, <<c, s>>, 0)
        BY <2>2 DEF StoreBegins
      <3>2. DOMAIN Put(files, <<c, s>>, 0) = DOMAIN files \cup {<<c, s>>}
        BY PutFacts
      <3> QED
        BY <3>1, <3>2, DirectoryFacts DEF StoreInv, Typed
    <2> QED
      BY <2>1, <2>2
  <1>2. Typed'
    BY <1>1 DEF StoreBegins, StoreInv, Typed
  <1>3. call' \in Storing /\ call'.content = c /\ call'.suffix = s
    BY MediaStoreAssumption DEF StoreBegins, Storing, StoreInv, Typed
  <1>4. CallOK'
    BY <1>1, <1>3 DEF CallOK
  <1>5. KeptFileIsThere'
    BY <1>1, KeptByMoreFiles DEF StoreBegins, StoreInv, Typed
  <1> QED
    BY <1>2, <1>4, <1>5 DEF StoreInv

\* A call that copies or saves is a store.
LEMMA StoringCall ==
    ASSUME StoreInv, call.op \in {"copy", "save"}
    PROVE  /\ call \in Storing
           /\ <<call.content, call.suffix>> \in DOMAIN files
           /\ call.content \in Contents /\ call.suffix \in FileSuffixes
  <1>1. call # Idle
    BY DEF Idle
  <1>2. ASSUME NEW now, NEW target, NEW table, NEW bytes, NEW todo,
               call = Collecting(now, target, table, bytes, todo)
        PROVE  FALSE
    BY <1>2 DEF Collecting
  <1> QED
    BY <1>1, <1>2 DEF StoreInv, CallOK, Storing

LEMMA CopyOnStep ==
    ASSUME StoreInv, CopyOn
    PROVE  StoreInv'
  <1> DEFINE path == <<call.content, call.suffix>>
  <1>1. call \in Storing /\ path \in DOMAIN files /\ call.content \in Contents
    BY StoringCall DEF CopyOn
  <1>2. files' = [files EXCEPT ![path] = @ + 1]
    BY DEF CopyOn
  <1>3. IsDirectory(files') /\ DOMAIN files' = DOMAIN files
    BY <1>1, <1>2, DirectoryFacts DEF StoreInv, Typed
  <1>4. Typed'
    BY <1>3 DEF CopyOn, StoreInv, Typed
  <1>5. call' \in Storing /\ <<call'.content, call'.suffix>> = path
    BY <1>1 DEF CopyOn, Storing
  <1>6. CallOK'
    BY <1>1, <1>3, <1>5 DEF CallOK
  <1>7. KeptFileIsThere'
    BY <1>3, KeptByMoreFiles DEF CopyOn, StoreInv, Typed
  <1> QED
    BY <1>4, <1>6, <1>7 DEF StoreInv

\* The entry a store writes names the file it has copied or found.
LEMMA StoreEndsStep ==
    ASSUME StoreInv, StoreEnds
    PROVE  StoreInv'
  <1> DEFINE c == call.content
             old == IF c \in DOMAIN manifest.files THEN manifest.files[c] ELSE NewEntry
             e == StoredEntry(old)
             path == <<call.content, call.suffix>>
  <1>1. call \in Storing /\ path \in DOMAIN files /\ c \in Contents
    BY StoringCall DEF StoreEnds
  <1>2. old.refs \subseteq RefIds /\ old.deleted \in BOOLEAN
    BY DEF StoreInv, Typed, IsManifest, IsTable, Entry, NewEntry
  <1>3. files[path] \in Nat
    BY <1>1 DEF StoreInv, Typed, IsDirectory
  <1>4. e \in Entry /\ e.path = call.suffix /\ e.path # NoPath
    BY <1>1, <1>2, <1>3, MediaStoreAssumption DEF StoredEntry, Storing, Entry
  <1>5. /\ manifest' = [manifest EXCEPT !.files = Put(manifest.files, c, e)]
        /\ call' = Idle /\ UNCHANGED <<files, clock, crashes>>
    BY DEF StoreEnds
  <1> HIDE DEF e, old
  <1>6. /\ manifest'.files = Put(manifest.files, c, e)
        /\ manifest' = [files |-> manifest'.files, remote |-> manifest'.remote]
    BY <1>5 DEF StoreInv, Typed, IsManifest
  <1>10. /\ DOMAIN manifest'.files = DOMAIN manifest.files \cup {c}
         /\ manifest'.files[c] = e
         /\ \A d \in DOMAIN manifest.files \ {c} : manifest'.files[d] = manifest.files[d]
    BY <1>6 DEF Put
  <1>7. IsManifest(manifest')
    BY <1>1, <1>4, <1>6, TableFacts DEF StoreInv, Typed, IsManifest
  <1>8. Typed' /\ CallOK'
    BY <1>5, <1>7 DEF StoreInv, Typed, CallOK
  <1>9. KeptFileIsThere'
    <2> SUFFICES ASSUME NEW d \in DOMAIN manifest'.files,
                        manifest'.files[d].path # NoPath, Kept(manifest'.files[d]),
                        ~Expired(manifest'.files[d], clock)
                 PROVE  <<d, manifest'.files[d].path>> \in DOMAIN files
      BY <1>5 DEF KeptFileIsThere
    <2>1. CASE d = c
      BY <1>1, <1>4, <1>10, <2>1
    <2>2. CASE d # c
      BY <1>10, <2>2 DEF StoreInv, KeptFileIsThere
    <2> QED
      BY <2>1, <2>2
  <1> QED
    BY <1>8, <1>9 DEF StoreInv

\* A release takes away a reference and nothing that the file depends on.
LEMMA ReleaseStep ==
    ASSUME StoreInv, NEW c \in Contents, NEW r \in RefIds, Release(c, r)
    PROVE  StoreInv'
  <1> DEFINE old == manifest.files[c]
             e == [old EXCEPT !.refs = @ \ {r}, !.used = clock]
  <1>1. old \in Entry /\ c \in DOMAIN manifest.files
    BY DEF Release, StoreInv, Typed, IsManifest, IsTable
  <1>2. /\ e \in Entry
        /\ e.path = old.path /\ e.size = old.size /\ e.policy = old.policy
        /\ e.expires = old.expires /\ e.refs \subseteq old.refs
    BY <1>1 DEF Entry, StoreInv, Typed
  <1>9. e.path = NoPath => e.size = 0
    BY <1>1, <1>2 DEF StoreInv, Typed, IsManifest, IsTable
  <1>3. /\ manifest' = [manifest EXCEPT !.files = [manifest.files EXCEPT ![c] = e]]
        /\ UNCHANGED <<files, call, clock, crashes>> /\ call = Idle
    BY <1>1 DEF Release, StoreInv, Typed, IsManifest, IsTable
  <1> HIDE DEF e
  <1>4. /\ manifest'.files = [manifest.files EXCEPT ![c] = e]
        /\ manifest' = [files |-> manifest'.files, remote |-> manifest'.remote]
    BY <1>3 DEF StoreInv, Typed, IsManifest
  <1>5. /\ DOMAIN manifest'.files = DOMAIN manifest.files
        /\ manifest'.files[c] = e
        /\ \A d \in DOMAIN manifest.files \ {c} : manifest'.files[d] = manifest.files[d]
    BY <1>1, <1>4
  <1>6. IsManifest(manifest')
    BY <1>2, <1>4, <1>5, <1>9 DEF StoreInv, Typed, IsManifest, IsTable
  <1>7. Typed' /\ CallOK'
    BY <1>3, <1>6 DEF StoreInv, Typed, CallOK
  <1>8. KeptFileIsThere'
    <2> SUFFICES ASSUME NEW d \in DOMAIN manifest'.files,
                        manifest'.files[d].path # NoPath, Kept(manifest'.files[d]),
                        ~Expired(manifest'.files[d], clock)
                 PROVE  <<d, manifest'.files[d].path>> \in DOMAIN files
      BY <1>3 DEF KeptFileIsThere
    <2>1. CASE d = c
      <3>1. Kept(old) /\ ~Expired(old, clock) /\ old.path # NoPath
        BY <1>2, <1>5, <2>1 DEF Kept, Expired
      <3> QED
        BY <1>1, <1>2, <1>5, <2>1, <3>1 DEF StoreInv, KeptFileIsThere
    <2>2. CASE d # c
      BY <1>5, <2>2 DEF StoreInv, KeptFileIsThere
    <2> QED
      BY <2>1, <2>2
  <1> QED
    BY <1>7, <1>8 DEF StoreInv

\* A snapshot is not about files.
LEMMA RecordSnapshotStep ==
    ASSUME StoreInv, NEW u \in Urls, RecordSnapshot(u)
    PROVE  StoreInv'
  <1>1. /\ manifest'.files = manifest.files
        /\ manifest' = [files |-> manifest'.files, remote |-> manifest'.remote]
        /\ UNCHANGED <<files, call, clock, crashes>> /\ call = Idle
    BY DEF RecordSnapshot, StoreInv, Typed, IsManifest
  <1>2. Typed' /\ CallOK'
    BY <1>1 DEF StoreInv, Typed, CallOK, IsManifest
  <1>3. KeptFileIsThere'
    BY <1>1 DEF StoreInv, KeptFileIsThere
  <1> QED
    BY <1>2, <1>3 DEF StoreInv

\* A collection begins with the saved manifest.
LEMMA CollectBeginsStep ==
    ASSUME StoreInv, NEW target \in Targets, CollectBegins(target)
    PROVE  StoreInv'
  <1>1. PICK now, table, bytes, todo :
            /\ now = clock /\ table = manifest /\ bytes = Bytes(manifest.files)
            /\ todo = {c \in DOMAIN manifest.files : Collectable(manifest.files[c], clock)}
    OBVIOUS
  <1>2. /\ call' = Collecting(now, target, table, bytes, todo)
        /\ UNCHANGED <<files, manifest, clock, crashes>>
    BY <1>1 DEF CollectBegins, Collecting
  <1>3. CollectionOK(now, table, todo)'
    BY <1>1, <1>2 DEF CollectionOK, StoreInv, Typed
  <1>4. CallOK'
    BY <1>2, <1>3 DEF CallOK
  <1> QED
    BY <1>2, <1>4 DEF StoreInv, Typed, KeptFileIsThere

\* A call that collects has a collection's record.
LEMMA CollectingCall ==
    ASSUME StoreInv, call.op = "collect"
    PROVE  \E now, target, table, bytes, todo :
              call = Collecting(now, target, table, bytes, todo) /\ CollectionOK(now, table, todo)
  BY DEF StoreInv, CallOK, Storing, Idle

\* Only a file whose time is over or that nothing keeps is removed.
LEMMA CollectOneStep ==
    ASSUME StoreInv, NEW c \in Contents, CollectOne(c)
    PROVE  StoreInv'
  <1>1. PICK now, target, table, bytes, todo :
           call = Collecting(now, target, table, bytes, todo) /\ CollectionOK(now, table, todo)
    BY CollectingCall DEF CollectOne
  <1>2. /\ call.table = table /\ call.todo = todo /\ call.now = now
        /\ call.bytes = bytes /\ call.target = target
    BY <1>1 DEF Collecting
  <1> DEFINE e == table.files[c]
             left == Collected(table.files, c)
             rest == [files |-> left, remote |-> table.remote]
  <1>3. c \in todo /\ c \in DOMAIN table.files /\ Collectable(e, now) /\ e \in Entry
    BY <1>1, <1>2 DEF CollectOne, CollectionOK, IsManifest, IsTable
  <1>12. e.path # NoPath
    <2>1. e.path = NoPath => e.size = 0
      BY <1>1, <1>3 DEF CollectionOK, IsManifest, IsTable
    <2> QED
      BY <1>3, <2>1 DEF Collectable
  <1>4. e = manifest.files[c] /\ c \in DOMAIN manifest.files
    BY <1>1, <1>3, <1>12 DEF CollectionOK
  <1>5. files' = Drop(files, <<c, e.path>>) /\ UNCHANGED <<manifest, clock, crashes>>
    BY <1>2 DEF CollectOne
  <1>6. call' = Collecting(now, target, rest, bytes - e.size, todo \ {c})
    BY <1>1, <1>2 DEF CollectOne, Collecting, CollectionOK, IsManifest
  <1>7. /\ IsTable(left)
        /\ DOMAIN left = IF e.refs = {} THEN DOMAIN table.files \ {c} ELSE DOMAIN table.files
        /\ \A d \in DOMAIN table.files \ {c} : left[d] = table.files[d]
        /\ e.refs # {} => left[c].size = 0 /\ left[c].path = NoPath
    <2>1. IsTable(table.files)
      BY <1>1 DEF CollectionOK, IsManifest
    <2> QED
      BY <1>3, <2>1, CollectedFacts
  <1> HIDE DEF left
  <1>8. Typed'
    <2>1. IsDirectory(files')
      BY <1>5, DirectoryFacts DEF StoreInv, Typed
    <2> QED
      BY <1>5, <2>1 DEF StoreInv, Typed
  <1>9. CollectionOK(now, rest, todo \ {c})'
    <2>1. todo \ {c} = {d \in DOMAIN left : Collectable(left[d], now)}
      <3>1. c \in DOMAIN left => ~Collectable(left[c], now)
        BY <1>7 DEF Collectable
      <3> QED
        BY <1>1, <1>7, <3>1 DEF CollectionOK
    <2>2. CollectionOK(now, rest, todo \ {c})
      BY <1>1, <1>4, <1>7, <2>1 DEF CollectionOK, IsManifest
    <2> QED
      BY <1>5, <2>2 DEF CollectionOK
  <1>10. CallOK'
    BY <1>6, <1>9 DEF CallOK
  <1>11. KeptFileIsThere'
    <2> SUFFICES ASSUME NEW d \in DOMAIN manifest.files,
                        manifest.files[d].path # NoPath, Kept(manifest.files[d]),
                        ~Expired(manifest.files[d], clock)
                 PROVE  <<d, manifest.files[d].path>> \in DOMAIN files'
      BY <1>5 DEF KeptFileIsThere
    <2>1. d # c
      <3>1. now \in Nat /\ now <= clock /\ clock \in Nat
        BY <1>1 DEF CollectionOK, StoreInv, Typed
      <3>2. Expired(e, now) => Expired(e, clock)
        BY <1>3, <3>1, MediaStoreAssumption DEF Expired, Entry
      <3> QED
        BY <1>3, <1>4, <3>2 DEF Collectable, Kept
    <2>2. <<d, manifest.files[d].path>> \in DOMAIN files
      BY DEF StoreInv, KeptFileIsThere
    <2>3. <<d, manifest.files[d].path>> # <<c, e.path>>
      BY <2>1
    <2> QED
      BY <1>5, <2>2, <2>3 DEF Drop
  <1> QED
    BY <1>8, <1>10, <1>11 DEF StoreInv

\* The collected manifest is saved: what it still lists with a size is what the
\* saved one listed.
LEMMA CollectEndsStep ==
    ASSUME StoreInv, CollectEnds
    PROVE  StoreInv'
  <1>1. PICK now, target, table, bytes, todo :
           call = Collecting(now, target, table, bytes, todo) /\ CollectionOK(now, table, todo)
    BY CollectingCall DEF CollectEnds
  <1>2. manifest' = table /\ call' = Idle /\ UNCHANGED <<files, clock, crashes>>
    BY <1>1 DEF CollectEnds, Collecting
  <1>3. Typed' /\ CallOK'
    BY <1>1, <1>2 DEF StoreInv, Typed, CallOK, CollectionOK
  <1>4. KeptFileIsThere'
    <2> SUFFICES ASSUME NEW c \in DOMAIN table.files,
                        table.files[c].path # NoPath, Kept(table.files[c]),
                        ~Expired(table.files[c], clock)
                 PROVE  <<c, table.files[c].path>> \in DOMAIN files
      BY <1>2 DEF KeptFileIsThere
    <2>1. table.files[c] = manifest.files[c] /\ c \in DOMAIN manifest.files
      BY <1>1 DEF CollectionOK
    <2> QED
      BY <2>1 DEF StoreInv, KeptFileIsThere
  <1> QED
    BY <1>3, <1>4 DEF StoreInv

\* A call dies: what it has done to the disk stays, and that is no loss.
LEMMA CallDiesStep ==
    ASSUME StoreInv, CallDies
    PROVE  StoreInv'
  BY DEF CallDies, StoreInv, Typed, CallOK, KeptFileIsThere

LEMMA TimePassesStep ==
    ASSUME StoreInv, TimePasses
    PROVE  StoreInv'
  <1>1. /\ clock' \in Nat /\ clock <= clock'
        /\ UNCHANGED <<files, manifest, call, crashes>>
    BY DEF TimePasses, StoreInv, Typed
  <1>2. KeptFileIsThere'
    BY <1>1, KeptByMoreFiles DEF StoreInv
  <1>3. ASSUME NEW now, NEW table, NEW todo, CollectionOK(now, table, todo)
        PROVE  CollectionOK(now, table, todo)'
    <2>1. now \in Nat /\ now <= clock'
      BY <1>1, <1>3 DEF CollectionOK, StoreInv, Typed
    <2> QED
      BY <1>1, <1>3, <2>1 DEF CollectionOK
  <1>4. CallOK'
    BY <1>1, <1>3 DEF StoreInv, CallOK
  <1> QED
    BY <1>1, <1>2, <1>4 DEF StoreInv, Typed

LEMMA StoreInvNext == StoreInv /\ [Next]_vars => StoreInv'
  <1> SUFFICES ASSUME StoreInv, [Next]_vars PROVE StoreInv'
    OBVIOUS
  <1>1. CASE Next
    BY <1>1, StoreBeginsStep, CopyOnStep, StoreEndsStep, ReleaseStep, RecordSnapshotStep,
       CollectBeginsStep, CollectOneStep, CollectEndsStep, CallDiesStep, TimePassesStep DEF Next
  <1>2. CASE UNCHANGED vars
    BY <1>2 DEF vars, StoreInv, Typed, CallOK, CollectionOK, KeptFileIsThere
  <1> QED
    BY <1>1, <1>2

\* Every reachable state satisfies the inductive invariant.
THEOREM StoreCorrect == Spec => []StoreInv
  BY InitInv, StoreInvNext, PTL DEF Spec

\* The file of a referenced or protected entry is there until its retention ends.
THEOREM KeptFileCorrect == Spec => []KeptFileIsThere
  <1>1. StoreInv => KeptFileIsThere
    BY DEF StoreInv
  <1> QED
    BY <1>1, StoreCorrect, PTL

\* No call drops the entry of a referenced content, nor a snapshot.
THEOREM EvidenceCorrect == Spec => EvidenceIsKept
  <1> DEFINE Stays ==
        /\ \A c \in DOMAIN manifest.files :
              manifest.files[c].refs # {} => c \in DOMAIN manifest'.files
        /\ manifest.remote \subseteq manifest'.remote
  <1>1. ASSUME StoreInv, [Next]_vars PROVE [Stays]_vars
    <2>1. CASE UNCHANGED manifest
      BY <2>1
    <2>2. CASE StoreEnds
      <3>1. PICK c, e : manifest' = [manifest EXCEPT !.files = Put(manifest.files, c, e)]
        BY <2>2 DEF StoreEnds
      <3>2. /\ manifest'.remote = manifest.remote
            /\ manifest'.files = Put(manifest.files, c, e)
        BY <1>1, <3>1 DEF StoreInv, Typed, IsManifest
      <3>3. DOMAIN Put(manifest.files, c, e) = DOMAIN manifest.files \cup {c}
        BY PutFacts
      <3> QED
        BY <3>2, <3>3
    <2>3. ASSUME NEW c \in Contents, NEW r \in RefIds, Release(c, r) PROVE Stays
      BY <1>1, <2>3 DEF Release, StoreInv, Typed, IsManifest, IsTable
    <2>4. ASSUME NEW u \in Urls, RecordSnapshot(u) PROVE Stays
      BY <1>1, <2>4 DEF RecordSnapshot, StoreInv, Typed, IsManifest
    <2>5. CASE CollectEnds
      <3>1. PICK now, target, table, bytes, todo :
               call = Collecting(now, target, table, bytes, todo) /\ CollectionOK(now, table, todo)
        BY <1>1, <2>5, CollectingCall DEF CollectEnds
      <3>2. manifest' = table
        BY <2>5, <3>1 DEF CollectEnds, Collecting
      <3> QED
        BY <3>1, <3>2 DEF CollectionOK
    <2>6. CASE UNCHANGED vars
      BY <2>6
    <2> QED
      BY <1>1, <2>1, <2>2, <2>3, <2>4, <2>5, <2>6
      DEF Next, StoreBegins, CopyOn, CollectBegins, CollectOne, CallDies, TimePasses
  <1> QED
    BY <1>1, StoreCorrect, PTL DEF Spec, EvidenceIsKept

-----------------------------------------------------------------------------
(* What the directory holds, without crashes and with one suffix.          *)

OneSuffix == \A s, t \in FileSuffixes : s = t

WithFile(t) == {c \in DOMAIN t : t[c].path # NoPath}

Named(t) == {<<c, t[c].path>> : c \in WithFile(t)}

\* The directory holds the files that a table names, each one complete, and
\* those of extra.
Holds(f, t, extra) ==
    /\ DOMAIN f = Named(t) \cup extra
    /\ \A c \in WithFile(t) :
        /\ <<c, t[c].path>> \in DOMAIN f
        /\ t[c].size = SizeOf[c]
        /\ f[<<c, t[c].path>>] = SizeOf[c]

\* While a store is under way the directory holds its file as well, and until
\* it is complete no entry names it.  A collection keeps the directory
\* in step with the table in memory, and the count of its bytes with both.
DirectoryOK ==
    LET path == <<call.content, call.suffix>>
    IN CASE call.op = "idle" -> Holds(files, manifest.files, {})
         [] call.op = "copy" -> /\ Holds(files, manifest.files, {path})
                                /\ path \notin Named(manifest.files)
                                /\ files[path] < SizeOf[call.content]
         [] call.op = "save" -> /\ Holds(files, manifest.files, {path})
                                /\ files[path] = SizeOf[call.content]
         [] call.op = "collect" -> Holds(files, call.table.files, {})

DirectoryInv == crashes = 0 => DirectoryOK

\* A store that begins finds its file complete or begins an empty one.
LEMMA DirectoryStoreBegins ==
    ASSUME StoreInv, DirectoryOK, NEW c \in Contents, NEW s \in FileSuffixes,
           NEW r, NEW policy, NEW ttl, StoreBegins(c, s, r, policy, ttl)
    PROVE  DirectoryOK'
  <1> DEFINE t == manifest.files
             path == <<c, s>>
  <1>1. Holds(files, t, {}) /\ UNCHANGED manifest
    BY DEF StoreBegins, DirectoryOK, Idle
  <1>2. /\ path \in DOMAIN files => call'.op = "save" /\ files' = files
        /\ path \notin DOMAIN files =>
              /\ call'.op = IF SizeOf[c] = 0 THEN "save" ELSE "copy"
              /\ files' = Put(files, path, 0)
        /\ call'.content = c /\ call'.suffix = s
    BY DEF StoreBegins
  <1>3. CASE path \in DOMAIN files
    <2>1. c \in WithFile(t) /\ path = <<c, t[c].path>>
      BY <1>1, <1>3 DEF Holds, Named
    <2>2. files[path] = SizeOf[c] /\ Holds(files, t, {path})
      BY <1>1, <2>1 DEF Holds
    <2> QED
      BY <1>1, <1>2, <1>3, <2>2 DEF DirectoryOK
  <1>4. CASE path \notin DOMAIN files
    <2>1. /\ DOMAIN Put(files, path, 0) = DOMAIN files \cup {path}
          /\ Put(files, path, 0)[path] = 0
          /\ \A p \in DOMAIN files \ {path} : Put(files, path, 0)[p] = files[p]
      BY DEF Put
    <2>2. path \notin Named(t) /\ Holds(files', t, {path})
      BY <1>1, <1>2, <1>4, <2>1 DEF Holds, Named
    <2>3. files'[path] = 0 /\ (0 < SizeOf[c] \/ SizeOf[c] = 0)
      BY <1>2, <1>4, <2>1, MediaStoreAssumption
    <2> QED
      BY <1>1, <1>2, <1>4, <2>2, <2>3 DEF DirectoryOK
  <1> QED
    BY <1>3, <1>4

\* Copying on touches no file that is named.
LEMMA DirectoryCopyOn ==
    ASSUME StoreInv, DirectoryOK, CopyOn
    PROVE  DirectoryOK'
  <1> DEFINE t == manifest.files
             path == <<call.content, call.suffix>>
  <1>1. call \in Storing /\ path \in DOMAIN files /\ call.content \in Contents
    BY StoringCall DEF CopyOn
  <1>2. /\ Holds(files, t, {path}) /\ path \notin Named(t)
        /\ files[path] < SizeOf[call.content]
    BY DEF CopyOn, DirectoryOK
  <1>3. /\ files' = [files EXCEPT ![path] = @ + 1] /\ UNCHANGED manifest
        /\ <<call'.content, call'.suffix>> = path /\ call'.content = call.content
        /\ \/ files'[path] = SizeOf[call.content] /\ call'.op = "save"
           \/ files'[path] # SizeOf[call.content] /\ call'.op = "copy"
    BY <1>1 DEF CopyOn, Storing
  <1>4. /\ files'[path] = files[path] + 1 /\ files[path] \in Nat
        /\ SizeOf[call.content] \in Nat
        /\ DOMAIN files' = DOMAIN files
        /\ \A p \in DOMAIN files \ {path} : files'[p] = files[p]
    BY <1>1, <1>3, MediaStoreAssumption DEF StoreInv, Typed, IsDirectory
  <1>5. Holds(files', t, {path})
    BY <1>2, <1>4 DEF Holds, Named
  <1>6. files'[path] = SizeOf[call.content] \/ files'[path] < SizeOf[call.content]
    BY <1>2, <1>4
  <1> QED
    BY <1>2, <1>3, <1>5, <1>6 DEF DirectoryOK

\* The entry that a store writes names its file, and the file that the entry of
\* the content named before is the same one.
LEMMA DirectoryStoreEnds ==
    ASSUME StoreInv, DirectoryOK, OneSuffix, StoreEnds
    PROVE  DirectoryOK'
  <1> DEFINE c == call.content
             t == manifest.files
             path == <<call.content, call.suffix>>
  <1>1. call \in Storing /\ path \in DOMAIN files /\ c \in Contents /\ call.suffix \in FileSuffixes
    BY StoringCall DEF StoreEnds
  <1>2. Holds(files, t, {path}) /\ files[path] = SizeOf[c]
    BY DEF StoreEnds, DirectoryOK
  <1>3. PICK e : /\ manifest' = [manifest EXCEPT !.files = Put(t, c, e)]
                 /\ e.path = call.suffix /\ e.size = files[path]
    <2> DEFINE old == IF c \in DOMAIN t THEN t[c] ELSE NewEntry
    <2>1. manifest' = [manifest EXCEPT !.files = Put(t, c, StoredEntry(old))]
      BY DEF StoreEnds
    <2>2. StoredEntry(old).path = call.suffix /\ StoredEntry(old).size = files[path]
      BY DEF StoredEntry
    <2> QED
      BY <2>1, <2>2
  <1>4. manifest'.files = Put(t, c, e) /\ UNCHANGED files /\ call' = Idle
    BY <1>3 DEF StoreEnds, StoreInv, Typed, IsManifest
  <1>5. /\ DOMAIN Put(t, c, e) = DOMAIN t \cup {c}
        /\ Put(t, c, e)[c] = e
        /\ \A d \in DOMAIN t \ {c} : Put(t, c, e)[d] = t[d]
    BY DEF Put
  <1>6. call.suffix # NoPath
    BY <1>1, MediaStoreAssumption
  <1>7. WithFile(Put(t, c, e)) = WithFile(t) \cup {c}
    BY <1>3, <1>5, <1>6 DEF WithFile
  <1>8. c \in WithFile(t) => t[c].path = call.suffix
    BY <1>1, <1>2 DEF Holds, OneSuffix, StoreInv, Typed, IsDirectory
  <1>9. Named(Put(t, c, e)) = Named(t) \cup {path}
    <2>1. \A d \in WithFile(t) : Put(t, c, e)[d].path = t[d].path
      BY <1>3, <1>5, <1>8 DEF WithFile
    <2> QED
      BY <1>3, <1>5, <1>7, <2>1 DEF Named
  <1>10. Holds(files, Put(t, c, e), {})
    <2> SUFFICES ASSUME NEW d \in WithFile(Put(t, c, e))
                 PROVE  /\ <<d, Put(t, c, e)[d].path>> \in DOMAIN files
                        /\ Put(t, c, e)[d].size = SizeOf[d]
                        /\ files[<<d, Put(t, c, e)[d].path>>] = SizeOf[d]
      BY <1>2, <1>9 DEF Holds
    <2>1. CASE d = c
      BY <1>1, <1>2, <1>3, <1>5, <2>1
    <2>2. CASE d # c
      <3>1. d \in WithFile(t) /\ Put(t, c, e)[d] = t[d]
        BY <1>5, <1>7, <2>2 DEF WithFile
      <3> QED
        BY <1>2, <3>1 DEF Holds
    <2> QED
      BY <2>1, <2>2
  <1> QED
    BY <1>4, <1>10 DEF DirectoryOK, Idle

\* A release changes neither paths nor sizes.
LEMMA DirectoryRelease ==
    ASSUME StoreInv, DirectoryOK, NEW c \in Contents, NEW r, Release(c, r)
    PROVE  DirectoryOK'
  <1> DEFINE t == manifest.files
             u == manifest'.files
  <1>1. /\ Holds(files, t, {})
        /\ UNCHANGED <<files, call>> /\ call.op = "idle"
    BY DEF Release, DirectoryOK, Idle
  <1>2. c \in DOMAIN t /\ t[c] \in Entry
    BY DEF Release, StoreInv, Typed, IsManifest, IsTable
  <1>3. /\ DOMAIN u = DOMAIN t
        /\ \A d \in DOMAIN t : u[d].size = t[d].size /\ u[d].path = t[d].path
    BY <1>2 DEF Release, StoreInv, Typed, IsManifest, IsTable, Entry
  <1> HIDE DEF u
  <1>4. WithFile(u) = WithFile(t)
    BY <1>3 DEF WithFile
  <1>5. Named(u) = Named(t)
    BY <1>3, <1>4 DEF Named, WithFile
  <1>6. Holds(files, u, {})
    BY <1>1, <1>3, <1>4, <1>5 DEF Holds, WithFile
  <1> QED
    BY <1>1, <1>6 DEF DirectoryOK, u

\* A collection removes the file together with the entry that names it.
LEMMA DirectoryCollectOne ==
    ASSUME StoreInv, DirectoryOK, NEW c \in Contents, CollectOne(c)
    PROVE  DirectoryOK'
  <1>1. PICK now, target, table, bytes, todo :
           call = Collecting(now, target, table, bytes, todo) /\ CollectionOK(now, table, todo)
    BY CollectingCall DEF CollectOne
  <1> DEFINE t == table.files
             u == Collected(t, c)
             path == <<c, t[c].path>>
  <1>2. call.op = "collect" /\ call.table = table /\ call.todo = todo /\ call.now = now
    BY <1>1 DEF Collecting
  <1>3. IsTable(t) /\ c \in WithFile(t) /\ c \in DOMAIN t
    <2>1. IsTable(t) /\ c \in DOMAIN t /\ t[c].size > 0
      BY <1>1, <1>2 DEF CollectOne, CollectionOK, IsManifest, Collectable
    <2> QED
      BY <2>1 DEF IsTable, WithFile
  <1>4. Holds(files, t, {})
    BY <1>2 DEF DirectoryOK
  <1>5. files' = Drop(files, path) /\ call'.op = "collect" /\ call'.table.files = u
    BY <1>1, <1>2 DEF CollectOne, Collecting, CollectionOK, IsManifest
  <1>6. /\ DOMAIN u = IF t[c].refs = {} THEN DOMAIN t \ {c} ELSE DOMAIN t
        /\ \A d \in DOMAIN t \ {c} : u[d] = t[d]
        /\ t[c].refs # {} => u[c].path = NoPath
    BY <1>3, CollectedFacts
  <1> HIDE DEF u
  <1>7. WithFile(u) = WithFile(t) \ {c}
    BY <1>3, <1>6 DEF WithFile
  <1>8. Named(u) = Named(t) \ {path}
    <2>1. \A d \in WithFile(u) : u[d] = t[d]
      BY <1>6, <1>7 DEF WithFile
    <2> QED
      BY <1>7, <2>1 DEF Named
  <1>9. /\ DOMAIN Drop(files, path) = DOMAIN files \ {path}
        /\ \A p \in DOMAIN files \ {path} : Drop(files, path)[p] = files[p]
    BY DropFacts
  <1>10. Holds(files', u, {})
    <2>1. \A d \in WithFile(u) : u[d] = t[d] /\ d \in WithFile(t) /\ d # c
      BY <1>6, <1>7 DEF WithFile
    <2> QED
      BY <1>4, <1>5, <1>8, <1>9, <2>1 DEF Holds
  <1> QED
    BY <1>5, <1>10 DEF DirectoryOK

\* Every step keeps the directory in order; a call that dies ends the claim.
LEMMA DirectoryNext ==
    ASSUME OneSuffix, StoreInv, DirectoryInv, [Next]_vars
    PROVE  DirectoryInv'
  <1> SUFFICES ASSUME crashes' = 0 PROVE DirectoryOK'
    BY DEF DirectoryInv
  <1>1. CASE CallDies
    BY <1>1 DEF CallDies, StoreInv, Typed
  <1>2. CASE ~CallDies
    <2>1. crashes = 0 /\ DirectoryOK
      BY <1>2 DEF DirectoryInv, Next, vars, StoreBegins, CopyOn, StoreEnds, Release,
         RecordSnapshot, CollectBegins, CollectOne, CollectEnds, TimePasses
    <2>2. ASSUME NEW u \in Urls, RecordSnapshot(u) PROVE DirectoryOK'
      BY <2>1, <2>2 DEF RecordSnapshot, DirectoryOK, Idle, StoreInv, Typed, IsManifest
    <2>3. ASSUME NEW target \in Targets, CollectBegins(target) PROVE DirectoryOK'
      BY <2>1, <2>3 DEF CollectBegins, DirectoryOK, Idle
    <2>4. CASE CollectEnds
      BY <2>1, <2>4 DEF CollectEnds, DirectoryOK, Idle
    <2>5. CASE TimePasses
      BY <2>1, <2>5 DEF TimePasses, DirectoryOK
    <2>6. CASE UNCHANGED vars
      BY <2>1, <2>6 DEF vars, DirectoryOK
    <2> QED
      BY <1>2, <2>1, <2>2, <2>3, <2>4, <2>5, <2>6, DirectoryStoreBegins, DirectoryCopyOn,
         DirectoryStoreEnds, DirectoryRelease, DirectoryCollectOne DEF Next
  <1> QED
    BY <1>1, <1>2

\* With one suffix per content the directory is in order at every step of every
\* call, until a call dies.
THEOREM DirectoryInvCorrect == OneSuffix /\ Spec => [](StoreInv /\ DirectoryInv)
  <1>1. Init => DirectoryInv
    BY DEF Init, DirectoryInv, DirectoryOK, Idle, EmptyTable, Holds, Named, WithFile
  <1>2. OneSuffix /\ StoreInv /\ DirectoryInv /\ [Next]_vars => DirectoryInv'
    BY DirectoryNext
  <1>3. OneSuffix => OneSuffix'
    BY DEF OneSuffix
  <1> QED
    BY <1>1, <1>2, <1>3, StoreCorrect, PTL DEF Spec

\* Between two calls the directory holds exactly what the manifest names.
THEOREM DirectoryCorrect == OneSuffix /\ Spec => []DirectoryAgrees
  <1>1. DirectoryInv => DirectoryAgrees
    BY DEF DirectoryInv, DirectoryOK, DirectoryAgrees, Holds, Named, WithFile, Idle
  <1> QED
    BY <1>1, DirectoryInvCorrect, PTL

-----------------------------------------------------------------------------
(* Sums of bytes.  They are counted in units, so that what is known of     *)
(* cardinalities applies.                                                  *)

\* As many units for each element as it weighs.
Units(w, S) == UNION {{x} \X (1 .. w[x]) : x \in S}

First(s) == CHOOSE x \in s : TRUE

LEMMA UnitsFacts ==
    ASSUME NEW S, IsFiniteSet(S), NEW w \in [S -> Nat], NEW s \in SUBSET S
    PROVE  /\ IsFiniteSet(Units(w, s))
           /\ Cardinality(Units(w, s)) \in Nat
           /\ s = {} => Cardinality(Units(w, s)) = 0
           /\ \A x \in s : Cardinality(Units(w, s)) = w[x] + Cardinality(Units(w, s \ {x}))
  <1>1. ASSUME NEW x \in S
        PROVE  IsFiniteSet({x} \X (1 .. w[x])) /\ Cardinality({x} \X (1 .. w[x])) = w[x]
    <2>1. IsFiniteSet({x}) /\ Cardinality({x}) = 1
      BY FS_Singleton
    <2>2. w[x] \in Nat /\ IsFiniteSet(1 .. w[x]) /\ Cardinality(1 .. w[x]) = w[x]
      BY FS_Interval
    <2>3. IsFiniteSet({x} \X (1 .. w[x]))
          /\ Cardinality({x} \X (1 .. w[x])) = Cardinality({x}) * Cardinality(1 .. w[x])
      BY <2>1, <2>2, FS_Product
    <2> QED
      BY <2>1, <2>2, <2>3
  <1>2. ASSUME NEW r \in SUBSET S PROVE IsFiniteSet(Units(w, r))
    <2> DEFINE sets == {{x} \X (1 .. w[x]) : x \in r}
    <2>1. IsFiniteSet(r)
      BY FS_Subset
    <2>2. IsFiniteSet(sets)
      <3> DEFINE f == [x \in r |-> {x} \X (1 .. w[x])]
      <3>1. f \in Surjection(r, sets)
        BY DEF Surjection
      <3> QED
        BY <2>1, <3>1, FS_Surjection
    <2>3. \A u \in sets : IsFiniteSet(u)
      BY <1>1
    <2> HIDE DEF sets
    <2>4. IsFiniteSet(UNION sets)
      BY <2>2, <2>3, FS_UNION
    <2> QED
      BY <2>4 DEF Units, sets
  <1>3. ASSUME NEW x \in s
        PROVE  Cardinality(Units(w, s)) = w[x] + Cardinality(Units(w, s \ {x}))
    <2> DEFINE own == {x} \X (1 .. w[x])
               rest == Units(w, s \ {x})
    <2>1. Units(w, s) = own \cup rest /\ own \cap rest = {}
      BY DEF Units
    <2>2. IsFiniteSet(own) /\ Cardinality(own) = w[x] /\ w[x] \in Nat
      BY <1>1
    <2>3. IsFiniteSet(rest) /\ Cardinality(rest) \in Nat
      BY <1>2, FS_CardinalityType
    <2> HIDE DEF own, rest
    <2>4. Cardinality(own \cup rest) = Cardinality(own) + Cardinality(rest) - Cardinality(own \cap rest)
      BY <2>2, <2>3, FS_Union
    <2>5. Cardinality(own \cap rest) = 0
      BY <2>1, FS_EmptySet
    <2> QED
      BY <2>1, <2>2, <2>3, <2>4, <2>5 DEF rest
  <1>4. s = {} => Cardinality(Units(w, s)) = 0
    BY FS_EmptySet DEF Units
  <1> QED
    BY <1>2, <1>3, <1>4, FS_CardinalityType

\* A recursion over a finite set that adds what one element after the other
\* weighs yields the number of units.
LEMMA FoldIsUnits ==
    ASSUME NEW S, IsFiniteSet(S), NEW w \in [S -> Nat], NEW F,
           \A s \in SUBSET S :
               F[s] = IF s = {} THEN 0 ELSE w[First(s)] + F[s \ {First(s)}]
    PROVE  F[S] = Cardinality(Units(w, S))
  <1> DEFINE Wrong == {s \in SUBSET S : F[s] # Cardinality(Units(w, s))}
  <1> SUFFICES ASSUME Wrong # {} PROVE FALSE
    OBVIOUS
  <1>1. IsWellFoundedOn(StrictSubsetOrdering(S), SUBSET S)
    BY FS_StrictSubsetOrderingWellFounded, FS_FiniteSubsetsOfFinite
  <1>2. PICK s \in Wrong : \A r \in Wrong : <<r, s>> \notin StrictSubsetOrdering(S)
    BY <1>1, WFMin
  <1> DEFINE x == First(s)
             r == s \ {x}
  <1>3. s # {}
    BY <1>2, UnitsFacts
  <1>4. x \in s
    BY <1>3 DEF First
  <1>5. r \in SUBSET S /\ <<r, s>> \in StrictSubsetOrdering(S)
    BY <1>4 DEF StrictSubsetOrdering
  <1>6. F[r] = Cardinality(Units(w, r))
    BY <1>2, <1>5
  <1>7. F[s] = w[x] + F[r]
    BY <1>3
  <1>8. Cardinality(Units(w, s)) = w[x] + Cardinality(Units(w, r))
    BY <1>4, UnitsFacts
  <1> QED
    BY <1>6, <1>7, <1>8

Sizes(t) == [c \in DOMAIN t |-> t[c].size]

\* The bytes of a table, and those on the disk, are such a recursion.
LEMMA BytesAreUnits ==
    ASSUME NEW t, IsFiniteSet(DOMAIN t), \A c \in DOMAIN t : t[c].size \in Nat
    PROVE  Bytes(t) = Cardinality(Units(Sizes(t), DOMAIN t))
  <1> DEFINE S == DOMAIN t
             w == Sizes(t)
             Body(it) == [s \in SUBSET S |->
                 IF s = {} THEN 0 ELSE t[First(s)].size + it[s \ {First(s)}]]
             F == CHOOSE it : it = Body(it)
             G == [s \in SUBSET S |-> Cardinality(Units(w, s))]
  <1>1. Bytes(t) = F[S]
    BY Zenon DEF Bytes, MapThenSumSet, MapThenFoldSet, First
  <1>2. w \in [S -> Nat] /\ \A c \in S : w[c] = t[c].size
    BY DEF Sizes
  <1> HIDE DEF w
  <1>3. G = Body(G)
    <2> SUFFICES ASSUME NEW s \in SUBSET S
                 PROVE  G[s] = IF s = {} THEN 0 ELSE t[First(s)].size + G[s \ {First(s)}]
      OBVIOUS
    <2>1. CASE s = {}
      BY <1>2, <2>1, UnitsFacts
    <2>2. CASE s # {}
      <3>1. First(s) \in s
        BY <2>2 DEF First
      <3>2. Cardinality(Units(w, s)) = w[First(s)] + Cardinality(Units(w, s \ {First(s)}))
        BY <1>2, <3>1, UnitsFacts
      <3> QED
        BY <1>2, <2>2, <3>1, <3>2
    <2> QED
      BY <2>1, <2>2
  <1>4. F = Body(F)
    <2> HIDE DEF G, Body
    <2> QED
      BY <1>3
  <1>5. \A s \in SUBSET S : F[s] = IF s = {} THEN 0 ELSE t[First(s)].size + F[s \ {First(s)}]
    <2> HIDE DEF F
    <2> QED
      BY <1>4
  <1> HIDE DEF F
  <1>6. \A s \in SUBSET S : F[s] = IF s = {} THEN 0 ELSE w[First(s)] + F[s \ {First(s)}]
    BY <1>2, <1>5 DEF First
  <1>7. F[S] = Cardinality(Units(w, S))
    BY <1>2, <1>6, FoldIsUnits
  <1> QED
    BY <1>1, <1>7 DEF w, S

LEMMA DiskBytesAreUnits ==
    ASSUME NEW f, IsFiniteSet(DOMAIN f), f \in [DOMAIN f -> Nat]
    PROVE  DiskBytes(f) = Cardinality(Units(f, DOMAIN f))
  <1> DEFINE S == DOMAIN f
             Body(it) == [s \in SUBSET S |->
                 IF s = {} THEN 0 ELSE f[First(s)] + it[s \ {First(s)}]]
             F == CHOOSE it : it = Body(it)
             G == [s \in SUBSET S |-> Cardinality(Units(f, s))]
  <1>1. DiskBytes(f) = F[S]
    BY Zenon DEF DiskBytes, MapThenSumSet, MapThenFoldSet, First
  <1>2. G = Body(G)
    <2> SUFFICES ASSUME NEW s \in SUBSET S
                 PROVE  G[s] = IF s = {} THEN 0 ELSE f[First(s)] + G[s \ {First(s)}]
      OBVIOUS
    <2>1. CASE s = {}
      BY <2>1, UnitsFacts
    <2>2. CASE s # {}
      <3>1. First(s) \in s
        BY <2>2 DEF First
      <3>2. Cardinality(Units(f, s)) = f[First(s)] + Cardinality(Units(f, s \ {First(s)}))
        BY <3>1, UnitsFacts
      <3> QED
        BY <2>2, <3>1, <3>2
    <2> QED
      BY <2>1, <2>2
  <1>3. F = Body(F)
    <2> HIDE DEF G, Body
    <2> QED
      BY <1>2
  <1>4. \A s \in SUBSET S : F[s] = IF s = {} THEN 0 ELSE f[First(s)] + F[s \ {First(s)}]
    <2> HIDE DEF F
    <2> QED
      BY <1>3
  <1> HIDE DEF F
  <1>5. F[S] = Cardinality(Units(f, S))
    BY <1>4, FoldIsUnits
  <1> QED
    BY <1>1, <1>5

\* What a table counts of a directory that is in step with it.
LEMMA SameBytes ==
    ASSUME NEW f, IsDirectory(f), NEW t, IsTable(t), Holds(f, t, {})
    PROVE  DiskBytes(f) = Bytes(t)
  <1> DEFINE w == Sizes(t)
             U == Units(f, DOMAIN f)
             V == Units(w, DOMAIN t)
             m == [x \in U |-> <<x[1][1], x[2]>>]
  <1>1. w \in [DOMAIN t -> Nat] /\ \A c \in DOMAIN t : w[c] = t[c].size /\ t[c].size \in Nat
    BY DEF Sizes, IsTable, Entry
  <1> HIDE DEF w
  <1>2. /\ IsFiniteSet(U)
        /\ DiskBytes(f) = Cardinality(U)
    BY DiskBytesAreUnits, UnitsFacts DEF IsDirectory
  <1>3. Bytes(t) = Cardinality(V)
    BY <1>1, BytesAreUnits DEF IsTable, w
  <1>4. \A x \in U : \E c \in WithFile(t) :
            /\ x = <<<<c, t[c].path>>, x[2]>> /\ x[2] \in 1 .. w[c]
            /\ m[x] = <<c, x[2]>>
    <2> SUFFICES ASSUME NEW p \in DOMAIN f, NEW k \in 1 .. f[p]
                 PROVE  \E c \in WithFile(t) : p = <<c, t[c].path>> /\ k \in 1 .. w[c]
      BY DEF Units
    <2>1. PICK c \in WithFile(t) : p = <<c, t[c].path>>
      BY DEF Holds, Named
    <2> QED
      BY <1>1, <2>1 DEF Holds, WithFile
  <1>5. m \in [U -> V]
    <2> SUFFICES ASSUME NEW x \in U PROVE m[x] \in V
      OBVIOUS
    <2>1. PICK c \in WithFile(t) : x[2] \in 1 .. w[c] /\ m[x] = <<c, x[2]>>
      BY <1>4
    <2>2. m[x] \in {c} \X (1 .. w[c])
      BY <2>1
    <2> HIDE DEF m
    <2> QED
      BY <2>2 DEF Units, WithFile
  <1>6. m \in Injection(U, V)
    <2>1. ASSUME NEW x \in U, NEW y \in U, m[x] = m[y] PROVE x = y
      <3> HIDE DEF m, U, V
      <3>1. PICK c \in WithFile(t) : x = <<<<c, t[c].path>>, x[2]>> /\ m[x] = <<c, x[2]>>
        BY <1>4
      <3>2. PICK d \in WithFile(t) : y = <<<<d, t[d].path>>, y[2]>> /\ m[y] = <<d, y[2]>>
        BY <1>4
      <3>3. <<c, x[2]>> = <<d, y[2]>>
        BY <2>1, <3>1, <3>2
      <3>4. c = d /\ x[2] = y[2]
        BY <3>3
      <3> QED
        BY <3>1, <3>2, <3>4
    <2> QED
      BY <1>5, <2>1 DEF Injection, IsInjective
  <1>7. m \in Surjection(U, V)
    <2>4. \A y \in V : \E c \in DOMAIN t : \E k \in 1 .. w[c] : y = <<c, k>>
      BY DEF Units
    <2> SUFFICES ASSUME NEW c \in DOMAIN t, NEW k \in 1 .. w[c]
                 PROVE  \E x \in U : m[x] = <<c, k>>
      <3> HIDE DEF m, U, V
      <3> QED
        BY <1>5, <2>4 DEF Surjection
    <2> DEFINE p == <<c, t[c].path>>
    <2>1. c \in WithFile(t)
      BY <1>1 DEF WithFile, IsTable
    <2>2. p \in DOMAIN f /\ f[p] = w[c]
      BY <1>1, <2>1 DEF Holds, WithFile
    <2>3. <<p, k>> \in U
      BY <2>2 DEF Units
    <2> QED
      BY <2>3
  <1> HIDE DEF m, U, V
  <1> QED
    BY <1>2, <1>3, <1>6, <1>7, FS_Surjection

\* A collected entry takes its bytes out of the count.
LEMMA CollectedBytes ==
    ASSUME NEW t, IsTable(t), NEW c \in DOMAIN t
    PROVE  /\ Bytes(Collected(t, c)) = Bytes(t) - t[c].size
           /\ Bytes(t) \in Nat
  <1> DEFINE u == Collected(t, c)
  <1>1. /\ IsTable(u)
        /\ DOMAIN u = IF t[c].refs = {} THEN DOMAIN t \ {c} ELSE DOMAIN t
        /\ \A d \in DOMAIN t \ {c} : u[d] = t[d]
        /\ t[c].refs # {} => u[c].size = 0
    BY CollectedFacts
  <1> HIDE DEF u
  <1>2. ASSUME NEW v, IsTable(v)
        PROVE  /\ Sizes(v) \in [DOMAIN v -> Nat]
               /\ \A d \in DOMAIN v : Sizes(v)[d] = v[d].size
               /\ Bytes(v) = Cardinality(Units(Sizes(v), DOMAIN v))
    <2>1. \A d \in DOMAIN v : v[d].size \in Nat
      BY <1>2 DEF IsTable, Entry
    <2>2. Sizes(v) \in [DOMAIN v -> Nat] /\ \A d \in DOMAIN v : Sizes(v)[d] = v[d].size
      BY <2>1 DEF Sizes
    <2> QED
      BY <1>2, <2>1, <2>2, BytesAreUnits DEF IsTable
  <1>3. Units(Sizes(u), DOMAIN u) = Units(Sizes(t), DOMAIN t \ {c})
    <2>1. \A d \in DOMAIN t \ {c} : d \in DOMAIN u /\ Sizes(u)[d] = Sizes(t)[d]
      BY <1>1, <1>2
    <2>2. c \in DOMAIN u => Sizes(u)[c] = 0
      BY <1>1, <1>2
    <2>3. DOMAIN u \subseteq DOMAIN t
      BY <1>1
    <2> QED
      BY <2>1, <2>2, <2>3 DEF Units
  <1>4. /\ Cardinality(Units(Sizes(t), DOMAIN t)) \in Nat
        /\ Cardinality(Units(Sizes(t), DOMAIN t)) =
              Sizes(t)[c] + Cardinality(Units(Sizes(t), DOMAIN t \ {c}))
        /\ Cardinality(Units(Sizes(t), DOMAIN t \ {c})) \in Nat
    BY <1>2, UnitsFacts DEF IsTable
  <1>5. Sizes(t)[c] = t[c].size /\ t[c].size \in Nat
    BY <1>2
  <1> QED
    BY <1>1, <1>2, <1>3, <1>4, <1>5 DEF u

-----------------------------------------------------------------------------
(* A collection counts right and keeps to its order.                       *)

BytesInv ==
    call.op = "collect" => call.target \in Nat /\ call.bytes = Bytes(call.table.files)

LEMMA BytesNext ==
    ASSUME StoreInv, BytesInv, [Next]_vars
    PROVE  BytesInv'
  <1>1. ASSUME NEW target \in Targets, CollectBegins(target) PROVE BytesInv'
    BY <1>1, MediaStoreAssumption DEF CollectBegins, BytesInv
  <1>2. ASSUME NEW c \in Contents, CollectOne(c) PROVE BytesInv'
    <2>1. PICK now, target, table, bytes, todo :
             call = Collecting(now, target, table, bytes, todo) /\ CollectionOK(now, table, todo)
      BY <1>2, CollectingCall DEF CollectOne
    <2> DEFINE t == table.files
    <2>2. /\ call.op = "collect" /\ call.table = table /\ call.todo = todo
          /\ target \in Nat /\ bytes = Bytes(t)
      BY <2>1 DEF Collecting, BytesInv
    <2>3. c \in DOMAIN t /\ IsTable(t)
      BY <1>2, <2>1, <2>2 DEF CollectOne, CollectionOK, IsManifest
    <2>4. /\ call'.table.files = Collected(t, c)
          /\ call'.target = target /\ call'.bytes = bytes - t[c].size
      BY <1>2, <2>1, <2>2 DEF CollectOne, Collecting, CollectionOK, IsManifest
    <2> QED
      BY <2>2, <2>3, <2>4, CollectedBytes DEF BytesInv
  <1>3. CASE CopyOn
    BY <1>3, StoringCall DEF CopyOn, BytesInv, Storing
  <1>4. CASE UNCHANGED call
    BY <1>4 DEF BytesInv
  <1>5. CASE UNCHANGED vars
    BY <1>5 DEF vars, BytesInv
  <1>6. ASSUME NEW c, NEW s, NEW r, NEW policy, NEW ttl, StoreBegins(c, s, r, policy, ttl)
        PROVE  BytesInv'
    <2>1. call'.op \in {"save", "copy"}
      BY <1>6 DEF StoreBegins
    <2> QED
      BY <2>1 DEF BytesInv
  <1>7. ASSUME call' = Idle PROVE BytesInv'
    BY <1>7 DEF BytesInv, Idle
  <1> QED
    BY <1>1, <1>2, <1>3, <1>4, <1>5, <1>6, <1>7
    DEF Next, StoreEnds, Release, RecordSnapshot, CollectEnds, CallDies, TimePasses

\* A file that goes before its time goes only while the disk is over the target,
\* is kept by nothing, and has not been used later than any other such file that
\* holds bytes.
LEMMA RemovalsInOrder ==
    ASSUME StoreInv, DirectoryOK, BytesInv, NEW c \in Contents, CollectOne(c),
           ~Expired(manifest.files[c], call.now)
    PROVE  /\ DiskBytes(files) > call.target
           /\ ~Kept(manifest.files[c])
           /\ \A q \in DOMAIN files' : \/ Kept(manifest.files[q[1]])
                                       \/ manifest.files[q[1]].size = 0
                                       \/ manifest.files[c].used <= manifest.files[q[1]].used
  <1>1. PICK now, target, table, bytes, todo :
           call = Collecting(now, target, table, bytes, todo) /\ CollectionOK(now, table, todo)
    BY CollectingCall DEF CollectOne
  <1> DEFINE t == table.files
  <1>2. /\ call.op = "collect" /\ call.table = table /\ call.todo = todo /\ call.now = now
        /\ call.target = target /\ target \in Nat /\ call.bytes = Bytes(t)
    BY <1>1 DEF Collecting, BytesInv
  <1>3. Holds(files, t, {}) /\ IsTable(t) /\ IsDirectory(files)
    BY <1>1, <1>2 DEF DirectoryOK, CollectionOK, IsManifest, StoreInv, Typed
  <1>4. /\ c \in todo /\ ~Enough
        /\ \A d \in todo : ~GoesBefore(t, now, d, c)
        /\ files' = Drop(files, <<c, t[c].path>>)
    BY <1>2 DEF CollectOne
  <1>5. /\ todo = {d \in DOMAIN t : Collectable(t[d], now)}
        /\ \A d \in DOMAIN t : t[d] \in Entry
        /\ \A d \in WithFile(t) : t[d] = manifest.files[d]
        /\ \A d \in DOMAIN t : t[d].size > 0 => d \in WithFile(t)
    BY <1>1, <1>3 DEF CollectionOK, IsTable, WithFile, Entry
  <1>6. c \in DOMAIN t /\ Collectable(t[c], now) /\ t[c] = manifest.files[c] /\ ~Expired(t[c], now)
    BY <1>2, <1>4, <1>5 DEF Collectable, WithFile
  <1>7. \A d \in todo : ~Expired(t[d], now) /\ ~(t[d].used < t[c].used)
    <2> SUFFICES ASSUME NEW d \in todo PROVE ~Expired(t[d], now) /\ ~(t[d].used < t[c].used)
      OBVIOUS
    <2>1. ~GoesBefore(t, now, d, c) /\ ~Expired(t[c], now)
      BY <1>4, <1>6
    <2>2. ~Expired(t[d], now)
      BY <2>1, Zenon DEF GoesBefore
    <2>3. Expired(t[d], now) <=> Expired(t[c], now)
      BY <2>1, <2>2
    <2>4. Expired(t[d], now) = Expired(t[c], now)
      BY <2>3 DEF Expired
    <2> QED
      BY <2>1, <2>2, <2>4, Zenon DEF GoesBefore
  <1>8. ~(Bytes(t) <= target)
    BY <1>2, <1>4, <1>7 DEF Enough
  <1>9. DiskBytes(files) = Bytes(t) /\ Bytes(t) \in Nat
    BY <1>3, <1>6, SameBytes, CollectedBytes
  <1>10. DiskBytes(files) > call.target
    BY <1>2, <1>8, <1>9
  <1>11. ASSUME NEW q \in DOMAIN files', ~Kept(manifest.files[q[1]]),
                manifest.files[q[1]].size # 0
         PROVE  manifest.files[c].used <= manifest.files[q[1]].used
    <2>1. q \in Named(t)
      BY ZenonT(60), <1>3, <1>4, DropFacts DEF Holds
    <2>2. PICK d \in WithFile(t) : q = <<d, t[d].path>>
      BY <2>1 DEF Named
    <2>3. q[1] = d /\ t[d] = manifest.files[d] /\ t[d] \in Entry /\ d \in DOMAIN t
      BY <1>5, <2>2 DEF WithFile
    <2>4. d \in todo
      BY <1>5, <1>11, <2>3 DEF Kept, Collectable, Entry
    <2> QED
      BY <1>5, <1>6, <1>7, <2>3, <2>4 DEF Entry
  <1> QED
    BY <1>6, <1>10, <1>11 DEF Collectable, Kept

\* When a collection ends the disk is within the target or holds kept files only,
\* and no file whose time was over, but for empty ones.
LEMMA EndsWithinTarget ==
    ASSUME StoreInv, DirectoryOK, BytesInv, CollectEnds
    PROVE  LET left == {e \in {manifest'.files[p[1]] : p \in DOMAIN files'} : e.size > 0}
           IN /\ DiskBytes(files') <= call.target \/ \A e \in left : Kept(e)
              /\ \A e \in left : ~Expired(e, call.now)
  <1>1. PICK now, target, table, bytes, todo :
           call = Collecting(now, target, table, bytes, todo) /\ CollectionOK(now, table, todo)
    BY CollectingCall DEF CollectEnds
  <1> DEFINE t == table.files
  <1>2. /\ call.op = "collect" /\ call.table = table /\ call.todo = todo /\ call.now = now
        /\ call.target = target /\ call.bytes = Bytes(t)
    BY <1>1 DEF Collecting, BytesInv
  <1>3. Holds(files, t, {}) /\ IsTable(t) /\ IsDirectory(files)
    BY <1>1, <1>2 DEF DirectoryOK, CollectionOK, IsManifest, StoreInv, Typed
  <1>4. manifest' = table /\ files' = files /\ (todo = {} \/ Enough)
    BY <1>2 DEF CollectEnds
  <1>5. todo = {d \in DOMAIN t : Collectable(t[d], now)}
    BY <1>1 DEF CollectionOK
  <1>6. \A p \in DOMAIN files' : p[1] \in WithFile(t)
    BY <1>3, <1>4 DEF Holds, Named
  <1>7. ASSUME NEW d \in WithFile(t), t[d].size > 0
        PROVE  /\ ~Expired(t[d], now)
               /\ todo = {} => Kept(t[d])
    <2>1. d \in DOMAIN t /\ t[d].size > 0
      BY <1>7 DEF WithFile
    <2>2. todo = {} => ~Collectable(t[d], now)
      BY <1>5, <2>1
    <2>3. Enough => ~(Collectable(t[d], now) /\ Expired(t[d], now))
      BY <1>2, <1>5, <2>1 DEF Enough
    <2> QED
      BY <1>4, <2>1, <2>2, <2>3 DEF Collectable, Kept
  <1>8. DiskBytes(files') = Bytes(t)
    BY <1>3, <1>4, SameBytes
  <1>9. Enough => DiskBytes(files') <= call.target
    BY <1>2, <1>8 DEF Enough
  <1> QED
    BY <1>2, <1>4, <1>6, <1>7, <1>9

\* A collection removes files in order and no more than it must, and at its end
\* the target is met as far as it can be.
THEOREM CollectionCorrect == OneSuffix /\ Spec => CollectionMeetsTarget
  <1> DEFINE Removes ==
               crashes = 0 => \A p \in DOMAIN files \ DOMAIN files' :
                  LET Of(q) == manifest.files[q[1]]
                  IN ~Expired(Of(p), call.now) =>
                      /\ DiskBytes(files) > call.target
                      /\ ~Kept(Of(p))
                      /\ \A q \in DOMAIN files' :
                          Kept(Of(q)) \/ Of(q).size = 0 \/ Of(p).used <= Of(q).used
             Ends ==
               call.op = "collect" /\ call' = Idle /\ crashes' = 0 =>
                  LET left == {e \in {manifest'.files[p[1]] : p \in DOMAIN files'} : e.size > 0}
                  IN /\ DiskBytes(files') <= call.target \/ \A e \in left : Kept(e)
                     /\ \A e \in left : ~Expired(e, call.now)
  <1>1. Init => BytesInv
    BY DEF Init, BytesInv, Idle
  <1>2. StoreInv /\ BytesInv /\ [Next]_vars => BytesInv'
    BY BytesNext
  <1>3. ASSUME StoreInv, DirectoryInv, BytesInv, Next PROVE Removes
    <2> SUFFICES ASSUME crashes = 0, NEW p \in DOMAIN files \ DOMAIN files',
                        ~Expired(manifest.files[p[1]], call.now)
                 PROVE  /\ DiskBytes(files) > call.target
                        /\ ~Kept(manifest.files[p[1]])
                        /\ \A q \in DOMAIN files' :
                              \/ Kept(manifest.files[q[1]])
                              \/ manifest.files[q[1]].size = 0
                              \/ manifest.files[p[1]].used <= manifest.files[q[1]].used
      OBVIOUS
    <2>1. DirectoryOK
      BY <1>3 DEF DirectoryInv
    <2>2. ASSUME NEW c, NEW s, NEW r, NEW policy, NEW ttl, StoreBegins(c, s, r, policy, ttl)
          PROVE  DOMAIN files \subseteq DOMAIN files'
      <3>1. DOMAIN Put(files, <<c, s>>, 0) = DOMAIN files \cup {<<c, s>>}
        BY PutFacts
      <3> QED
        BY <2>2, <3>1 DEF StoreBegins
    <2>3. CopyOn => DOMAIN files \subseteq DOMAIN files'
      BY DEF CopyOn
    <2>4. PICK c \in Contents : CollectOne(c)
      BY <1>3, <2>2, <2>3 DEF Next, StoreEnds, Release, RecordSnapshot, CollectBegins,
         CollectEnds, CallDies, TimePasses
    <2>5. p[1] = c
      <3>1. PICK s : files' = Drop(files, <<c, s>>)
        BY <2>4 DEF CollectOne
      <3>2. DOMAIN Drop(files, <<c, s>>) = DOMAIN files \ {<<c, s>>}
        BY DropFacts
      <3> QED
        BY <3>1, <3>2
    <2> QED
      BY <1>3, <2>1, <2>4, <2>5, RemovalsInOrder
  <1>4. ASSUME StoreInv, DirectoryInv, BytesInv, Next PROVE Ends
    <2> SUFFICES ASSUME call.op = "collect", call' = Idle, crashes' = 0
                 PROVE  LET left == {e \in {manifest'.files[p[1]] : p \in DOMAIN files'} : e.size > 0}
                        IN /\ DiskBytes(files') <= call.target \/ \A e \in left : Kept(e)
                           /\ \A e \in left : ~Expired(e, call.now)
      BY Zenon
    <2>1. CollectEnds
      <3>1. ~CallDies
        BY <1>4 DEF CallDies, StoreInv, Typed
      <3>2. ASSUME NEW c \in Contents PROVE ~CollectOne(c)
        <4>1. CollectOne(c) => call'.op = "collect"
          BY <1>4, CollectingCall DEF CollectOne, Collecting
        <4> QED
          BY <4>1 DEF Idle
      <3>3. call # Idle /\ call' # call
        BY DEF Idle
      <3> QED
        BY <1>4, <3>1, <3>2, <3>3 DEF Next, StoreBegins, CopyOn, StoreEnds, Release,
           RecordSnapshot, CollectBegins, TimePasses
    <2>2. DirectoryOK
      BY <1>4, <2>1 DEF CollectEnds, DirectoryInv
    <2> QED
      BY <1>4, <2>1, <2>2, EndsWithinTarget
  <1> HIDE DEF Removes, Ends
  <1>5. StoreInv /\ DirectoryInv /\ BytesInv /\ [Next]_vars => [Removes /\ Ends]_vars
    BY <1>3, <1>4
  <1>6. OneSuffix /\ Spec => [][Removes /\ Ends]_vars
    BY <1>1, <1>2, <1>5, StoreCorrect, DirectoryInvCorrect, PTL DEF Spec
  <1> QED
    BY <1>6, PTL DEF CollectionMeetsTarget, Removes, Ends

=============================================================================
