---------------------------- MODULE Outbox_proofs ----------------------------
(***************************************************************************)
(* Proofs about Outbox for any page, any posts and limits, and any number  *)
(* of restarts of the service worker.                                       *)
(***************************************************************************)
EXTENDS Outbox, FiniteSetTheorems, SequenceTheorems, WellFoundedInduction, TLAPS

Labels == {"idle", "asking", "enqueuing", "queued", "not queued"} \cup FlushLabels

\* The flag is up exactly while one handler is flushing.
FlagAgrees ==
    /\ \A g, h \in Flushers : g = h
    /\ flushing <=> Flushers # {}

\* An element is pending while its handler is under way.
ElementsAgree ==
    /\ element \in [Elements -> {"visible", "pending", "captured"}]
    /\ \A e \in Elements : element[e] = "pending" <=> pc[e] # "idle"

\* The inductive invariant.
Guarded ==
    /\ ElementsAgree
    /\ pc \in [Handlers -> Labels]
    /\ flushing \in BOOLEAN
    /\ FlagAgrees
    /\ SentIsStored

-----------------------------------------------------------------------------

\* The initial state satisfies the invariant.
LEMMA GuardedInit == Init => Guarded
  BY DEF Init, Guarded, ElementsAgree, FlagAgrees, Handlers, Flushers, FlushLabels, Labels, SentIsStored

\* What becomes of the page when handler h goes on to label.
PageFollows(h, label) ==
    \/ /\ UNCHANGED element
       /\ h = Alarm \/ (pc[h] # "idle" /\ label # "idle")
    \/ \E flag \in {"visible", "pending", "captured"} :
        /\ h \in Elements
        /\ element' = [element EXCEPT ![h] = flag]
        /\ flag = "pending" <=> label # "idle"

\* A handler goes from one place to another.  Unless it begins or ends a flush,
\* it leaves the flag alone.
LEMMA HandlerMoves ==
    ASSUME Guarded, NEW h \in Handlers, NEW label \in Labels, Goto(h, label),
           PageFollows(h, label),
           \/ flushing' = flushing /\ (pc[h] \in FlushLabels <=> label \in FlushLabels)
           \/ ~flushing /\ flushing' = TRUE /\ label \in FlushLabels
           \/ pc[h] \in FlushLabels /\ flushing' = FALSE /\ label \notin FlushLabels,
           SentIsStored'
    PROVE  Guarded'
  <1>1. /\ pc' \in [Handlers -> Labels]
        /\ \A g \in Handlers : pc'[g] = IF g = h THEN label ELSE pc[g]
    BY DEF Guarded, Goto
  <1>7. ElementsAgree'
    <2>1. CASE UNCHANGED element /\ (h = Alarm \/ (pc[h] # "idle" /\ label # "idle"))
      BY <1>1, <2>1, OutboxAssumption DEF Guarded, ElementsAgree, Handlers
    <2>2. ASSUME NEW flag \in {"visible", "pending", "captured"}, h \in Elements,
                 element' = [element EXCEPT ![h] = flag],
                 flag = "pending" <=> label # "idle"
          PROVE  ElementsAgree'
      BY <1>1, <2>2 DEF Guarded, ElementsAgree, Handlers
    <2> QED
      BY <2>1, <2>2 DEF PageFollows
  <1>2. Flushers' = IF label \in FlushLabels THEN Flushers \cup {h} ELSE Flushers \ {h}
    BY <1>1 DEF Flushers
  <1>3. h \in Flushers <=> pc[h] \in FlushLabels
    BY DEF Flushers
  <1>4. CASE flushing' = flushing /\ (pc[h] \in FlushLabels <=> label \in FlushLabels)
    <2>1. Flushers' = Flushers
      BY <1>2, <1>3, <1>4
    <2> QED
      BY <1>1, <1>7, <1>4, <2>1 DEF Guarded, FlagAgrees
  <1>5. CASE ~flushing /\ flushing' = TRUE /\ label \in FlushLabels
    <2>1. Flushers' = {h}
      BY <1>2, <1>5 DEF Guarded, FlagAgrees
    <2> QED
      BY <1>1, <1>7, <1>5, <2>1 DEF Guarded, FlagAgrees
  <1>6. CASE pc[h] \in FlushLabels /\ flushing' = FALSE /\ label \notin FlushLabels
    <2>1. Flushers' = {}
      BY <1>2, <1>3, <1>6 DEF Guarded, FlagAgrees
    <2> QED
      BY <1>1, <1>7, <1>6, <2>1 DEF Guarded, FlagAgrees
  <1> QED
    BY <1>4, <1>5, <1>6

\* flushOutbox begins only when the flag is down.
LEMMA StartFlushStep ==
    ASSUME Guarded, NEW h \in Handlers, pc[h] \notin FlushLabels, StartFlush(h),
           h = Alarm \/ pc[h] # "idle",
           UNCHANGED <<sentCache, stored>>
    PROVE  Guarded'
  <1>1. SentIsStored'
    BY DEF Guarded, SentIsStored
  <1>2. CASE flushing
    <2>1. PageFollows(h, "idle") /\ Goto(h, "idle") /\ flushing' = flushing
      BY <1>2 DEF StartFlush, Finish, PageFollows, Handlers
    <2> QED
      BY <1>1, <2>1, HandlerMoves DEF Labels, FlushLabels
  <1>3. CASE ~flushing
    <2>1. PageFollows(h, "collecting") /\ Goto(h, "collecting") /\ flushing' = TRUE
      BY <1>3 DEF StartFlush, PageFollows
    <2> QED
      BY <1>1, <1>3, <2>1, HandlerMoves DEF Labels, FlushLabels
  <1> QED
    BY <1>2, <1>3

\* The loop of a flush stays inside the flush.
LEMMA ContinueStep ==
    ASSUME Guarded, NEW h \in Handlers, pc[h] \in FlushLabels, UNCHANGED flushing,
           UNCHANGED element,
           NEW todo, NEW kept, NEW delivered, Continue(h, todo, kept, delivered),
           SentIsStored'
    PROVE  Guarded'
  <1>1. PICK label \in {"saving flush", "not saved", "sending"} : Goto(h, label)
    BY DEF Continue
  <1>2. PageFollows(h, label)
    BY DEF PageFollows, FlushLabels
  <1> QED
    BY <1>1, <1>2, HandlerMoves DEF Labels, FlushLabels

\* A scan makes an element pending and starts its handler.
LEMMA ScanStep ==
    ASSUME Guarded, NEW e \in Elements, Scan(e)
    PROVE  Guarded'
  <1>1. pc[e] = "idle" /\ e \in Handlers /\ SentIsStored'
    BY DEF Scan, Guarded, ElementsAgree, Handlers, SentIsStored
  <1>2. PageFollows(e, "asking") /\ Goto(e, "asking") /\ flushing' = flushing
    BY DEF Scan, PageFollows
  <1> QED
    BY <1>1, <1>2, HandlerMoves DEF Labels, FlushLabels

\* The message handler up to its flush.
LEMMA EnqueueSteps ==
    ASSUME Guarded, NEW e \in Elements, EnqueueStep(e)
    PROVE  Guarded'
  <1>1. /\ e \in Handlers
        /\ pc[e] \in {"asking", "enqueuing", "queued", "not queued"}
        /\ SentIsStored' /\ UNCHANGED <<sentCache, stored>>
    BY DEF EnqueueStep, Decline, KnownSent, ReadOutbox, KnownQueued, SaveItem,
           SaveRejected, EnqueueRejected, FlushQueued, Handlers, Guarded, SentIsStored
  <1>2. CASE Decline(e) \/ EnqueueRejected(e)
    <2>1. PageFollows(e, "idle") /\ Goto(e, "idle") /\ flushing' = flushing
      BY <1>2, OutboxAssumption DEF Decline, EnqueueRejected, Finish, PageFollows
    <2> QED
      BY <1>1, <2>1, HandlerMoves DEF Labels, FlushLabels
  <1>3. CASE ReadOutbox(e) \/ SaveItem(e) \/ SaveRejected(e)
    <2>1. PICK label \in {"enqueuing", "queued", "not queued"} :
            PageFollows(e, label) /\ Goto(e, label) /\ flushing' = flushing
      BY <1>1, <1>3 DEF ReadOutbox, SaveItem, SaveRejected, PageFollows
    <2> QED
      BY <1>1, <2>1, HandlerMoves DEF Labels, FlushLabels
  <1>4. CASE KnownSent(e) \/ KnownQueued(e) \/ FlushQueued(e)
    <2>1. StartFlush(e)
      BY <1>4 DEF KnownSent, KnownQueued, FlushQueued
    <2> QED
      BY <1>1, <2>1, StartFlushStep DEF FlushLabels
  <1> QED
    BY <1>2, <1>3, <1>4 DEF EnqueueStep

\* The alarm, and every part of a flush.
LEMMA FlushSteps ==
    ASSUME Guarded, NEW h \in Handlers, AlarmRings \/ FlushStep(h)
    PROVE  Guarded'
  <1>1. CASE AlarmRings
    BY <1>1, StartFlushStep DEF AlarmRings, Handlers, FlushLabels
  <1>2. CASE BeginLoop(h)
    <2>1. SentIsStored'
      BY <1>2 DEF BeginLoop, Guarded, SentIsStored
    <2> QED
      BY <1>2, <2>1, ContinueStep DEF BeginLoop, FlushLabels
  <1>3. CASE Delivered(h)
    <2>1. SentIsStored'
      BY <1>3 DEF Delivered, Guarded, SentIsStored
    <2> QED
      BY <1>3, <2>1, ContinueStep DEF Delivered, FlushLabels
  <1>4. CASE NotDelivered(h)
    <2>1. SentIsStored'
      BY <1>4 DEF NotDelivered, Guarded, SentIsStored
    <2> QED
      BY <1>4, <2>1, ContinueStep DEF NotDelivered, FlushLabels
  <1>5. CASE EndFlush(h) \/ FlushRejected(h)
    <2>1. PageFollows(h, "idle") /\ Goto(h, "idle") /\ flushing' = FALSE
      BY <1>5 DEF EndFlush, FlushRejected, Finish, PageFollows, Handlers
    <2>2. SentIsStored' /\ pc[h] \in FlushLabels
      BY <1>5 DEF EndFlush, FlushRejected, Guarded, SentIsStored, FlushLabels
    <2> QED
      BY <2>1, <2>2, HandlerMoves DEF Labels, FlushLabels
  <1> QED
    BY <1>1, <1>2, <1>3, <1>4, <1>5 DEF FlushStep

\* A delay ends, or the service worker is stopped: the flag and the handlers go
\* together, and so does what it remembered as sent.
LEMMA EnvironmentSteps ==
    ASSUME Guarded, Environment
    PROVE  Guarded'
  <1>1. ASSUME NEW k \in Posts, BackoffEnds(k) PROVE Guarded'
    BY <1>1 DEF BackoffEnds, Guarded, ElementsAgree, FlagAgrees, Flushers, SentIsStored
  <1>2. CASE Restart
    <2>1. SentIsStored' /\ flushing' = FALSE /\ pc' = [h \in Handlers |-> "idle"]
      BY <1>2 DEF Restart, SentIsStored
    <2>2. ElementsAgree'
      BY <1>2, <2>1 DEF Restart, Guarded, ElementsAgree, Handlers
    <2>3. FlagAgrees'
      BY <2>1 DEF FlagAgrees, Flushers, FlushLabels
    <2> QED
      BY <2>1, <2>2, <2>3 DEF Guarded, Labels
  <1> QED
    BY <1>1, <1>2 DEF Environment

-----------------------------------------------------------------------------

\* Every step keeps the invariant.
LEMMA GuardedNext == Guarded /\ [Next]_vars => Guarded'
  <1> SUFFICES ASSUME Guarded, [Next]_vars PROVE Guarded'
    OBVIOUS
  <1>1. CASE Next
    <2>1. Alarm \in Handlers
      BY DEF Handlers
    <2> QED
      BY <1>1, <2>1, ScanStep, EnqueueSteps, FlushSteps, EnvironmentSteps DEF Next, Resume
  <1>2. CASE UNCHANGED vars
    BY <1>2 DEF vars, Guarded, ElementsAgree, FlagAgrees, Flushers, SentIsStored
  <1> QED
    BY <1>1, <1>2

\* Every reachable state satisfies the inductive invariant.
THEOREM GuardedCorrect == Spec => []Guarded
  BY GuardedInit, GuardedNext, PTL DEF Spec

\* flushInProgress keeps flushes apart, whatever handlers and restarts are mixed.
THEOREM OneFlushCorrect == Spec => []OneFlushAtATime
  <1>1. ASSUME Guarded PROVE OneFlushAtATime
    <2>1. CASE Flushers = {}
      BY <1>1, <2>1, FS_EmptySet DEF OneFlushAtATime, Guarded, FlagAgrees
    <2>2. CASE Flushers # {}
      <3>1. PICK h \in Flushers : Flushers = {h}
        BY <1>1, <2>2 DEF Guarded, FlagAgrees
      <3>2. Cardinality(Flushers) = 1
        BY <3>1, FS_Singleton
      <3> QED
        BY <1>1, <3>2 DEF OneFlushAtATime, Guarded, FlagAgrees
    <2> QED
      BY <2>1, <2>2
  <1> QED
    BY <1>1, GuardedCorrect, PTL

\* No post is remembered as sent on a mere attempt.
THEOREM SentCorrect == Spec => []SentIsStored
  <1>1. Guarded => SentIsStored
    BY DEF Guarded
  <1> QED
    BY <1>1, GuardedCorrect, PTL

\* A handler that is under way keeps its element pending, so that the page does
\* not send the post a second time meanwhile.
THEOREM ElementsCorrect == Spec => []ElementsAgree
  <1>1. Guarded => ElementsAgree
    BY DEF Guarded
  <1> QED
    BY <1>1, GuardedCorrect, PTL

-----------------------------------------------------------------------------
(* The lists.                                                              *)

Item == [key : Posts, waiting : BOOLEAN]

\* Each item of t is one of s, and no two are the same one.
Selects(t, s) ==
    \E f \in [1 .. Len(t) -> 1 .. Len(s)] :
        /\ \A m, n \in 1 .. Len(t) : f[m] = f[n] => m = n
        /\ \A n \in 1 .. Len(t) : t[n].key = s[f[n]].key

Sound(items) ==
    /\ items \in Seq(Item)
    /\ Len(items) <= MaxItems
    /\ \A m, n \in 1 .. Len(items) : items[m].key = items[n].key => m = n

\* What is selected from a sound list is sound.
LEMMA SelectionIsSound ==
    ASSUME NEW s, Sound(s), NEW t \in Seq(Item), Selects(t, s)
    PROVE  Sound(t)
  <1>1. PICK f \in [1 .. Len(t) -> 1 .. Len(s)] :
            /\ \A m, n \in 1 .. Len(t) : f[m] = f[n] => m = n
            /\ \A n \in 1 .. Len(t) : t[n].key = s[f[n]].key
    BY DEF Selects
  <1>2. Len(t) \in Nat /\ Len(s) \in Nat
    BY DEF Sound
  <1>3. f \in Injection(1 .. Len(t), 1 .. Len(s))
    BY <1>1 DEF Injection, IsInjective
  <1>4. Len(t) <= Len(s)
    <2>1. \A k \in Nat : IsFiniteSet(1 .. k) /\ Cardinality(1 .. k) = k
      <3> SUFFICES ASSUME NEW k \in Nat PROVE IsFiniteSet(1 .. k) /\ Cardinality(1 .. k) = k
        OBVIOUS
      <3>1. 1 \in Int /\ k \in Int
        OBVIOUS
      <3>2. IsFiniteSet(1 .. k) /\ Cardinality(1 .. k) = IF 1 > k THEN 0 ELSE k - 1 + 1
        BY <3>1, FS_Interval
      <3> QED
        BY <3>2
    <2>2. IsFiniteSet(1 .. Len(s))
      BY <1>2, <2>1
    <2>3. Cardinality(1 .. Len(t)) <= Cardinality(1 .. Len(s))
      BY <1>3, <2>2, FS_Injection
    <2> QED
      BY <1>2, <2>1, <2>3
  <1>5. ASSUME NEW m \in 1 .. Len(t), NEW n \in 1 .. Len(t), t[m].key = t[n].key
        PROVE  m = n
    <2>1. f[m] \in 1 .. Len(s) /\ f[n] \in 1 .. Len(s) /\ s[f[m]].key = s[f[n]].key
      BY <1>1, <1>5
    <2>2. f[m] = f[n]
      BY <2>1 DEF Sound
    <2> QED
      BY <1>1, <2>2
  <1> QED
    BY <1>2, <1>4, <1>5, OutboxAssumption DEF Sound

\* A list selects itself.
LEMMA SelectsItself ==
    ASSUME NEW s \in Seq(Item)
    PROVE  Selects(s, s)
  <1>1. [n \in 1 .. Len(s) |-> n] \in [1 .. Len(s) -> 1 .. Len(s)]
    OBVIOUS
  <1> QED
    BY <1>1 DEF Selects

\* Selections are put together.
LEMMA SelectsConcat ==
    ASSUME NEW s1 \in Seq(Item), NEW s2 \in Seq(Item),
           NEW t1 \in Seq(Item), NEW t2 \in Seq(Item),
           Selects(t1, s1), Selects(t2, s2)
    PROVE  Selects(t1 \o t2, s1 \o s2)
  <1>1. PICK f \in [1 .. Len(t1) -> 1 .. Len(s1)] :
            /\ \A m, n \in 1 .. Len(t1) : f[m] = f[n] => m = n
            /\ \A n \in 1 .. Len(t1) : t1[n].key = s1[f[n]].key
    BY DEF Selects
  <1>2. PICK g \in [1 .. Len(t2) -> 1 .. Len(s2)] :
            /\ \A m, n \in 1 .. Len(t2) : g[m] = g[n] => m = n
            /\ \A n \in 1 .. Len(t2) : t2[n].key = s2[g[n]].key
    BY DEF Selects
  <1> DEFINE t == t1 \o t2
             s == s1 \o s2
             h == [n \in 1 .. Len(t) |->
                      IF n <= Len(t1) THEN f[n] ELSE Len(s1) + g[n - Len(t1)]]
  <1>3. /\ Len(t) = Len(t1) + Len(t2) /\ Len(s) = Len(s1) + Len(s2)
        /\ Len(t1) \in Nat /\ Len(t2) \in Nat /\ Len(s1) \in Nat /\ Len(s2) \in Nat
    BY ConcatProperties
  <1>4. /\ \A n \in 1 .. Len(t) : t[n] = IF n <= Len(t1) THEN t1[n] ELSE t2[n - Len(t1)]
        /\ \A n \in 1 .. Len(s) : s[n] = IF n <= Len(s1) THEN s1[n] ELSE s2[n - Len(s1)]
    BY <1>3, ConcatProperties
  <1>5. h \in [1 .. Len(t) -> 1 .. Len(s)]
    BY <1>1, <1>2, <1>3
  <1>6. /\ \A n \in 1 .. Len(t) : n <= Len(t1) => n \in 1 .. Len(t1) /\ h[n] = f[n]
        /\ \A n \in 1 .. Len(t) : n > Len(t1) =>
              n - Len(t1) \in 1 .. Len(t2) /\ h[n] = Len(s1) + g[n - Len(t1)]
    BY <1>3
  <1> HIDE DEF t, s, h
  <1>7. /\ \A n \in 1 .. Len(t1) : f[n] \in 1 .. Len(s1)
        /\ \A n \in 1 .. Len(t2) : g[n] \in 1 .. Len(s2)
    BY <1>1, <1>2
  <1>9. ASSUME NEW m \in 1 .. Len(t), NEW n \in 1 .. Len(t), h[m] = h[n] PROVE m = n
    <2>1. CASE m <= Len(t1) /\ n <= Len(t1)
      BY <1>1, <1>6, <1>9, <2>1
    <2>2. CASE m > Len(t1) /\ n > Len(t1)
      <3> DEFINE i == m - Len(t1)
                 j == n - Len(t1)
      <3>1. i \in 1 .. Len(t2) /\ j \in 1 .. Len(t2)
        BY <1>6, <2>2
      <3>2. h[m] = Len(s1) + g[i] /\ h[n] = Len(s1) + g[j]
        BY <1>6, <2>2
      <3>4. m = Len(t1) + i /\ n = Len(t1) + j
        BY <1>3
      <3> HIDE DEF i, j
      <3>5. g[i] \in Int /\ g[j] \in Int /\ Len(s1) \in Int
        BY <1>3, <1>7, <3>1
      <3>6. Len(s1) + g[i] = Len(s1) + g[j]
        BY <1>9, <3>2
      <3>3. g[i] = g[j]
        BY <3>5, <3>6
      <3> QED
        BY <1>2, <3>1, <3>3, <3>4
    <2>3. ASSUME NEW a \in 1 .. Len(t), NEW b \in 1 .. Len(t), a <= Len(t1), b > Len(t1),
                 h[a] = h[b]
          PROVE  FALSE
      <3>1. h[a] = f[a] /\ f[a] \in 1 .. Len(s1)
        BY <1>6, <1>7, <2>3
      <3> DEFINE j == b - Len(t1)
      <3>2. h[b] = Len(s1) + g[j] /\ j \in 1 .. Len(t2)
        BY <1>6, <2>3
      <3> HIDE DEF j
      <3>3. g[j] \in Int /\ g[j] >= 1 /\ f[a] \in Int /\ f[a] <= Len(s1) /\ Len(s1) \in Int
        BY <1>3, <1>7, <3>1, <3>2
      <3>4. f[a] = Len(s1) + g[j]
        BY <2>3, <3>1, <3>2
      <3> QED
        BY <3>3, <3>4
    <2> QED
      BY <1>3, <1>9, <2>1, <2>2, <2>3
  <1>10. ASSUME NEW n \in 1 .. Len(t) PROVE t[n].key = s[h[n]].key
    <2>1. CASE n <= Len(t1)
      <3>1. n \in 1 .. Len(t1) /\ h[n] = f[n] /\ f[n] \in 1 .. Len(s1)
        BY <1>6, <1>7, <2>1
      <3>2. t[n] = t1[n]
        BY <1>4, <2>1
      <3>3. s[f[n]] = s1[f[n]]
        BY <1>3, <1>4, <3>1
      <3> QED
        BY <1>1, <3>1, <3>2, <3>3
    <2>2. CASE n > Len(t1)
      <3> DEFINE j == n - Len(t1)
      <3>1. j \in 1 .. Len(t2) /\ h[n] = Len(s1) + g[j]
        BY <1>6, <2>2
      <3>2. t[n] = t2[j]
        BY <1>3, <1>4, <2>2
      <3> HIDE DEF j
      <3>3. g[j] \in 1 .. Len(s2)
        BY <1>7, <3>1
      <3>4. Len(s1) + g[j] \in 1 .. Len(s) /\ ~(Len(s1) + g[j] <= Len(s1))
            /\ (Len(s1) + g[j]) - Len(s1) = g[j]
        BY <1>3, <3>3
      <3>5. s[h[n]] = s2[g[j]]
        BY <1>4, <3>1, <3>4
      <3> QED
        BY <1>2, <3>1, <3>2, <3>5
    <2> QED
      BY <1>3, <2>1, <2>2
  <1>8. Selects(t, s)
    BY <1>5, <1>9, <1>10 DEF Selects
  <1> QED
    BY <1>8 DEF t, s

\* A set of numbers has a least one.
LEMMA LeastNumber ==
    ASSUME NEW S \in SUBSET Nat, S # {}
    PROVE  \E n \in S : \A m \in S : n <= m
  <1> DEFINE Less == {p \in Nat \X Nat : p[1] < p[2]}
  <1>1. IsWellFoundedOn(Less, Nat)
    BY NatLessThanWellFounded DEF OpToRel
  <1> HIDE DEF Less
  <1>2. PICK n \in S : \A m \in S : <<m, n>> \notin Less
    BY <1>1, WFMin
  <1>3. \A m \in S : ~(m < n)
    BY <1>2 DEF Less
  <1> QED
    BY <1>2, <1>3

\* k holds what is left of the first n items.
Left(k, n, items, delivered) ==
    /\ k \in Seq(Item)
    /\ \E f \in [1 .. Len(k) -> 1 .. n] :
        /\ \A i, j \in 1 .. Len(k) : f[i] = f[j] => i = j
        /\ \A i \in 1 .. Len(k) : k[i].key = items[f[i]].key
    /\ \A i \in 1 .. n : items[i].key \in delivered \cup KeysOf(k)

NextLeft(k, n, items, delivered) ==
    IF items[n].key \in delivered THEN k ELSE Append(k, items[n])

\* One item more.
LEMMA LeftStep ==
    ASSUME NEW items \in Seq(Item), NEW delivered, NEW n \in 1 .. Len(items),
           NEW k, Left(k, n - 1, items, delivered)
    PROVE  Left(NextLeft(k, n, items, delivered), n, items, delivered)
  <1>1. n \in Nat /\ n - 1 \in Nat /\ items[n] \in Item /\ k \in Seq(Item) /\ Len(k) \in Nat
    BY DEF Left
  <1>2. PICK f \in [1 .. Len(k) -> 1 .. n - 1] :
            /\ \A i, j \in 1 .. Len(k) : f[i] = f[j] => i = j
            /\ \A i \in 1 .. Len(k) : k[i].key = items[f[i]].key
    BY DEF Left
  <1>3. CASE items[n].key \in delivered
    <2>1. f \in [1 .. Len(k) -> 1 .. n]
      BY <1>1, <1>2
    <2>2. \A i \in 1 .. n : items[i].key \in delivered \cup KeysOf(k)
      BY <1>1, <1>3 DEF Left
    <2> QED
      BY <1>1, <1>2, <1>3, <2>1, <2>2 DEF Left, NextLeft
  <1>4. CASE items[n].key \notin delivered
    <2> DEFINE l == Append(k, items[n])
               g == [i \in 1 .. Len(l) |-> IF i = Len(l) THEN n ELSE f[i]]
    <2>1. /\ l \in Seq(Item) /\ Len(l) = Len(k) + 1
          /\ \A i \in 1 .. Len(k) : l[i] = k[i]
          /\ l[Len(k) + 1] = items[n]
      BY <1>1, AppendProperties
    <2>2. g[Len(l)] = n /\ \A i \in 1 .. Len(k) : g[i] = f[i] /\ f[i] \in 1 .. n - 1
      BY <1>1, <1>2, <2>1
    <2>3. g \in [1 .. Len(l) -> 1 .. n]
      BY <1>1, <1>2, <2>1
    <2> HIDE DEF l, g
    <2>4. \A i \in 1 .. Len(l) : i = Len(l) \/ i \in 1 .. Len(k)
      BY <1>1, <2>1
    <2>5. \A i, j \in 1 .. Len(l) : g[i] = g[j] => i = j
      <3> SUFFICES ASSUME NEW i \in 1 .. Len(l), NEW j \in 1 .. Len(l), g[i] = g[j]
                   PROVE  i = j
        OBVIOUS
      <3>1. \A a \in 1 .. Len(k) : g[a] # n
        BY <1>1, <2>2
      <3> QED
        BY <1>2, <2>2, <2>4, <3>1
    <2>6. \A i \in 1 .. Len(l) : l[i].key = items[g[i]].key
      BY <1>2, <2>1, <2>2, <2>4
    <2>7. KeysOf(k) \subseteq KeysOf(l) /\ items[n].key \in KeysOf(l)
      <3>1. DOMAIN l = 1 .. Len(l) /\ DOMAIN k = 1 .. Len(k)
        BY <1>1, <2>1, LenProperties
      <3>2. 1 .. Len(k) \subseteq 1 .. Len(l) /\ Len(k) + 1 \in 1 .. Len(l)
        BY <1>1, <2>1
      <3> QED
        BY <2>1, <3>1, <3>2 DEF KeysOf
    <2>8. \A i \in 1 .. n : items[i].key \in delivered \cup KeysOf(l)
      <3> SUFFICES ASSUME NEW i \in 1 .. n PROVE items[i].key \in delivered \cup KeysOf(l)
        OBVIOUS
      <3>1. CASE i = n
        BY <2>7, <3>1
      <3>2. CASE i # n
        <4>1. i \in 1 .. n - 1
          BY <1>1, <3>2
        <4> QED
          BY <2>7, <4>1 DEF Left
      <3> QED
        BY <3>1, <3>2
    <2>9. Left(l, n, items, delivered)
      BY <2>1, <2>3, <2>5, <2>6, <2>8 DEF Left
    <2> QED
      BY <1>4, <2>9 DEF NextLeft, l
  <1> QED
    BY <1>3, <1>4

\* What a flush keeps of a list is a selection of it that leaves out delivered
\* posts only.
LEMMA UndeliveredFacts ==
    ASSUME NEW items \in Seq(Item), NEW delivered
    PROVE  /\ Undelivered(items, delivered) \in Seq(Item)
           /\ Selects(Undelivered(items, delivered), items)
           /\ KeysOf(items) \subseteq delivered \cup KeysOf(Undelivered(items, delivered))
  <1> DEFINE N == Len(items)
             Runs(g, n) == /\ g[0] = <<>>
                           /\ \A i \in 1 .. n : g[i] = NextLeft(g[i - 1], i, items, delivered)
             kept[n \in 0 .. Len(items)] ==
                IF n = 0 THEN <<>>
                ELSE IF items[n].key \in delivered THEN kept[n - 1]
                ELSE Append(kept[n - 1], items[n])
  <1>1. N \in Nat /\ DOMAIN items = 1 .. N
    BY LenProperties
  <1>2. Undelivered(items, delivered) = kept[N]
    BY DEF Undelivered
  <1>3. Left(<<>>, 0, items, delivered)
    <2>1. <<>> \in Seq(Item) /\ Len(<<>>) = 0
      BY EmptySeq
    <2>2. [i \in 1 .. 0 |-> 1] \in [1 .. Len(<<>>) -> 1 .. 0]
      BY <2>1
    <2>3. \A i \in 1 .. 0 : FALSE
      OBVIOUS
    <2>4. \E f \in [1 .. Len(<<>>) -> 1 .. 0] :
            /\ \A i, j \in 1 .. Len(<<>>) : f[i] = f[j] => i = j
            /\ \A i \in 1 .. Len(<<>>) : <<>>[i].key = items[f[i]].key
      BY <2>1, <2>2, <2>3, Zenon
    <2> QED
      BY <2>1, <2>3, <2>4, Zenon DEF Left
  <1>4. \E g : DOMAIN g = 0 .. N /\ Runs(g, N)
    <2> DEFINE Bad == {n \in 0 .. N : ~\E g : DOMAIN g = 0 .. n /\ Runs(g, n)}
    <2>1. CASE Bad = {}
      BY <1>1, <2>1
    <2>2. CASE Bad # {}
      <3>10. Bad \in SUBSET Nat
        BY <1>1
      <3>1. PICK n \in Bad : \A m \in Bad : n <= m
        <4> HIDE DEF Bad
        <4> QED
          BY <2>2, <3>10, LeastNumber
      <3>2. n # 0
        <4> DEFINE g == [i \in 0 .. 0 |-> <<>>]
        <4>1. DOMAIN g = 0 .. 0 /\ Runs(g, 0)
          OBVIOUS
        <4> QED
          BY <3>1, <4>1
      <3>3. n - 1 \in 0 .. N /\ n \in 1 .. N /\ n - 1 \notin Bad
        BY <1>1, <3>1, <3>2
      <3>4. PICK g : DOMAIN g = 0 .. n - 1 /\ Runs(g, n - 1)
        BY <3>3
      <3> DEFINE h == [i \in 0 .. n |-> IF i = n THEN NextLeft(g[n - 1], n, items, delivered)
                                        ELSE g[i]]
      <3>5. h[n] = NextLeft(g[n - 1], n, items, delivered)
        BY <1>1, <3>3
      <3>6. \A i \in 0 .. n - 1 : h[i] = g[i]
        BY <1>1, <3>3
      <3>7. DOMAIN h = 0 .. n
        OBVIOUS
      <3> HIDE DEF h
      <3>8. \A i \in 1 .. n : h[i] = NextLeft(h[i - 1], i, items, delivered)
        <4> SUFFICES ASSUME NEW i \in 1 .. n
                     PROVE  h[i] = NextLeft(h[i - 1], i, items, delivered)
          OBVIOUS
        <4>1. i - 1 \in 0 .. n - 1
          BY <1>1, <3>3
        <4>2. CASE i = n
          BY <3>5, <3>6, <4>1, <4>2
        <4>3. CASE i # n
          <5>1. i \in 1 .. n - 1 /\ i \in 0 .. n - 1
            BY <1>1, <3>3, <4>3
          <5> QED
            BY <3>4, <3>6, <4>1, <5>1
        <4> QED
          BY <4>2, <4>3
      <3>9. h[0] = <<>>
        <4>1. 0 \in 0 .. n - 1
          BY <1>1, <3>3
        <4> QED
          BY <3>4, <3>6, <4>1
      <3> QED
        BY <3>1, <3>7, <3>8, <3>9
    <2> QED
      BY <2>1, <2>2
  <1>5. kept = [n \in 0 .. Len(items) |->
                  IF n = 0 THEN <<>>
                  ELSE IF items[n].key \in delivered THEN kept[n - 1]
                  ELSE Append(kept[n - 1], items[n])]
    <2>1. PICK g : DOMAIN g = 0 .. N /\ Runs(g, N)
      BY <1>4
    <2> DEFINE G == [n \in 0 .. N |-> g[n]]
    <2>2. G = [n \in 0 .. Len(items) |->
                  IF n = 0 THEN <<>>
                  ELSE IF items[n].key \in delivered THEN G[n - 1]
                  ELSE Append(G[n - 1], items[n])]
      <3>1. \A n \in 0 .. N : n # 0 => n \in 1 .. N /\ n - 1 \in 0 .. N
        BY <1>1
      <3> QED
        BY <2>1, <3>1 DEF NextLeft
    <2> HIDE DEF G
    <2> QED
      BY <2>2
  <1> HIDE DEF kept
  <1>6. kept[0] = <<>> /\ \A n \in 1 .. N : kept[n] = NextLeft(kept[n - 1], n, items, delivered)
    <2>1. 0 \in 0 .. Len(items) /\ \A n \in 1 .. N : n \in 0 .. Len(items) /\ n # 0
      BY <1>1
    <2>2. kept[0] = <<>>
      BY <1>5, <2>1
    <2>3. ASSUME NEW n \in 1 .. N PROVE kept[n] = NextLeft(kept[n - 1], n, items, delivered)
      BY <1>5, <2>1 DEF NextLeft
    <2> QED
      BY <2>2, <2>3
  <1>7. Left(kept[N], N, items, delivered)
    <2> DEFINE Bad == {n \in 0 .. N : ~Left(kept[n], n, items, delivered)}
    <2>1. CASE Bad = {}
      BY <1>1, <2>1
    <2>2. CASE Bad # {}
      <3>10. Bad \in SUBSET Nat
        BY <1>1
      <3>1. PICK n \in Bad : \A m \in Bad : n <= m
        <4> HIDE DEF Bad
        <4> QED
          BY <2>2, <3>10, LeastNumber
      <3>2. n # 0
        BY <1>3, <1>6, <3>1
      <3>3. n - 1 \in 0 .. N /\ n \in 1 .. N /\ n - 1 \notin Bad
        BY <1>1, <3>1, <3>2
      <3>4. Left(kept[n], n, items, delivered)
        BY <1>6, <3>3, LeftStep
      <3> QED
        BY <3>1, <3>4
    <2> QED
      BY <2>1, <2>2
  <1> DEFINE k == Undelivered(items, delivered)
  <1>8. Left(k, N, items, delivered)
    BY <1>2, <1>7
  <1> HIDE DEF k
  <1> QED
    BY <1>1, <1>8 DEF Left, Selects, KeysOf, k

-----------------------------------------------------------------------------
(* The outbox, and the copies of it that handlers hold.                    *)

\* What a handler may still write back: what it keeps and what it has not looked
\* at yet.
InHand(h) == remaining[h] \o seen[h]

\* The inductive invariant.
OutboxInv ==
    /\ pc \in [Handlers -> Labels]
    /\ seen \in [Handlers -> Seq(Item)]
    /\ remaining \in [Handlers -> Seq(Item)]
    /\ Sound(outbox)
    /\ \A h \in Handlers :
        /\ Sound(InHand(h))
        /\ pc[h] = "sending" => seen[h] # <<>>
        /\ pc[h] # "sending" => remaining[h] = <<>>

\* An empty list is sound.
LEMMA EmptyIsSound == Sound(<<>>)
  <1>1. <<>> \in Seq(Item) /\ Len(<<>>) = 0
    BY EmptySeq
  <1> QED
    BY <1>1, OutboxAssumption DEF Sound

\* The initial state satisfies the invariant.
LEMMA OutboxInit == Init => OutboxInv
  <1> SUFFICES ASSUME Init PROVE OutboxInv
    OBVIOUS
  <1>1. <<>> \in Seq(Item) /\ <<>> \o <<>> = <<>>
    BY EmptySeq, ConcatEmptySeq
  <1>2. Sound(<<>>)
    BY EmptyIsSound
  <1>3. \A h \in Handlers : seen[h] = <<>> /\ remaining[h] = <<>> /\ pc[h] = "idle"
    BY DEF Init
  <1>4. /\ pc \in [Handlers -> Labels] /\ outbox = <<>>
        /\ seen \in [Handlers -> Seq(Item)] /\ remaining \in [Handlers -> Seq(Item)]
    BY <1>1 DEF Init, Labels
  <1> QED
    BY <1>1, <1>2, <1>3, <1>4 DEF OutboxInv, InHand

\* A part of handler h that leaves it with sound lists.
LEMMA HandKept ==
    ASSUME OutboxInv, NEW h \in Handlers, NEW label \in Labels, Goto(h, label),
           NEW s \in Seq(Item), NEW r \in Seq(Item),
           seen' = [seen EXCEPT ![h] = s], remaining' = [remaining EXCEPT ![h] = r],
           Sound(r \o s), label = "sending" => s # <<>>, label # "sending" => r = <<>>,
           Sound(outbox')
    PROVE  OutboxInv'
  <1>1. /\ pc' \in [Handlers -> Labels] /\ seen' \in [Handlers -> Seq(Item)]
        /\ remaining' \in [Handlers -> Seq(Item)]
    BY DEF OutboxInv, Goto
  <1>2. \A g \in Handlers : /\ pc'[g] = IF g = h THEN label ELSE pc[g]
                            /\ seen'[g] = IF g = h THEN s ELSE seen[g]
                            /\ remaining'[g] = IF g = h THEN r ELSE remaining[g]
    BY DEF OutboxInv, Goto
  <1>3. ASSUME NEW g \in Handlers
        PROVE  /\ Sound(remaining'[g] \o seen'[g])
               /\ pc'[g] = "sending" => seen'[g] # <<>>
               /\ pc'[g] # "sending" => remaining'[g] = <<>>
    <2>1. CASE g = h
      BY <1>2, <2>1
    <2>2. CASE g # h
      BY <1>2, <2>2 DEF OutboxInv, InHand
    <2> QED
      BY <2>1, <2>2
  <1>4. Sound(outbox)'
    BY DEF Sound
  <1> QED
    BY <1>1, <1>3, <1>4 DEF OutboxInv, InHand, Sound

\* A handler that is not sending holds a sound list or nothing.
LEMMA SeenIsSound ==
    ASSUME OutboxInv, NEW h \in Handlers, pc[h] # "sending"
    PROVE  remaining[h] = <<>> /\ seen[h] \in Seq(Item) /\ Sound(seen[h])
  <1>1. remaining[h] = <<>> /\ seen[h] \in Seq(Item) /\ Sound(remaining[h] \o seen[h])
    BY DEF OutboxInv, InHand
  <1>2. <<>> \o seen[h] = seen[h]
    BY <1>1, ConcatEmptySeq
  <1> QED
    BY <1>1, <1>2

\* A handler that lets go of its lists.
LEMMA HandEmptied ==
    ASSUME OutboxInv, NEW h \in Handlers, NEW label \in Labels \ {"sending"}, Goto(h, label),
           seen' = [seen EXCEPT ![h] = <<>>],
           remaining' = [remaining EXCEPT ![h] = <<>>] \/ (UNCHANGED remaining /\ pc[h] # "sending"),
           Sound(outbox')
    PROVE  OutboxInv'
  <1>1. <<>> \in Seq(Item) /\ <<>> \o <<>> = <<>>
    BY EmptySeq, ConcatEmptySeq
  <1>2. Sound(<<>>)
    BY EmptyIsSound
  <1>3. remaining' = [remaining EXCEPT ![h] = <<>>]
    BY DEF OutboxInv
  <1> QED
    BY <1>1, <1>2, <1>3, HandKept

\* A handler that reads the outbox.
LEMMA OutboxRead ==
    ASSUME OutboxInv, NEW h \in Handlers, NEW label \in Labels \ {"sending"}, Goto(h, label),
           pc[h] # "sending", seen' = [seen EXCEPT ![h] = outbox], UNCHANGED <<remaining, outbox>>
    PROVE  OutboxInv'
  <1>1. outbox \in Seq(Item) /\ Sound(outbox) /\ <<>> \in Seq(Item)
    BY EmptySeq DEF OutboxInv, Sound
  <1>2. <<>> \o outbox = outbox
    BY <1>1, ConcatEmptySeq
  <1>3. remaining' = [remaining EXCEPT ![h] = <<>>] /\ Sound(outbox')
    BY <1>1 DEF OutboxInv, Sound
  <1> QED
    BY ZenonT(60), <1>1, <1>2, <1>3, HandKept

\* A handler that begins a flush, or finds one in progress.
LEMMA StartFlushHand ==
    ASSUME OutboxInv, NEW h \in Handlers, pc[h] # "sending", StartFlush(h), UNCHANGED outbox
    PROVE  OutboxInv'
  <1>1. CASE flushing
    <2>1. /\ Goto(h, "idle") /\ seen' = [seen EXCEPT ![h] = <<>>]
          /\ remaining' = [remaining EXCEPT ![h] = <<>>]
      BY <1>1 DEF StartFlush, Finish
    <2> QED
      BY <2>1, HandEmptied DEF OutboxInv, Sound, Labels
  <1>2. CASE ~flushing
    BY <1>2, OutboxRead DEF StartFlush, Labels, FlushLabels
  <1> QED
    BY <1>1, <1>2

\* The keys of two lists put together.
LEMMA ConcatKeys ==
    ASSUME NEW s \in Seq(Item), NEW t \in Seq(Item)
    PROVE  KeysOf(s \o t) = KeysOf(s) \cup KeysOf(t)
  <1> DEFINE u == s \o t
  <1>1. /\ u \in Seq(Item) /\ Len(u) = Len(s) + Len(t) /\ Len(s) \in Nat /\ Len(t) \in Nat
        /\ \A n \in 1 .. Len(s) + Len(t) : u[n] = IF n <= Len(s) THEN s[n] ELSE t[n - Len(s)]
    BY ConcatProperties
  <1> HIDE DEF u
  <1>2. DOMAIN u = 1 .. Len(s) + Len(t) /\ DOMAIN s = 1 .. Len(s) /\ DOMAIN t = 1 .. Len(t)
    BY <1>1, LenProperties
  <1>3. \A n \in DOMAIN s : n \in DOMAIN u /\ u[n] = s[n]
    BY <1>1, <1>2
  <1>4. ASSUME NEW n \in DOMAIN t PROVE n + Len(s) \in DOMAIN u /\ u[n + Len(s)] = t[n]
    <2>1. n + Len(s) \in 1 .. Len(s) + Len(t) /\ ~(n + Len(s) <= Len(s))
          /\ (n + Len(s)) - Len(s) = n
      BY <1>1, <1>2, <1>4
    <2> QED
      BY <1>1, <1>2, <2>1
  <1>5. \A n \in DOMAIN u : \/ n \in DOMAIN s /\ u[n] = s[n]
                            \/ n - Len(s) \in DOMAIN t /\ u[n] = t[n - Len(s)]
    BY <1>1, <1>2
  <1>6. KeysOf(u) = KeysOf(s) \cup KeysOf(t)
    BY <1>3, <1>4, <1>5 DEF KeysOf
  <1> QED
    BY <1>6 DEF u

\* The loop passes over the items up to rest.
LEMMA PassedOver ==
    ASSUME NEW kept \in Seq(Item), NEW passed \in Seq(Item), NEW rest \in Seq(Item),
           NEW delivered, NEW keeping, keeping = kept \o Undelivered(passed, delivered),
           Sound(kept \o (passed \o rest))
    PROVE  /\ keeping \in Seq(Item) /\ keeping \o rest \in Seq(Item)
           /\ Sound(keeping \o rest)
           /\ KeysOf(kept \o (passed \o rest)) \subseteq delivered \cup KeysOf(keeping \o rest)
  <1> DEFINE u == Undelivered(passed, delivered)
  <1>1. /\ u \in Seq(Item) /\ Selects(u, passed)
        /\ KeysOf(passed) \subseteq delivered \cup KeysOf(u)
    BY UndeliveredFacts
  <1> HIDE DEF u
  <1>2. keeping = kept \o u
    BY DEF u
  <1>3. u \o rest \in Seq(Item) /\ passed \o rest \in Seq(Item) /\ keeping \in Seq(Item)
    BY <1>1, <1>2, ConcatProperties
  <1>4. keeping \o rest = kept \o (u \o rest)
    BY SMTT(30), <1>1, <1>2, ConcatAssociative
  <1>5. kept \o (u \o rest) \in Seq(Item)
    BY <1>3, ConcatProperties
  <1>6. Selects(u \o rest, passed \o rest)
    BY <1>1, SelectsItself, SelectsConcat
  <1>7. Selects(kept \o (u \o rest), kept \o (passed \o rest))
    BY <1>3, <1>6, SelectsItself, SelectsConcat
  <1>8. Sound(kept \o (u \o rest))
    BY <1>5, <1>7, SelectionIsSound
  <1>9. /\ KeysOf(kept \o (passed \o rest)) = KeysOf(kept) \cup KeysOf(passed) \cup KeysOf(rest)
        /\ KeysOf(kept \o (u \o rest)) = KeysOf(kept) \cup KeysOf(u) \cup KeysOf(rest)
    <2>1. /\ KeysOf(passed \o rest) = KeysOf(passed) \cup KeysOf(rest)
          /\ KeysOf(u \o rest) = KeysOf(u) \cup KeysOf(rest)
      BY <1>1, ConcatKeys
    <2>2. /\ KeysOf(kept \o (passed \o rest)) = KeysOf(kept) \cup KeysOf(passed \o rest)
          /\ KeysOf(kept \o (u \o rest)) = KeysOf(kept) \cup KeysOf(u \o rest)
      BY <1>3, ConcatKeys
    <2> QED
      BY <2>1, <2>2
  <1> QED
    BY <1>1, <1>3, <1>4, <1>5, <1>8, <1>9

\* The loop up to its next await keeps every list sound, and it loses no item but
\* those that are known to be delivered.
LEMMA ContinueHand ==
    ASSUME OutboxInv, NEW h \in Handlers,
           NEW todo \in Seq(Item), NEW kept \in Seq(Item), NEW delivered,
           Sound(kept \o todo), Continue(h, todo, kept, delivered)
    PROVE  /\ OutboxInv'
           /\ \/ /\ pc' = [pc EXCEPT ![h] = "saving flush"]
                 /\ KeysOf(kept \o todo) \subseteq delivered \cup KeysOf(outbox')
              \/ pc' = [pc EXCEPT ![h] = "not saved"] /\ outbox' = outbox
              \/ /\ pc' = [pc EXCEPT ![h] = "sending"]
                 /\ outbox' = outbox
                 /\ KeysOf(kept \o todo) \subseteq delivered \cup KeysOf(remaining'[h] \o seen'[h])
  <1> DEFINE next == SelectInSeq(todo, LAMBDA item : item.key \notin delivered /\ ~item.waiting)
             passed  == IF next = 0 THEN todo ELSE SubSeq(todo, 1, next - 1)
             keeping == kept \o Undelivered(passed, delivered)
             rest    == IF next = 0 THEN <<>> ELSE SubSeq(todo, next, Len(todo))
  <1>1. \/ /\ next = 0
           /\ \/ outbox' = keeping /\ Goto(h, "saving flush")
              \/ outbox' = outbox /\ Goto(h, "not saved")
           /\ seen' = [seen EXCEPT ![h] = <<>>] /\ remaining' = [remaining EXCEPT ![h] = <<>>]
        \/ /\ next # 0
           /\ outbox' = outbox /\ Goto(h, "sending")
           /\ seen' = [seen EXCEPT ![h] = SubSeq(todo, next, Len(todo))]
           /\ remaining' = [remaining EXCEPT ![h] = keeping]
    BY DEF Continue
  <1>2. next \in 0 .. Len(todo)
    <2> DEFINE I == {i \in 1 .. Len(todo) : todo[i].key \notin delivered /\ ~todo[i].waiting}
    <2>1. CASE I = {}
      <3>1. next = 0
        BY <2>1 DEF SelectInSeq
      <3> QED
        BY <3>1, LenProperties
    <2>2. CASE I # {}
      <3>1. I \in SUBSET Nat
        BY LenProperties
      <3>2. next = Min(I)
        BY <2>2 DEF SelectInSeq
      <3> HIDE DEF I, next
      <3>3. PICK n \in I : \A m \in I : n <= m
        BY <2>2, <3>1, LeastNumber
      <3>4. Min(I) \in I
        BY <3>3 DEF Min
      <3> QED
        BY <3>2, <3>4 DEF I
    <2> QED
      BY <2>1, <2>2
  <1> HIDE DEF next
  <1>3. Len(todo) \in Nat /\ \A i \in 1 .. Len(todo) : todo[i] \in Item
    BY LenProperties, ElementOfSeq
  <1>4. passed \in Seq(Item) /\ rest \in Seq(Item) /\ todo = passed \o rest
    <2>1. CASE next = 0
      BY <2>1, EmptySeq, ConcatEmptySeq
    <2>2. CASE next # 0
      <3>1. \A i \in 1 .. next - 1 : todo[i] \in Item
        BY <1>2, <1>3
      <3>2. \A i \in next .. Len(todo) : todo[i] \in Item
        BY <1>2, <1>3, <2>2
      <3>3. 1 \in Int /\ next \in Int /\ next - 1 \in Int /\ Len(todo) \in Int
        BY <1>2, <1>3
      <3>4. SubSeq(todo, 1, next - 1) \in Seq(Item) /\ SubSeq(todo, next, Len(todo)) \in Seq(Item)
        BY <3>1, <3>2, <3>3, SubSeqProperties
      <3>5. /\ 1 \in 1 .. Len(todo) + 1 /\ next - 1 \in 1 - 1 .. Len(todo)
            /\ Len(todo) \in next - 1 .. Len(todo) /\ (next - 1) + 1 = next
        BY <1>2, <1>3, <2>2
      <3>6. SubSeq(todo, 1, next - 1) \o SubSeq(todo, (next - 1) + 1, Len(todo))
            = SubSeq(todo, 1, Len(todo))
        BY <3>5, ConcatAdjacentSubSeq
      <3>7. SubSeq(todo, 1, Len(todo)) = todo
        BY SubSeqFull
      <3> QED
        BY <2>2, <3>4, <3>5, <3>6, <3>7
    <2> QED
      BY <2>1, <2>2
  <1>5. next # 0 => rest # <<>>
    <2>1. ASSUME next # 0 PROVE Len(SubSeq(todo, next, Len(todo))) = Len(todo) - next + 1
      <3>1. next \in Int /\ Len(todo) \in Int /\ next <= Len(todo)
            /\ \A i \in next .. Len(todo) : todo[i] \in Item
        BY <1>2, <1>3, <2>1
      <3> QED
        BY <3>1, SubSeqProperties
    <2>2. ASSUME next # 0 PROVE Len(rest) # 0
      BY <1>2, <1>3, <2>1, <2>2
    <2>3. Len(<<>>) = 0
      OBVIOUS
    <2> HIDE DEF rest
    <2> QED
      BY <2>2, <2>3
  <1> HIDE DEF passed
  <1> HIDE DEF rest
  <1>6. /\ keeping \in Seq(Item) /\ keeping \o rest \in Seq(Item)
        /\ Sound(keeping \o rest)
        /\ KeysOf(kept \o todo) \subseteq delivered \cup KeysOf(keeping \o rest)
    BY ZenonT(60), <1>4, PassedOver
  <1> HIDE DEF keeping
  <1>7. CASE next = 0
    <2>1. rest = <<>> /\ keeping \o rest = keeping
      BY <1>6, <1>7, ConcatEmptySeq DEF rest
    <2>2. /\ seen' = [seen EXCEPT ![h] = <<>>] /\ remaining' = [remaining EXCEPT ![h] = <<>>]
          /\ \/ outbox' = keeping /\ Goto(h, "saving flush")
             \/ outbox' = outbox /\ Goto(h, "not saved")
      BY <1>1, <1>7
    <2>3. CASE outbox' = keeping /\ Goto(h, "saving flush")
      <3>1. Sound(outbox')
        BY <1>6, <2>1, <2>3
      <3>2. OutboxInv'
        BY <2>2, <2>3, <3>1, HandEmptied DEF Labels, FlushLabels
      <3> QED
        BY <1>6, <2>1, <2>3, <3>2 DEF Goto
    <2>4. CASE outbox' = outbox /\ Goto(h, "not saved")
      <3>1. Sound(outbox')
        BY <2>4 DEF OutboxInv
      <3>2. OutboxInv'
        BY <2>2, <2>4, <3>1, HandEmptied DEF Labels, FlushLabels
      <3> QED
        BY <2>4, <3>2 DEF Goto
    <2> QED
      BY <2>2, <2>3, <2>4
  <1>8. CASE next # 0
    <2>1. /\ Goto(h, "sending") /\ outbox' = outbox
          /\ seen' = [seen EXCEPT ![h] = rest] /\ remaining' = [remaining EXCEPT ![h] = keeping]
          /\ rest # <<>>
      BY <1>1, <1>5, <1>8 DEF rest
    <2>2. OutboxInv'
      BY <1>4, <1>6, <2>1, HandKept DEF OutboxInv, Sound, Labels, FlushLabels
    <2>3. remaining'[h] = keeping /\ seen'[h] = rest
      BY <2>1 DEF OutboxInv
    <2> QED
      BY <1>6, <2>1, <2>2, <2>3 DEF Goto
  <1> QED
    BY <1>7, <1>8

\* A list is its first item and the rest.
LEMMA FirstAndRest ==
    ASSUME NEW s \in Seq(Item), s # <<>>
    PROVE  /\ s[1] \in Item /\ Tail(s) \in Seq(Item)
           /\ s = <<s[1]>> \o Tail(s)
  <1>1. /\ Tail(s) \in Seq(Item) /\ Len(Tail(s)) = Len(s) - 1
        /\ \A i \in 1 .. Len(Tail(s)) : Tail(s)[i] = s[i + 1]
    BY HeadTailProperties
  <1>2. Len(s) \in Nat \ {0}
    BY EmptySeq
  <1>3. s[1] \in Item
    BY <1>2, ElementOfSeq
  <1> DEFINE one == <<s[1]>>
  <1>4. one \in Seq(Item) /\ Len(one) = 1 /\ one[1] = s[1]
    BY <1>3
  <1> HIDE DEF one
  <1> DEFINE t == one \o Tail(s)
  <1>5. /\ t \in Seq(Item) /\ Len(t) = 1 + Len(Tail(s))
        /\ \A i \in 1 .. 1 + Len(Tail(s)) : t[i] = IF i <= 1 THEN one[i] ELSE Tail(s)[i - 1]
    <2>1. /\ t \in Seq(Item) /\ Len(t) = Len(one) + Len(Tail(s))
          /\ \A i \in 1 .. Len(one) + Len(Tail(s)) :
                t[i] = IF i <= Len(one) THEN one[i] ELSE Tail(s)[i - Len(one)]
      <3> DEFINE r == Tail(s)
      <3>1. r \in Seq(Item)
        BY <1>1
      <3> HIDE DEF r
      <3>2. /\ one \o r \in Seq(Item) /\ Len(one \o r) = Len(one) + Len(r)
            /\ \A i \in 1 .. Len(one) + Len(r) :
                  (one \o r)[i] = IF i <= Len(one) THEN one[i] ELSE r[i - Len(one)]
        BY <1>4, <3>1, ConcatProperties
      <3> QED
        BY <3>2 DEF r
    <2> HIDE DEF t
    <2> QED
      BY <1>4, <2>1
  <1>6. Len(t) = Len(s) /\ \A i \in 1 .. Len(s) : s[i] = t[i]
    BY <1>1, <1>2, <1>4, <1>5
  <1> HIDE DEF t
  <1>7. s = t
    BY <1>5, <1>6, SeqEqual
  <1> QED
    BY <1>1, <1>3, <1>7 DEF t, one

\* After an attempt the item is dropped, or kept for a later attempt.
LEMMA AttemptHand ==
    ASSUME OutboxInv, NEW h \in Handlers, pc[h] = "sending"
    PROVE  LET item == seen[h][1]
               again == Append(remaining[h], [item EXCEPT !.waiting = TRUE])
           IN /\ Tail(seen[h]) \in Seq(Item) /\ remaining[h] \in Seq(Item) /\ again \in Seq(Item)
              /\ Sound(remaining[h] \o Tail(seen[h])) /\ Sound(again \o Tail(seen[h]))
              /\ KeysOf(InHand(h)) \subseteq {item.key} \cup KeysOf(remaining[h] \o Tail(seen[h]))
              /\ KeysOf(InHand(h)) \subseteq KeysOf(again \o Tail(seen[h]))
  <1> DEFINE item  == seen[h][1]
             later == [item EXCEPT !.waiting = TRUE]
             rest  == Tail(seen[h])
             kept  == remaining[h]
             again == Append(kept, later)
  <1>1. seen[h] \in Seq(Item) /\ seen[h] # <<>> /\ kept \in Seq(Item)
    BY DEF OutboxInv
  <1>2. item \in Item /\ rest \in Seq(Item) /\ seen[h] = <<item>> \o rest
    BY <1>1, FirstAndRest
  <1>3. later \in Item /\ later.key = item.key
    BY <1>2 DEF Item
  <1>4. InHand(h) = kept \o (<<item>> \o rest) /\ Sound(InHand(h))
    BY <1>2 DEF OutboxInv, InHand
  <1> HIDE DEF item, later, rest, kept
  <1>5. again \in Seq(Item) /\ again = kept \o <<later>>
    BY <1>1, <1>3, AppendProperties, AppendIsConcat
  <1> HIDE DEF again
  <1>6. /\ <<item>> \in Seq(Item) /\ <<later>> \in Seq(Item) /\ <<>> \in Seq(Item)
        /\ Len(<<item>>) = 1 /\ Len(<<later>>) = 1 /\ Len(<<>>) = 0
        /\ <<item>>[1] = item /\ <<later>>[1] = later
    BY <1>2, <1>3
  <1>7. Selects(<<later>>, <<item>>)
    <2> DEFINE f == [n \in 1 .. 1 |-> 1]
    <2>1. f \in [1 .. Len(<<later>>) -> 1 .. Len(<<item>>)]
      BY <1>6
    <2>2. \A m, n \in 1 .. 1 : m = n
      OBVIOUS
    <2>3. \A n \in 1 .. 1 : n = 1 /\ f[n] = 1
      OBVIOUS
    <2>4. \A n \in 1 .. Len(<<later>>) : <<later>>[n].key = <<item>>[f[n]].key
      BY <1>3, <1>6, <2>3
    <2> HIDE DEF f
    <2>5. \A m, n \in 1 .. Len(<<later>>) : f[m] = f[n] => m = n
      BY <1>6, <2>2
    <2> QED
      BY <2>1, <2>4, <2>5 DEF Selects
  <1>8. Selects(<<>>, <<item>>)
    <2> DEFINE f == [n \in 1 .. 0 |-> 1]
    <2>1. f \in [1 .. Len(<<>>) -> 1 .. Len(<<item>>)]
      BY <1>6
    <2>2. \A n \in 1 .. Len(<<>>) : FALSE
      BY <1>6
    <2> HIDE DEF f
    <2> QED
      BY <2>1, <2>2 DEF Selects
  <1>9. /\ <<later>> \o rest \in Seq(Item) /\ <<item>> \o rest \in Seq(Item)
        /\ <<>> \o rest = rest
    BY <1>2, <1>6, ConcatProperties, ConcatEmptySeq
  <1>10. Selects(<<later>> \o rest, <<item>> \o rest)
    BY <1>2, <1>6, <1>7, SelectsItself, SelectsConcat
  <1>11. Selects(rest, <<item>> \o rest)
    <2>1. Selects(<<>> \o rest, <<item>> \o rest)
      BY <1>2, <1>6, <1>8, SelectsItself, SelectsConcat
    <2> QED
      BY <1>9, <2>1
  <1>12. again \o rest = kept \o (<<later>> \o rest)
    BY <1>1, <1>2, <1>5, <1>6, ConcatAssociative
  <1>13. Sound(again \o rest)
    <2>1. Selects(kept \o (<<later>> \o rest), kept \o (<<item>> \o rest))
      BY <1>1, <1>9, <1>10, SelectsItself, SelectsConcat
    <2>2. kept \o (<<later>> \o rest) \in Seq(Item)
      BY <1>1, <1>9, ConcatProperties
    <2> QED
      BY <1>4, <1>12, <2>1, <2>2, SelectionIsSound
  <1>14. Sound(kept \o rest)
    <2>1. Selects(kept \o rest, kept \o (<<item>> \o rest))
      BY <1>1, <1>2, <1>9, <1>11, SelectsItself, SelectsConcat
    <2>2. kept \o rest \in Seq(Item)
      BY <1>1, <1>2, ConcatProperties
    <2> QED
      BY <1>4, <2>1, <2>2, SelectionIsSound
  <1>15. /\ KeysOf(InHand(h)) = KeysOf(kept) \cup {item.key} \cup KeysOf(rest)
         /\ KeysOf(again \o rest) = KeysOf(kept) \cup {item.key} \cup KeysOf(rest)
         /\ KeysOf(kept \o rest) = KeysOf(kept) \cup KeysOf(rest)
    <2>1. KeysOf(<<item>>) = {item.key} /\ KeysOf(<<later>>) = {item.key}
      <3>1. DOMAIN <<item>> = {1} /\ DOMAIN <<later>> = {1}
        OBVIOUS
      <3> QED
        BY <1>3, <1>6, <3>1 DEF KeysOf
    <2>2. /\ KeysOf(<<item>> \o rest) = KeysOf(<<item>>) \cup KeysOf(rest)
          /\ KeysOf(<<later>> \o rest) = KeysOf(<<later>>) \cup KeysOf(rest)
          /\ KeysOf(kept \o rest) = KeysOf(kept) \cup KeysOf(rest)
      BY <1>1, <1>2, <1>6, ConcatKeys
    <2>3. /\ KeysOf(kept \o (<<item>> \o rest)) = KeysOf(kept) \cup KeysOf(<<item>> \o rest)
          /\ KeysOf(kept \o (<<later>> \o rest)) = KeysOf(kept) \cup KeysOf(<<later>> \o rest)
      BY <1>1, <1>9, ConcatKeys
    <2> QED
      BY <1>4, <1>12, <2>1, <2>2, <2>3
  <1>16. /\ rest \in Seq(Item) /\ kept \in Seq(Item) /\ again \in Seq(Item)
         /\ Sound(kept \o rest) /\ Sound(again \o rest)
         /\ KeysOf(InHand(h)) \subseteq {item.key} \cup KeysOf(kept \o rest)
         /\ KeysOf(InHand(h)) \subseteq KeysOf(again \o rest)
    BY <1>1, <1>2, <1>5, <1>13, <1>14, <1>15
  <1> QED
    BY <1>16 DEF item, later, rest, kept, again

\* The oldest items make room for the new one.
LEMMA SaveItemHand ==
    ASSUME OutboxInv, NEW e \in Elements, SaveItem(e)
    PROVE  /\ OutboxInv'
           /\ PostOf[e] \in KeysOf(outbox')
           /\ Len(seen[e]) < MaxItems => KeysOf(seen[e]) \subseteq KeysOf(outbox')
  <1> DEFINE s == seen[e]
             excess == Len(s) - (MaxItems - 1)
             room   == IF excess > 0 THEN SubSeq(s, excess + 1, Len(s)) ELSE s
             new    == [key |-> PostOf[e], waiting |-> FALSE]
  <1>1. /\ e \in Handlers /\ pc[e] = "enqueuing" /\ PostOf[e] \notin KeysOf(s)
        /\ outbox' = Append(room, new)
        /\ seen' = [seen EXCEPT ![e] = <<>>] /\ Goto(e, "queued") /\ UNCHANGED remaining
    BY DEF SaveItem, Handlers
  <1>2. s \in Seq(Item) /\ Sound(s)
    BY <1>1, SeenIsSound
  <1>3. new \in Item /\ new.key = PostOf[e] /\ MaxItems \in Nat \ {0}
    BY OutboxAssumption DEF Item
  <1>4. Len(s) \in Nat /\ Len(s) <= MaxItems /\ DOMAIN s = 1 .. Len(s)
        /\ \A i \in 1 .. Len(s) : s[i] \in Item
    BY <1>2, LenProperties, ElementOfSeq DEF Sound
  <1> HIDE DEF s, new
  <1>5. \E d \in Nat : /\ room \in Seq(Item) /\ d <= Len(s) /\ Len(room) = Len(s) - d
                       /\ \A i \in 1 .. Len(room) : room[i] = s[i + d]
                       /\ Len(room) <= MaxItems - 1
                       /\ Len(s) < MaxItems => d = 0
    <2>1. CASE excess > 0
      <3>1. excess + 1 \in Int /\ Len(s) \in Int /\ excess \in Nat /\ excess + 1 <= Len(s) + 1
            /\ \A i \in excess + 1 .. Len(s) : s[i] \in Item
        BY <1>3, <1>4, <2>1
      <3>2. /\ SubSeq(s, excess + 1, Len(s)) \in Seq(Item)
            /\ Len(SubSeq(s, excess + 1, Len(s)))
                 = IF excess + 1 <= Len(s) THEN Len(s) - (excess + 1) + 1 ELSE 0
            /\ \A i \in 1 .. Len(s) - (excess + 1) + 1 :
                  SubSeq(s, excess + 1, Len(s))[i] = s[(excess + 1) + i - 1]
        BY SMTT(30), <3>1, SubSeqProperties
      <3>3. room = SubSeq(s, excess + 1, Len(s))
        BY <2>1
      <3>4. Len(room) = Len(s) - excess
        BY <1>4, <3>1, <3>2, <3>3
      <3>5. \A i \in 1 .. Len(room) : room[i] = s[i + excess]
        <4> SUFFICES ASSUME NEW i \in 1 .. Len(room) PROVE room[i] = s[i + excess]
          OBVIOUS
        <4>1. i \in 1 .. Len(s) - (excess + 1) + 1 /\ (excess + 1) + i - 1 = i + excess
          BY SMTT(30), <1>4, <3>1, <3>4
        <4> QED
          BY <3>2, <3>3, <4>1
      <3>6. Len(room) <= MaxItems - 1 /\ ~(Len(s) < MaxItems)
        BY <1>3, <1>4, <3>4, <2>1
      <3>7. room \in Seq(Item) /\ excess <= Len(s)
        BY <1>3, <1>4, <3>1, <3>2, <3>3
      <3> QED
        BY <3>1, <3>4, <3>5, <3>6, <3>7
    <2>2. CASE ~(excess > 0)
      <3>1. room = s
        BY <2>2
      <3>2. Len(s) <= MaxItems - 1
        BY <1>3, <1>4, <2>2
      <3>3. \A i \in 1 .. Len(s) : s[i] = s[i + 0]
        BY <1>4
      <3>4. Len(s) = Len(s) - 0 /\ 0 <= Len(s) /\ 0 \in Nat
        BY <1>4
      <3> HIDE DEF room
      <3>5. /\ room \in Seq(Item) /\ 0 <= Len(s) /\ Len(room) = Len(s) - 0
            /\ \A i \in 1 .. Len(room) : room[i] = s[i + 0]
            /\ Len(room) <= MaxItems - 1
        BY <1>2, <3>1, <3>2, <3>3, <3>4
      <3> QED
        BY <3>4, <3>5
    <2> QED
      BY <2>1, <2>2
  <1> HIDE DEF room
  <1>6. PICK d \in Nat : /\ room \in Seq(Item) /\ d <= Len(s) /\ Len(room) = Len(s) - d
                         /\ \A i \in 1 .. Len(room) : room[i] = s[i + d]
                         /\ Len(room) <= MaxItems - 1
                         /\ Len(s) < MaxItems => d = 0
    BY <1>5
  <1> DEFINE box == Append(room, new)
  <1>7. /\ box \in Seq(Item) /\ Len(box) = Len(room) + 1 /\ Len(room) \in Nat
        /\ \A i \in 1 .. Len(room) : box[i] = room[i]
        /\ box[Len(room) + 1] = new
    BY <1>3, <1>6, AppendProperties, LenProperties
  <1> HIDE DEF box
  <1>8. \A i \in 1 .. Len(box) : \/ i = Len(box) /\ box[i] = new
                                 \/ i \in 1 .. Len(room) /\ i + d \in 1 .. Len(s) /\ box[i] = s[i + d]
    <2> SUFFICES ASSUME NEW i \in 1 .. Len(box), i # Len(box)
                 PROVE  i \in 1 .. Len(room) /\ i + d \in 1 .. Len(s) /\ box[i] = s[i + d]
      BY <1>7
    <2>1. i \in 1 .. Len(room)
      BY <1>7
    <2>2. i + d \in 1 .. Len(s)
      BY <1>4, <1>6, <1>7, <2>1
    <2> QED
      BY <1>6, <1>7, <2>1, <2>2
  <1>9. \A i \in 1 .. Len(s) : s[i].key # new.key
    BY <1>1, <1>3, <1>4 DEF KeysOf
  <1>10. ASSUME NEW i \in 1 .. Len(box), NEW j \in 1 .. Len(box), box[i].key = box[j].key
         PROVE  i = j
    <2>1. CASE i = Len(box) \/ j = Len(box)
      <3>1. \A a \in 1 .. Len(box) : a # Len(box) => box[a].key # new.key
        BY <1>8, <1>9
      <3>2. \A a \in 1 .. Len(box) : a = Len(box) => box[a].key = new.key
        BY <1>7
      <3> QED
        BY <1>10, <2>1, <3>1, <3>2
    <2>2. CASE i # Len(box) /\ j # Len(box)
      <3>1. /\ i + d \in 1 .. Len(s) /\ j + d \in 1 .. Len(s)
            /\ s[i + d].key = s[j + d].key
        BY <1>8, <1>10, <2>2
      <3>2. i + d = j + d
        BY <1>2, <3>1 DEF Sound
      <3> QED
        BY <1>7, <3>2
    <2> QED
      BY <2>1, <2>2
  <1>11. Sound(box)
    BY <1>3, <1>6, <1>7, <1>10 DEF Sound
  <1>12. outbox' = box
    BY <1>1 DEF box
  <1>13. OutboxInv'
    BY <1>1, <1>11, <1>12, HandEmptied DEF Labels
  <1>14. DOMAIN box = 1 .. Len(box)
    BY <1>7, LenProperties
  <1>15. PostOf[e] \in KeysOf(box)
    <2>1. Len(room) + 1 \in DOMAIN box
      BY <1>7, <1>14
    <2> QED
      BY <1>3, <1>7, <2>1 DEF KeysOf
  <1>16. ASSUME Len(s) < MaxItems PROVE KeysOf(s) \subseteq KeysOf(box)
    <2>1. \A i \in 1 .. Len(s) : i \in 1 .. Len(box) /\ box[i] = s[i]
      <3>1. d = 0 /\ Len(room) = Len(s)
        BY <1>4, <1>6, <1>16
      <3>2. \A i \in 1 .. Len(s) : i + 0 = i
        BY <1>4
      <3> QED
        BY <1>4, <1>6, <1>7, <3>1, <3>2
    <2> QED
      BY <1>4, <1>14, <2>1 DEF KeysOf
  <1> QED
    BY <1>12, <1>13, <1>15, <1>16 DEF s

\* Which delays are over says nothing about which posts are in a list.
LEMMA DueFacts ==
    ASSUME NEW items \in Seq(Item), NEW k
    PROVE  /\ Due(items, k) \in Seq(Item)
           /\ Selects(Due(items, k), items)
           /\ KeysOf(Due(items, k)) = KeysOf(items)
  <1>1. Len(items) \in Nat /\ DOMAIN items = 1 .. Len(items)
        /\ \A n \in 1 .. Len(items) : items[n] \in Item
    BY LenProperties, ElementOfSeq
  <1> DEFINE d == Due(items, k)
  <1>2. /\ DOMAIN d = 1 .. Len(items)
        /\ \A n \in 1 .. Len(items) : d[n] \in Item /\ d[n].key = items[n].key
    BY <1>1 DEF Due, Item
  <1>3. d \in [1 .. Len(items) -> Item]
    BY <1>1 DEF Due, Item
  <1> HIDE DEF d
  <1>4. d \in Seq(Item) /\ Len(d) = Len(items)
    BY <1>1, <1>2, <1>3, SeqDef
  <1>5. Selects(d, items)
    <2> DEFINE f == [n \in 1 .. Len(d) |-> n]
    <2>1. f \in [1 .. Len(d) -> 1 .. Len(items)] /\ \A n \in 1 .. Len(d) : f[n] = n
      BY <1>4
    <2> HIDE DEF f
    <2> QED
      BY SMTT(30), <1>2, <1>4, <2>1 DEF Selects
  <1>6. KeysOf(d) = KeysOf(items)
    BY <1>1, <1>2 DEF KeysOf
  <1> QED
    BY <1>4, <1>5, <1>6 DEF d

\* The steps of a flush that run its loop.  What was in hand, or in the list that
\* was read, is still in hand, or in the outbox, unless it is delivered.
LEMMA LoopHand ==
    ASSUME OutboxInv, NEW h \in Handlers, BeginLoop(h) \/ Delivered(h) \/ NotDelivered(h),
           sentCache \subseteq stored
    PROVE  /\ OutboxInv'
           /\ pc[h] \in {"collecting", "sending"}
           /\ sentCache' \subseteq stored' /\ stored \subseteq stored' /\ UNCHANGED element
           /\ \/ /\ pc' = [pc EXCEPT ![h] = "saving flush"]
                 /\ KeysOf(InHand(h)) \subseteq stored' \cup KeysOf(outbox')
              \/ pc' = [pc EXCEPT ![h] = "not saved"] /\ outbox' = outbox
              \/ /\ pc' = [pc EXCEPT ![h] = "sending"]
                 /\ outbox' = outbox
                 /\ KeysOf(InHand(h)) \subseteq stored' \cup KeysOf(remaining'[h] \o seen'[h])
  <1>1. CASE BeginLoop(h)
    <2>1. pc[h] = "collecting" /\ Continue(h, seen[h], <<>>, sentCache)
          /\ UNCHANGED <<sentCache, stored, element>>
      BY <1>1 DEF BeginLoop
    <2>2. seen[h] \in Seq(Item) /\ Sound(seen[h]) /\ remaining[h] = <<>> /\ <<>> \in Seq(Item)
      BY <2>1, SeenIsSound, EmptySeq
    <2>3. <<>> \o seen[h] = seen[h]
      BY <2>2, ConcatEmptySeq
    <2>4. InHand(h) = <<>> \o seen[h] /\ Sound(<<>> \o seen[h])
      BY <2>2, <2>3 DEF InHand
    <2> QED
      BY <2>1, <2>2, <2>4, ContinueHand
  <1>2. CASE Delivered(h)
    <2> DEFINE item == seen[h][1]
               rest == Tail(seen[h])
    <2>1. /\ pc[h] = "sending" /\ stored' = stored \cup {item.key}
          /\ sentCache' = sentCache \cup {item.key}
          /\ Continue(h, rest, remaining[h], sentCache') /\ UNCHANGED element
      BY <1>2 DEF Delivered
    <2>2. /\ rest \in Seq(Item) /\ remaining[h] \in Seq(Item)
          /\ Sound(remaining[h] \o rest)
          /\ KeysOf(InHand(h)) \subseteq {item.key} \cup KeysOf(remaining[h] \o rest)
      BY <2>1, AttemptHand
    <2> HIDE DEF item, rest
    <2> DEFINE known == sentCache'
    <2>3. known = sentCache \cup {item.key} /\ Continue(h, rest, remaining[h], known)
      BY <2>1
    <2> HIDE DEF known
    <2>4. /\ OutboxInv'
          /\ \/ /\ pc' = [pc EXCEPT ![h] = "saving flush"]
                /\ KeysOf(remaining[h] \o rest) \subseteq known \cup KeysOf(outbox')
             \/ pc' = [pc EXCEPT ![h] = "not saved"] /\ outbox' = outbox
             \/ /\ pc' = [pc EXCEPT ![h] = "sending"]
                /\ outbox' = outbox
                /\ KeysOf(remaining[h] \o rest)
                      \subseteq known \cup KeysOf(remaining'[h] \o seen'[h])
      BY <2>2, <2>3, ContinueHand
    <2>5. known \subseteq stored' /\ item.key \in stored' /\ sentCache' = known
          /\ stored \subseteq stored'
      BY <2>1, <2>3 DEF known
    <2> QED
      BY <2>1, <2>2, <2>4, <2>5
  <1>3. CASE NotDelivered(h)
    <2> DEFINE item == seen[h][1]
               rest == Tail(seen[h])
               again == Append(remaining[h], [item EXCEPT !.waiting = TRUE])
    <2>1. /\ pc[h] = "sending" /\ stored \subseteq stored' /\ sentCache' = sentCache
          /\ Continue(h, rest, again, sentCache) /\ UNCHANGED element
      BY <1>3 DEF NotDelivered
    <2>2. /\ rest \in Seq(Item) /\ again \in Seq(Item) /\ Sound(again \o rest)
          /\ KeysOf(InHand(h)) \subseteq KeysOf(again \o rest)
      BY <2>1, AttemptHand
    <2> HIDE DEF item, rest, again
    <2> QED
      BY <2>1, <2>2, ContinueHand
  <1> QED
    BY <1>1, <1>2, <1>3

\* Every step keeps every list sound.
LEMMA OutboxNext == OutboxInv /\ Guarded /\ [Next]_vars => OutboxInv'
  <1> SUFFICES ASSUME OutboxInv, Guarded, [Next]_vars PROVE OutboxInv'
    OBVIOUS
  <1>0. /\ sentCache \subseteq stored /\ Alarm \in Handlers /\ Elements \subseteq Handlers
        /\ \A e \in Elements : element[e] = "visible" => pc[e] = "idle"
        /\ Sound(outbox) /\ outbox \in Seq(Item)
    BY DEF Guarded, SentIsStored, Handlers, ElementsAgree, OutboxInv, Sound
  <1>1. ASSUME NEW e \in Elements, Scan(e) PROVE OutboxInv'
    <2>1. /\ e \in Handlers /\ pc[e] = "idle" /\ Goto(e, "asking")
          /\ UNCHANGED <<outbox, seen, remaining>>
      BY <1>0, <1>1 DEF Scan
    <2>2. seen' = [seen EXCEPT ![e] = seen[e]] /\ remaining' = [remaining EXCEPT ![e] = remaining[e]]
      BY <2>1 DEF OutboxInv
    <2>3. /\ remaining[e] = <<>> /\ seen[e] \in Seq(Item) /\ remaining[e] \in Seq(Item)
          /\ Sound(remaining[e] \o seen[e])
      BY <2>1 DEF OutboxInv, InHand
    <2>4. Sound(outbox')
      BY <1>0, <2>1
    <2>5. "asking" \in Labels /\ "asking" # "sending"
      BY DEF Labels
    <2> QED
      BY <2>1, <2>2, <2>3, <2>4, <2>5, HandKept
  <1>2. CASE AlarmRings
    BY <1>0, <1>2, StartFlushHand DEF AlarmRings
  <1>3. ASSUME NEW e \in Elements, EnqueueStep(e) PROVE OutboxInv'
    <2>1. e \in Handlers
      BY <1>0
    <2>2. CASE Decline(e) \/ EnqueueRejected(e)
      <3>1. /\ Goto(e, "idle") /\ seen' = [seen EXCEPT ![e] = <<>>]
            /\ remaining' = [remaining EXCEPT ![e] = <<>>] /\ Sound(outbox')
        BY <1>0, <2>2 DEF Decline, EnqueueRejected, Finish
      <3> QED
        BY <2>1, <3>1, HandEmptied DEF Labels
    <2>3. CASE KnownSent(e) \/ KnownQueued(e) \/ FlushQueued(e)
      <3>1. pc[e] # "sending" /\ StartFlush(e) /\ UNCHANGED outbox
        BY <2>3 DEF KnownSent, KnownQueued, FlushQueued
      <3> QED
        BY <2>1, <3>1, StartFlushHand
    <2>4. CASE ReadOutbox(e)
      <3>1. /\ pc[e] # "sending" /\ Goto(e, "enqueuing")
            /\ seen' = [seen EXCEPT ![e] = outbox] /\ UNCHANGED <<remaining, outbox>>
        BY <2>4 DEF ReadOutbox
      <3> QED
        BY <2>1, <3>1, OutboxRead DEF Labels
    <2>5. CASE SaveItem(e)
      BY <2>5, SaveItemHand
    <2>6. CASE SaveRejected(e)
      <3>1. /\ pc[e] = "enqueuing" /\ Goto(e, "not queued")
            /\ seen' = [seen EXCEPT ![e] = <<>>] /\ UNCHANGED <<remaining, outbox>>
        BY <2>6 DEF SaveRejected
      <3>2. remaining' = [remaining EXCEPT ![e] = <<>>] /\ Sound(outbox')
        BY <1>0, <2>1, <3>1 DEF OutboxInv
      <3> QED
        BY <2>1, <3>1, <3>2, HandEmptied DEF Labels
    <2> QED
      BY <1>3, <2>2, <2>3, <2>4, <2>5, <2>6 DEF EnqueueStep
  <1>4. ASSUME NEW h \in Handlers, FlushStep(h) PROVE OutboxInv'
    <2>1. CASE EndFlush(h) \/ FlushRejected(h)
      <3>1. /\ Goto(h, "idle") /\ seen' = [seen EXCEPT ![h] = <<>>]
            /\ remaining' = [remaining EXCEPT ![h] = <<>>] /\ Sound(outbox')
        BY <1>0, <2>1 DEF EndFlush, FlushRejected, Finish
      <3> QED
        BY <3>1, HandEmptied DEF Labels
    <2> QED
      BY <1>0, <1>4, <2>1, LoopHand DEF FlushStep
  <1>5. ASSUME NEW k \in Posts, BackoffEnds(k) PROVE OutboxInv'
    <2>1. /\ outbox' = Due(outbox, k) /\ seen' = [h \in Handlers |-> Due(seen[h], k)]
          /\ UNCHANGED <<pc, remaining>>
      BY <1>5 DEF BackoffEnds
    <2>2. Sound(outbox')
      BY <1>0, <2>1, DueFacts, SelectionIsSound
    <2>3. ASSUME NEW h \in Handlers
          PROVE  /\ seen'[h] \in Seq(Item) /\ Sound(remaining'[h] \o seen'[h])
                 /\ pc'[h] = "sending" => seen'[h] # <<>>
                 /\ pc'[h] # "sending" => remaining'[h] = <<>>
      <3> DEFINE s == seen[h]
                 d == Due(seen[h], k)
                 r == remaining[h]
      <3>1. s \in Seq(Item) /\ r \in Seq(Item) /\ Sound(r \o s)
        BY DEF OutboxInv, InHand
      <3>2. d \in Seq(Item) /\ Selects(d, s) /\ KeysOf(d) = KeysOf(s)
        BY <3>1, DueFacts
      <3>3. seen'[h] = d /\ remaining'[h] = r
        BY <2>1
      <3>4. pc'[h] = "sending" => s # <<>>
        BY <2>1 DEF OutboxInv
      <3>5. pc'[h] # "sending" => r = <<>>
        BY <2>1 DEF OutboxInv
      <3> HIDE DEF s, d, r
      <3>6. Selects(r \o d, r \o s) /\ r \o d \in Seq(Item)
        BY <3>1, <3>2, SelectsItself, SelectsConcat, ConcatProperties
      <3>7. Sound(r \o d)
        BY <3>1, <3>6, SelectionIsSound
      <3>8. s # <<>> => d # <<>>
        <4>1. s # <<>> => 1 \in DOMAIN s
          BY <3>1, EmptySeq, LenProperties
        <4>2. 1 \in DOMAIN s => KeysOf(s) # {}
          BY DEF KeysOf
        <4>3. d = <<>> => KeysOf(d) = {}
          BY DEF KeysOf
        <4> QED
          BY <3>2, <4>1, <4>2, <4>3
      <3> QED
        BY <3>2, <3>3, <3>4, <3>5, <3>7, <3>8
    <2>4. seen' \in [Handlers -> Seq(Item)]
      BY <2>1, <2>3
    <2>5. Sound(outbox)'
      BY <2>2 DEF Sound
    <2> QED
      BY <2>1, <2>3, <2>4, <2>5 DEF OutboxInv, InHand, Sound
  <1>6. CASE Restart
    <2>1. /\ outbox' = outbox
          /\ pc' = [h \in Handlers |-> "idle"] /\ seen' = [h \in Handlers |-> <<>>]
          /\ remaining' = [h \in Handlers |-> <<>>]
      BY <1>6 DEF Restart
    <2>2. <<>> \in Seq(Item) /\ <<>> \o <<>> = <<>> /\ Sound(<<>>)
      BY EmptySeq, ConcatEmptySeq, EmptyIsSound
    <2>3. \A h \in Handlers : pc'[h] = "idle" /\ seen'[h] = <<>> /\ remaining'[h] = <<>>
      BY <2>1
    <2>4. /\ pc' \in [Handlers -> Labels] /\ seen' \in [Handlers -> Seq(Item)]
          /\ remaining' \in [Handlers -> Seq(Item)]
      BY <2>1, <2>2 DEF Labels
    <2>5. Sound(outbox)'
      BY <1>0, <2>1 DEF Sound
    <2>6. \A h \in Handlers : Sound(remaining'[h] \o seen'[h])
      BY <2>2, <2>3
    <2> QED
      BY <2>3, <2>4, <2>5, <2>6 DEF OutboxInv, InHand, Sound
  <1>7. CASE UNCHANGED vars
    BY <1>7 DEF vars, OutboxInv, InHand, Sound
  <1> QED
    BY <1>1, <1>2, <1>3, <1>4, <1>5, <1>6, <1>7 DEF Next, Resume, Environment

\* Every reachable state satisfies the inductive invariant.
THEOREM OutboxInvCorrect == Spec => []OutboxInv
  BY OutboxInit, OutboxNext, GuardedCorrect, PTL DEF Spec

\* However handlers overwrite each other's lists, the outbox holds no post twice
\* and no more than MAX_OUTBOX_ITEMS.
THEOREM OutboxCorrect == Spec => []OutboxSound
  <1>1. OutboxInv => OutboxSound
    <2> SUFFICES ASSUME OutboxInv PROVE OutboxSound
      OBVIOUS
    <2>1. Sound(outbox)
      BY DEF OutboxInv
    <2>2. DOMAIN outbox = 1 .. Len(outbox)
      BY <2>1, LenProperties DEF Sound
    <2> QED
      BY <2>1, <2>2 DEF Sound, OutboxSound
  <1> QED
    BY <1>1, OutboxInvCorrect, PTL

-----------------------------------------------------------------------------
(* Delivery, when handlers run one after another and the outbox has room   *)
(* for every post.                                                         *)

EveryPostFits == IsFiniteSet(Posts) /\ Cardinality(Posts) <= MaxItems

\* The posts that are in the backend or on their way to it.
Kept == stored \cup KeysOf(outbox)

\* The inductive invariant: the handler that is under way holds what is in the
\* outbox, and it is about a post that is kept once it has written it.
SerialInv ==
    /\ \A g, h \in Handlers : pc[g] # "idle" /\ pc[h] # "idle" => g = h
    /\ \A h \in Handlers :
        /\ pc[h] = "enqueuing" => KeysOf(seen[h]) = KeysOf(outbox)
        /\ pc[h] \in {"collecting", "sending"} =>
               KeysOf(outbox) \subseteq stored \cup KeysOf(InHand(h))
        /\ h \in Elements /\ pc[h] \in {"queued"} \cup FlushLabels => PostOf[h] \in Kept
    /\ CapturedIsKept

\* A list that lacks a post has room for it.
LEMMA NewPostFits ==
    ASSUME EveryPostFits, NEW s, Sound(s), NEW p \in Posts, p \notin KeysOf(s)
    PROVE  Len(s) < MaxItems
  <1>1. Len(s) \in Nat /\ DOMAIN s = 1 .. Len(s) /\ \A i \in 1 .. Len(s) : s[i] \in Item
    BY LenProperties, ElementOfSeq DEF Sound
  <1> DEFINE f == [i \in 1 .. Len(s) |-> s[i].key]
             others == Posts \ {p}
  <1>2. \A i \in 1 .. Len(s) : f[i] = s[i].key /\ f[i] \in others
    BY <1>1 DEF KeysOf, Item
  <1>3. f \in [1 .. Len(s) -> others]
    BY <1>2
  <1>4. IsFiniteSet(others) /\ Cardinality(others) = Cardinality(Posts) - 1
        /\ Cardinality(Posts) \in Nat
    BY FS_RemoveElement, FS_CardinalityType DEF EveryPostFits
  <1> HIDE DEF f, others
  <1>5. \A i, j \in 1 .. Len(s) : f[i] = f[j] => i = j
    BY <1>2 DEF Sound
  <1>6. f \in Injection(1 .. Len(s), others)
    BY <1>3, <1>5 DEF Injection, IsInjective
  <1>7. Cardinality(1 .. Len(s)) <= Cardinality(others)
    BY <1>4, <1>6, FS_Injection
  <1>8. Cardinality(1 .. Len(s)) = Len(s)
    <2> DEFINE n == Len(s)
    <2>1. 1 \in Int /\ n \in Int
      BY <1>1
    <2> HIDE DEF n
    <2>2. Cardinality(1 .. n) = IF 1 > n THEN 0 ELSE n - 1 + 1
      BY <2>1, FS_Interval
    <2>3. n \in Nat => Cardinality(1 .. n) = n
      BY <2>2
    <2> QED
      BY <1>1, <2>3 DEF n
  <1> QED
    BY <1>1, <1>4, <1>7, <1>8, OutboxAssumption DEF EveryPostFits

\* The one handler that is under way goes on, and no post is given up.
LEMMA SerialMove ==
    ASSUME SerialInv, pc \in [Handlers -> Labels], NEW h \in Handlers, NEW label \in Labels,
           pc' = [pc EXCEPT ![h] = label],
           \A g \in Handlers : g # h => pc[g] = "idle",
           Kept \subseteq Kept',
           label = "enqueuing" => KeysOf(seen'[h]) = KeysOf(outbox'),
           label \in {"collecting", "sending"} =>
               KeysOf(outbox') \subseteq stored' \cup KeysOf(remaining'[h] \o seen'[h]),
           h \in Elements /\ label \in {"queued"} \cup FlushLabels => PostOf[h] \in Kept',
           \A e \in Elements : element'[e] = "captured" =>
               element[e] = "captured" \/ PostOf[e] \in Kept'
    PROVE  SerialInv'
  <1>1. \A g \in Handlers : pc'[g] = IF g = h THEN label ELSE "idle"
    OBVIOUS
  <1>2. CapturedIsKept'
    BY DEF SerialInv, CapturedIsKept, Captured, Kept
  <1>3. \A g \in Handlers :
        /\ pc'[g] = "enqueuing" => KeysOf(seen'[g]) = KeysOf(outbox')
        /\ pc'[g] \in {"collecting", "sending"} =>
               KeysOf(outbox') \subseteq stored' \cup KeysOf(remaining'[g] \o seen'[g])
        /\ g \in Elements /\ pc'[g] \in {"queued"} \cup FlushLabels => PostOf[g] \in Kept'
    BY <1>1 DEF FlushLabels
  <1>4. \A a, b \in Handlers : pc'[a] # "idle" /\ pc'[b] # "idle" => a = b
    BY <1>1
  <1> QED
    BY <1>2, <1>3, <1>4 DEF SerialInv, InHand, KeysOf

\* A flush begins, or finds one in progress, for a post that is kept.
LEMMA StartFlushSerial ==
    ASSUME SerialInv, OutboxInv, Guarded, NEW h \in Handlers, pc[h] # "sending", StartFlush(h),
           \A g \in Handlers : g # h => pc[g] = "idle",
           UNCHANGED <<outbox, stored>>,
           h \in Elements => PostOf[h] \in Kept
    PROVE  SerialInv'
  <1>1. Kept' = Kept /\ KeysOf(outbox') = KeysOf(outbox)
    BY DEF Kept, KeysOf
  <1>2. CASE flushing
    <2>1. /\ pc' = [pc EXCEPT ![h] = "idle"]
          /\ \A e \in Elements : element'[e] = "captured" => element[e] = "captured" \/ e = h
      BY <1>2 DEF StartFlush, Finish, Goto, Guarded, ElementsAgree
    <2> QED
      BY <1>1, <2>1, SerialMove DEF OutboxInv, Labels, FlushLabels
  <1>3. CASE ~flushing
    <2>1. /\ pc' = [pc EXCEPT ![h] = "collecting"] /\ seen' = [seen EXCEPT ![h] = outbox]
          /\ UNCHANGED <<element, remaining>>
      BY <1>3 DEF StartFlush, Goto
    <2>2. remaining'[h] = <<>> /\ seen'[h] = outbox /\ outbox \in Seq(Item)
      BY <2>1 DEF OutboxInv, Sound
    <2>3. remaining'[h] \o seen'[h] = outbox
      BY <2>2, ConcatEmptySeq
    <2> QED
      BY <1>1, <2>1, <2>3, SerialMove DEF OutboxInv, Labels, FlushLabels
  <1> QED
    BY <1>2, <1>3

\* A step of the serial specification is one of the specification.
LEMMA SerialIsStep == SerialNext => Next
  BY DEF SerialNext, Next

\* The initial state satisfies the invariant.
LEMMA SerialInit == Init => SerialInv
  BY DEF Init, SerialInv, CapturedIsKept, Captured, FlushLabels

\* Every step of the serial specification keeps the invariant.
LEMMA SerialSteps ==
    ASSUME EveryPostFits, SerialInv, OutboxInv, Guarded, [SerialNext]_vars
    PROVE  SerialInv'
  <1>0. /\ sentCache \subseteq stored /\ Alarm \in Handlers /\ Elements \subseteq Handlers
        /\ pc \in [Handlers -> Labels]
        /\ element \in [Elements -> {"visible", "pending", "captured"}]
        /\ \A e \in Elements : element[e] = "visible" => pc[e] = "idle"
        /\ \A h \in Handlers : pc[h] # "idle" => \A g \in Handlers : g # h => pc[g] = "idle"
    BY DEF Guarded, SentIsStored, Handlers, ElementsAgree, SerialInv
  <1>1. ASSUME NEW e \in Elements, Quiet, Scan(e) PROVE SerialInv'
    <2>1. /\ pc' = [pc EXCEPT ![e] = "asking"] /\ UNCHANGED <<outbox, stored>>
          /\ element' = [element EXCEPT ![e] = "pending"]
      BY <1>1 DEF Scan, Goto
    <2>2. Kept' = Kept
      BY <2>1 DEF Kept, KeysOf
    <2>3. \A g \in Elements : element'[g] = "captured" => element[g] = "captured"
      BY <1>0, <2>1
    <2>4. \A g \in Handlers : g # e => pc[g] = "idle"
      BY <1>1 DEF Quiet
    <2>5. e \in Handlers /\ "asking" \in Labels /\ "asking" \notin {"queued"} \cup FlushLabels
      BY <1>0 DEF Labels, FlushLabels
    <2> QED
      BY <1>0, <2>1, <2>2, <2>3, <2>4, <2>5, SerialMove
  <1>2. CASE Quiet /\ AlarmRings
    <2>1. /\ StartFlush(Alarm) /\ pc[Alarm] # "sending" /\ UNCHANGED <<outbox, stored>>
          /\ Alarm \notin Elements
          /\ \A g \in Handlers : g # Alarm => pc[g] = "idle"
      BY <1>2, OutboxAssumption DEF AlarmRings, Quiet
    <2> QED
      BY <1>0, <2>1, StartFlushSerial
  <1>3. ASSUME NEW e \in Elements, EnqueueStep(e) PROVE SerialInv'
    <2>0. /\ e \in Handlers /\ pc[e] \in {"asking", "enqueuing", "queued", "not queued"}
          /\ \A g \in Handlers : g # e => pc[g] = "idle"
      BY <1>0, <1>3 DEF EnqueueStep, Decline, KnownSent, ReadOutbox, KnownQueued, SaveItem,
                        SaveRejected, EnqueueRejected, FlushQueued
    <2>1. CASE Decline(e) \/ EnqueueRejected(e)
      <3>1. /\ pc' = [pc EXCEPT ![e] = "idle"] /\ UNCHANGED <<outbox, stored>>
            /\ \A g \in Elements : element'[g] = "captured" => element[g] = "captured"
        BY <1>0, <2>1, OutboxAssumption DEF Decline, EnqueueRejected, Finish, Goto
      <3>2. Kept' = Kept
        BY <3>1 DEF Kept, KeysOf
      <3> QED
        BY <1>0, <2>0, <3>1, <3>2, SerialMove DEF Labels, FlushLabels
    <2>2. CASE KnownSent(e)
      <3>1. PostOf[e] \in Kept
        BY <1>0, <2>2 DEF KnownSent, Kept
      <3> QED
        BY <2>0, <2>2, <3>1, StartFlushSerial DEF KnownSent
    <2>3. CASE KnownQueued(e)
      <3>1. PostOf[e] \in Kept
        BY <2>0, <2>3 DEF KnownQueued, SerialInv, Kept
      <3> QED
        BY <2>0, <2>3, <3>1, StartFlushSerial DEF KnownQueued
    <2>4. CASE FlushQueued(e)
      <3>1. PostOf[e] \in Kept
        BY <2>0, <2>4 DEF FlushQueued, SerialInv
      <3> QED
        BY <2>0, <2>4, <3>1, StartFlushSerial DEF FlushQueued
    <2>5. CASE ReadOutbox(e)
      <3>1. /\ pc' = [pc EXCEPT ![e] = "enqueuing"] /\ UNCHANGED <<outbox, stored, element>>
            /\ seen'[e] = outbox
        BY <2>0, <2>5 DEF ReadOutbox, Goto, OutboxInv
      <3>2. Kept' = Kept /\ KeysOf(seen'[e]) = KeysOf(outbox')
        BY <3>1 DEF Kept, KeysOf
      <3> QED
        BY <1>0, <2>0, <3>1, <3>2, SerialMove DEF Labels, FlushLabels
    <2>6. CASE SaveItem(e)
      <3>1. /\ pc[e] = "enqueuing" /\ pc' = [pc EXCEPT ![e] = "queued"]
            /\ PostOf[e] \notin KeysOf(seen[e]) /\ UNCHANGED <<stored, element>>
        BY <2>6 DEF SaveItem, Goto
      <3>2. KeysOf(seen[e]) = KeysOf(outbox) /\ Sound(seen[e])
        BY <2>0, <3>1, SeenIsSound DEF SerialInv
      <3>3. Len(seen[e]) < MaxItems
        BY <3>1, <3>2, NewPostFits, OutboxAssumption
      <3>4. KeysOf(outbox) \subseteq KeysOf(outbox') /\ PostOf[e] \in KeysOf(outbox')
        BY <2>6, <3>2, <3>3, SaveItemHand
      <3>5. Kept' = stored' \cup KeysOf(outbox')
        BY DEF Kept, KeysOf
      <3>6. Kept \subseteq Kept' /\ PostOf[e] \in Kept'
        BY <3>1, <3>4, <3>5 DEF Kept
      <3> QED
        BY <1>0, <2>0, <3>1, <3>6, SerialMove DEF Labels, FlushLabels
    <2>7. CASE SaveRejected(e)
      <3>1. /\ pc' = [pc EXCEPT ![e] = "not queued"] /\ UNCHANGED <<outbox, stored, element>>
        BY <2>7 DEF SaveRejected, Goto
      <3>2. Kept' = Kept
        BY <3>1 DEF Kept, KeysOf
      <3> QED
        BY <1>0, <2>0, <3>1, <3>2, SerialMove DEF Labels, FlushLabels
    <2> QED
      BY <1>3, <2>1, <2>2, <2>3, <2>4, <2>5, <2>6, <2>7 DEF EnqueueStep
  <1>4. ASSUME NEW h \in Handlers, FlushStep(h) PROVE SerialInv'
    <2>0. /\ pc[h] \in FlushLabels
          /\ \A g \in Handlers : g # h => pc[g] = "idle"
          /\ h \in Elements => PostOf[h] \in Kept
          /\ Kept' = stored' \cup KeysOf(outbox')
      <3>1. pc[h] \in FlushLabels
        BY <1>4 DEF FlushStep, BeginLoop, Delivered, NotDelivered, EndFlush, FlushRejected,
                        FlushLabels
      <3> QED
        BY <1>0, <3>1 DEF SerialInv, FlushLabels, Kept, KeysOf
    <2>1. CASE EndFlush(h) \/ FlushRejected(h)
      <3>1. /\ pc' = [pc EXCEPT ![h] = "idle"] /\ UNCHANGED <<outbox, stored>>
            /\ \A e \in Elements : element'[e] = "captured" => element[e] = "captured" \/ e = h
        BY <1>0, <2>1 DEF EndFlush, FlushRejected, Finish, Goto
      <3>2. Kept' = Kept
        BY <3>1 DEF Kept, KeysOf
      <3> QED
        BY <1>0, <2>0, <3>1, <3>2, SerialMove DEF Labels, FlushLabels
    <2>2. CASE BeginLoop(h) \/ Delivered(h) \/ NotDelivered(h)
      <3>1. /\ pc[h] \in {"collecting", "sending"}
            /\ stored \subseteq stored' /\ UNCHANGED element
            /\ \/ /\ pc' = [pc EXCEPT ![h] = "saving flush"]
                  /\ KeysOf(InHand(h)) \subseteq stored' \cup KeysOf(outbox')
               \/ pc' = [pc EXCEPT ![h] = "not saved"] /\ outbox' = outbox
               \/ /\ pc' = [pc EXCEPT ![h] = "sending"]
                  /\ outbox' = outbox
                  /\ KeysOf(InHand(h)) \subseteq stored' \cup KeysOf(remaining'[h] \o seen'[h])
        BY <1>0, <2>2, LoopHand
      <3>2. KeysOf(outbox) \subseteq stored \cup KeysOf(InHand(h))
        BY <3>1 DEF SerialInv
      <3>3. CASE /\ pc' = [pc EXCEPT ![h] = "saving flush"]
                 /\ KeysOf(InHand(h)) \subseteq stored' \cup KeysOf(outbox')
        <4>1. Kept \subseteq Kept'
          BY <2>0, <3>1, <3>2, <3>3 DEF Kept
        <4> QED
          BY <1>0, <2>0, <3>1, <3>3, <4>1, SerialMove DEF Labels, FlushLabels
      <3>4. CASE /\ pc' = [pc EXCEPT ![h] = "sending"]
                 /\ outbox' = outbox
                 /\ KeysOf(InHand(h)) \subseteq stored' \cup KeysOf(remaining'[h] \o seen'[h])
        <4>1. Kept \subseteq Kept'
          BY <2>0, <3>1, <3>4 DEF Kept
        <4>2. KeysOf(outbox') \subseteq stored' \cup KeysOf(remaining'[h] \o seen'[h])
          BY <3>1, <3>2, <3>4
        <4> QED
          BY <1>0, <2>0, <3>1, <3>4, <4>1, <4>2, SerialMove DEF Labels, FlushLabels
      <3>5. CASE pc' = [pc EXCEPT ![h] = "not saved"] /\ outbox' = outbox
        <4>1. Kept \subseteq Kept'
          BY <2>0, <3>1, <3>5 DEF Kept
        <4> QED
          BY <1>0, <2>0, <3>1, <3>5, <4>1, SerialMove DEF Labels, FlushLabels
      <3> QED
        BY <3>1, <3>3, <3>4, <3>5
    <2> QED
      BY <1>4, <2>1, <2>2 DEF FlushStep
  <1>5. ASSUME NEW k \in Posts, BackoffEnds(k) PROVE SerialInv'
    <2>1. /\ outbox' = Due(outbox, k) /\ seen' = [h \in Handlers |-> Due(seen[h], k)]
          /\ UNCHANGED <<pc, remaining, element, stored>>
          /\ ~flushing
      BY <1>5 DEF BackoffEnds
    <2>2. \A h \in Handlers : pc'[h] \notin {"collecting", "sending"}
      BY <2>1 DEF Guarded, FlagAgrees, Flushers, FlushLabels
    <2>3. outbox \in Seq(Item) /\ \A h \in Handlers : seen[h] \in Seq(Item)
      BY DEF OutboxInv, Sound
    <2>4. KeysOf(outbox') = KeysOf(outbox)
      BY <2>1, <2>3, DueFacts
    <2>5. ASSUME NEW h \in Handlers PROVE KeysOf(seen'[h]) = KeysOf(seen[h])
      <3>1. seen'[h] = Due(seen[h], k)
        BY <2>1
      <3> QED
        BY <2>3, <3>1, DueFacts
    <2>6. /\ KeysOf(outbox)' = KeysOf(outbox) /\ Kept' = Kept
          /\ \A h \in Handlers : KeysOf(seen[h])' = KeysOf(seen[h])
      BY <2>1, <2>4, <2>5 DEF Kept, KeysOf
    <2>7. CapturedIsKept'
      BY <2>1, <2>6 DEF SerialInv, CapturedIsKept, Captured
    <2> QED
      BY <2>1, <2>2, <2>6, <2>7 DEF SerialInv
  <1>6. CASE Restart
    <2>1. /\ outbox' = outbox /\ stored \subseteq stored'
          /\ pc' = [h \in Handlers |-> "idle"]
          /\ \A e \in Elements : element'[e] = "captured" => element[e] = "captured"
      BY <1>6 DEF Restart
    <2>2. Kept \subseteq Kept'
      BY <2>1 DEF Kept, KeysOf
    <2>3. CapturedIsKept'
      BY <2>1, <2>2 DEF SerialInv, CapturedIsKept, Captured, Kept
    <2>4. \A h \in Handlers : pc'[h] = "idle"
      BY <2>1
    <2> QED
      BY <2>3, <2>4 DEF SerialInv, FlushLabels
  <1>7. CASE UNCHANGED vars
    <2>1. /\ KeysOf(outbox)' = KeysOf(outbox) /\ Kept' = Kept /\ Captured' = Captured
          /\ \A h \in Handlers : KeysOf(seen[h])' = KeysOf(seen[h]) /\ InHand(h)' = InHand(h)
                               /\ KeysOf(InHand(h))' = KeysOf(InHand(h))
          /\ UNCHANGED <<pc, stored>>
      BY <1>7 DEF vars, Kept, Captured, KeysOf, InHand
    <2>2. CapturedIsKept'
      BY <2>1 DEF SerialInv, CapturedIsKept
    <2> QED
      BY <2>1, <2>2 DEF SerialInv
  <1> QED
    BY <1>1, <1>2, <1>3, <1>4, <1>5, <1>6, <1>7 DEF SerialNext, Resume, Environment

\* A post whose element is marked captured is in the outbox or in the backend:
\* "the outbox does not lose", as long as handlers run one after another and the
\* outbox has room for every post.
THEOREM CapturedCorrect ==
    ASSUME EveryPostFits
    PROVE  FairSerialSpec => []CapturedIsKept
  <1>1. [SerialNext]_vars => [Next]_vars
    BY SerialIsStep
  <1>2. SerialInv /\ OutboxInv /\ Guarded /\ [SerialNext]_vars => SerialInv'
    BY SerialSteps
  <1>3. SerialInv => CapturedIsKept
    BY DEF SerialInv
  <1> QED
    BY <1>1, <1>2, <1>3, SerialInit, OutboxInit, OutboxNext, GuardedInit, GuardedNext, PTL
       DEF FairSerialSpec

=============================================================================
