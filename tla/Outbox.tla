------------------------------- MODULE Outbox -------------------------------
(***************************************************************************)
(* The capturing side of the browser extension: the content script of one  *)
(* page (extension/content.js) and the service worker                      *)
(* (extension/background.js) that queues what it is sent in                *)
(* chrome.storage.local and forwards it to POST /capture.                  *)
(*                                                                         *)
(* The service worker runs one event at a time, but every handler is cut   *)
(* by its awaits, and the events between two parts of a handler may start  *)
(* or continue other handlers.  An action is one uncut part.  Chrome may   *)
(* stop the service worker between any two of them; only storage survives. *)
(*                                                                         *)
(* chrome.storage answers calls in the order they are made, so a call      *)
(* takes effect in the action that makes it and its answer is seen by the  *)
(* handler's next action.  A call may also be rejected: it has no effect,  *)
(* and the handler's next action sees an exception.                        *)
(***************************************************************************)
EXTENDS Naturals, FiniteSets, SequencesExt

CONSTANTS
    Elements,      \* article elements of the page
    Posts,         \* hashPost values
    PostOf,        \* what each element shows; two elements may show one post
    TooLarge,      \* posts over MAX_CAPTURE_BYTES
    Alarm,         \* the flush started by the alarm, startup or installation
    SessionLimit,  \* POST_LIMIT_PER_SESSION
    MaxItems,      \* MAX_OUTBOX_ITEMS
    MaxRestarts    \* bound: restarts of the service worker

ASSUME OutboxAssumption ==
    /\ IsFiniteSet(Elements)
    /\ PostOf \in [Elements -> Posts]
    /\ TooLarge \subseteq Posts
    /\ Alarm \notin Elements
    /\ SessionLimit \in Nat
    /\ MaxItems \in Nat \ {0}
    /\ MaxRestarts \in Nat

VARIABLES
    element,    \* dataset flags of each element
    outbox,     \* the outbox in storage
    sentCache,  \* posts this service worker knows to be delivered
    flushing,   \* flushInProgress
    pc,         \* where each handler is
    seen,       \* the outbox a handler has read, while it may still use it
    remaining,  \* the items a flush is going to keep
    stored,     \* posts the backend has committed
    restarts

vars == <<element, outbox, sentCache, flushing, pc, seen, remaining, stored, restarts>>

Handlers == Elements \cup {Alarm}

\* An item is a record of its key and of whether it is waiting: nextAttemptAt is
\* still to come.
KeysOf(items) == {items[n].key : n \in DOMAIN items}

Init ==
    /\ element = [e \in Elements |-> "visible"]
    /\ outbox = <<>>
    /\ sentCache = {}
    /\ flushing = FALSE
    /\ pc = [h \in Handlers |-> "idle"]
    /\ seen = [h \in Handlers |-> <<>>]
    /\ remaining = [h \in Handlers |-> <<>>]
    /\ stored = {}
    /\ restarts = 0

-----------------------------------------------------------------------------
(* What the parts of a handler end with.                                   *)

Goto(h, label) == pc' = [pc EXCEPT ![h] = label]

\* The handler is over.  A message handler has called sendResponse, whose
\* callback in the page clears 'pending' and sets 'captured' if accepted.
Finish(h, accepted) ==
    /\ Goto(h, "idle")
    /\ seen' = [seen EXCEPT ![h] = <<>>]
    /\ remaining' = [remaining EXCEPT ![h] = <<>>]
    /\ element' = IF h = Alarm THEN element
                  ELSE [element EXCEPT ![h] = IF accepted THEN "captured" ELSE "visible"]

\* Mutant: a flush in progress is not looked at.
StartFlushAnyway(h) ==
    /\ flushing' = TRUE
    /\ Goto(h, "collecting")
    /\ seen' = [seen EXCEPT ![h] = outbox]
    /\ UNCHANGED <<element, remaining>>

\* flushOutbox returns at once when another flush is in progress.
StartFlush(h) ==
    \/ /\ flushing
       /\ Finish(h, TRUE)
       /\ UNCHANGED flushing
    \/ /\ ~flushing
       /\ flushing' = TRUE
       /\ Goto(h, "collecting")
       /\ seen' = [seen EXCEPT ![h] = outbox]
       /\ UNCHANGED <<element, remaining>>

\* The items whose posts are not known to be delivered, in their order.
Undelivered(items, delivered) ==
    LET kept[n \in 0 .. Len(items)] ==
            IF n = 0 THEN <<>>
            ELSE IF items[n].key \in delivered THEN kept[n - 1]
            ELSE Append(kept[n - 1], items[n])
    IN kept[Len(items)]

\* The loop of flushOutbox up to its next await: delivered items are dropped,
\* waiting ones are kept, the first other one is sent.  After the last one the
\* list is saved, or that is rejected.
Continue(h, todo, kept, delivered) ==
    LET next    == SelectInSeq(todo, LAMBDA item : item.key \notin delivered /\ ~item.waiting)
        passed  == IF next = 0 THEN todo ELSE SubSeq(todo, 1, next - 1)
        keeping == kept \o Undelivered(passed, delivered)
    IN \/ /\ next = 0
          /\ \/ outbox' = keeping /\ Goto(h, "saving flush")
             \/ outbox' = outbox /\ Goto(h, "not saved")
          /\ seen' = [seen EXCEPT ![h] = <<>>]
          /\ remaining' = [remaining EXCEPT ![h] = <<>>]
       \/ /\ next # 0
          /\ Goto(h, "sending")
          /\ seen' = [seen EXCEPT ![h] = SubSeq(todo, next, Len(todo))]
          /\ remaining' = [remaining EXCEPT ![h] = keeping]
          /\ UNCHANGED outbox

-----------------------------------------------------------------------------
(* Content script.                                                         *)

Captured == {e \in Elements : element[e] = "captured"}

\* extractPost and sendPost for an element the scan comes across.
Scan(e) ==
    /\ element[e] = "visible"
    /\ Cardinality(Captured) < SessionLimit
    /\ element' = [element EXCEPT ![e] = "pending"]
    /\ Goto(e, "asking")
    /\ UNCHANGED <<outbox, sentCache, flushing, seen, remaining, stored, restarts>>

-----------------------------------------------------------------------------
(* Message handler: captureEnabled, then enqueue, then flushOutbox.        *)

\* captureEnabled is off or cannot be read, or the post is too large.
Decline(e) ==
    /\ pc[e] = "asking"
    /\ Finish(e, FALSE)
    /\ UNCHANGED <<outbox, sentCache, flushing, stored, restarts>>

KnownSent(e) ==
    /\ pc[e] = "asking"
    /\ PostOf[e] \in sentCache \ TooLarge
    /\ StartFlush(e)
    /\ UNCHANGED <<outbox, sentCache, stored, restarts>>

ReadOutbox(e) ==
    /\ pc[e] = "asking"
    /\ PostOf[e] \notin sentCache \cup TooLarge
    /\ Goto(e, "enqueuing")
    /\ seen' = [seen EXCEPT ![e] = outbox]
    /\ UNCHANGED <<element, outbox, sentCache, flushing, remaining, stored, restarts>>

KnownQueued(e) ==
    /\ pc[e] = "enqueuing"
    /\ PostOf[e] \in KeysOf(seen[e])
    /\ StartFlush(e)
    /\ UNCHANGED <<outbox, sentCache, stored, restarts>>

\* Mutant: the limit is noticed one item late.
SaveItemLate(e) ==
    LET excess == Len(seen[e]) - MaxItems
        room   == IF excess > 0 THEN SubSeq(seen[e], excess + 1, Len(seen[e])) ELSE seen[e]
    IN /\ pc[e] = "enqueuing"
       /\ PostOf[e] \notin KeysOf(seen[e])
       /\ outbox' = Append(room, [key |-> PostOf[e], waiting |-> FALSE])
       /\ seen' = [seen EXCEPT ![e] = <<>>]
       /\ Goto(e, "queued")
       /\ UNCHANGED <<element, sentCache, flushing, remaining, stored, restarts>>

\* Mutant: the list that was read is not searched for the post.
SaveItemAgain(e) ==
    LET excess == Len(seen[e]) - (MaxItems - 1)
        room   == IF excess > 0 THEN SubSeq(seen[e], excess + 1, Len(seen[e])) ELSE seen[e]
    IN /\ pc[e] = "enqueuing"
       /\ outbox' = Append(room, [key |-> PostOf[e], waiting |-> FALSE])
       /\ seen' = [seen EXCEPT ![e] = <<>>]
       /\ Goto(e, "queued")
       /\ UNCHANGED <<element, sentCache, flushing, remaining, stored, restarts>>

\* The oldest items make room for the new one, and the list that was read is
\* written back with it.
SaveItem(e) ==
    LET excess == Len(seen[e]) - (MaxItems - 1)
        room   == IF excess > 0 THEN SubSeq(seen[e], excess + 1, Len(seen[e])) ELSE seen[e]
    IN /\ pc[e] = "enqueuing"
       /\ PostOf[e] \notin KeysOf(seen[e])
       /\ outbox' = Append(room, [key |-> PostOf[e], waiting |-> FALSE])
       /\ seen' = [seen EXCEPT ![e] = <<>>]
       /\ Goto(e, "queued")
       /\ UNCHANGED <<element, sentCache, flushing, remaining, stored, restarts>>

\* saveOutbox is rejected.
SaveRejected(e) ==
    /\ pc[e] = "enqueuing"
    /\ PostOf[e] \notin KeysOf(seen[e])
    /\ seen' = [seen EXCEPT ![e] = <<>>]
    /\ Goto(e, "not queued")
    /\ UNCHANGED <<element, outbox, sentCache, flushing, remaining, stored, restarts>>

\* Mutant: nothing catches the exception.
EnqueueUncaught(e) ==
    /\ pc[e] \in {"enqueuing", "not queued"}
    /\ Goto(e, "idle")
    /\ seen' = [seen EXCEPT ![e] = <<>>]
    /\ UNCHANGED <<element, outbox, sentCache, flushing, remaining, stored, restarts>>

\* getOutbox or saveOutbox was rejected: the catch answers that the post was not
\* accepted.
EnqueueRejected(e) ==
    /\ pc[e] \in {"enqueuing", "not queued"}
    /\ Finish(e, FALSE)
    /\ UNCHANGED <<outbox, sentCache, flushing, stored, restarts>>

FlushQueued(e) ==
    /\ pc[e] = "queued"
    /\ StartFlush(e)
    /\ UNCHANGED <<outbox, sentCache, stored, restarts>>

-----------------------------------------------------------------------------
(* flushOutbox, of a message handler or of the alarm.                      *)

AlarmRings ==
    /\ pc[Alarm] = "idle"
    /\ StartFlush(Alarm)
    /\ UNCHANGED <<outbox, sentCache, stored, restarts>>

BeginLoop(h) ==
    /\ pc[h] = "collecting"
    /\ Continue(h, seen[h], <<>>, sentCache)
    /\ UNCHANGED <<element, sentCache, flushing, stored, restarts>>

\* The backend commits the post and its 2xx answer arrives.
Delivered(h) ==
    LET key == seen[h][1].key
    IN /\ pc[h] = "sending"
       /\ stored' = stored \cup {key}
       /\ sentCache' = sentCache \cup {key}
       /\ Continue(h, Tail(seen[h]), remaining[h], sentCache')
       /\ UNCHANGED <<element, flushing, restarts>>

\* Mutants: the post is remembered as sent although it may not be; it is dropped.
AttemptRemembered(h) ==
    LET item == seen[h][1]
    IN /\ pc[h] = "sending"
       /\ stored' \in {stored, stored \cup {item.key}}
       /\ sentCache' = sentCache \cup {item.key}
       /\ Continue(h, Tail(seen[h]),
                   Append(remaining[h], [item EXCEPT !.waiting = TRUE]), sentCache)
       /\ UNCHANGED <<element, flushing, restarts>>

AttemptDropped(h) ==
    LET item == seen[h][1]
    IN /\ pc[h] = "sending"
       /\ stored' \in {stored, stored \cup {item.key}}
       /\ Continue(h, Tail(seen[h]), remaining[h], sentCache)
       /\ UNCHANGED <<element, sentCache, flushing, restarts>>

\* No 2xx answer: the backend is down, refuses the post, or has committed it and
\* the answer is lost.  The item is kept for a later attempt.
NotDelivered(h) ==
    LET item == seen[h][1]
    IN /\ pc[h] = "sending"
       /\ stored' \in {stored, stored \cup {item.key}}
       /\ Continue(h, Tail(seen[h]),
                   Append(remaining[h], [item EXCEPT !.waiting = TRUE]), sentCache)
       /\ UNCHANGED <<element, sentCache, flushing, restarts>>

EndFlush(h) ==
    /\ pc[h] = "saving flush"
    /\ flushing' = FALSE
    /\ Finish(h, TRUE)
    /\ UNCHANGED <<outbox, sentCache, stored, restarts>>

\* Mutant: without the finally the flag stays up.
FlushRejectedStuck(h) ==
    /\ pc[h] \in {"collecting", "not saved"}
    /\ Finish(h, FALSE)
    /\ UNCHANGED <<outbox, sentCache, flushing, stored, restarts>>

\* getOutbox or saveOutbox was rejected: the finally takes the flag down, and the
\* message handler's catch answers that the post was not accepted, although it may
\* be queued.  After the alarm nobody catches.
FlushRejected(h) ==
    /\ pc[h] \in {"collecting", "not saved"}
    /\ flushing' = FALSE
    /\ Finish(h, FALSE)
    /\ UNCHANGED <<outbox, sentCache, stored, restarts>>

-----------------------------------------------------------------------------
(* Environment.                                                            *)

Due(items, k) ==
    [n \in DOMAIN items |->
        IF items[n].key = k THEN [items[n] EXCEPT !.waiting = FALSE] ELSE items[n]]

\* The delay of an item ends, in every copy of it.  A flush compares with the
\* time it began at, so while one is under way the passing of time has no effect.
BackoffEnds(k) ==
    /\ ~flushing
    /\ \E n \in DOMAIN outbox : outbox[n] = [key |-> k, waiting |-> TRUE]
    /\ outbox' = Due(outbox, k)
    /\ seen' = [h \in Handlers |-> Due(seen[h], k)]
    /\ UNCHANGED <<element, sentCache, flushing, pc, remaining, stored, restarts>>

\* The service worker is stopped and a new one is started by its next event.
\* Pages see their message ports close (lastError) and clear 'pending'; a post
\* on its way may still reach the backend.
Restart ==
    /\ restarts < MaxRestarts
    /\ restarts' = restarts + 1
    /\ sentCache' = {}
    /\ flushing' = FALSE
    /\ pc' = [h \in Handlers |-> "idle"]
    /\ seen' = [h \in Handlers |-> <<>>]
    /\ remaining' = [h \in Handlers |-> <<>>]
    /\ element' = [e \in Elements |-> IF element[e] = "pending" THEN "visible" ELSE element[e]]
    /\ \E onTheWay \in SUBSET {seen[h][1].key : h \in {i \in Handlers : pc[i] = "sending"}} :
        stored' = stored \cup onTheWay
    /\ UNCHANGED outbox

-----------------------------------------------------------------------------

EnqueueStep(e) ==
    \/ Decline(e) \/ KnownSent(e) \/ ReadOutbox(e)
    \/ KnownQueued(e) \/ SaveItem(e) \/ SaveRejected(e) \/ EnqueueRejected(e)
    \/ FlushQueued(e)

FlushStep(h) ==
    \/ BeginLoop(h) \/ Delivered(h) \/ NotDelivered(h)
    \/ EndFlush(h) \/ FlushRejected(h)

Resume ==
    \/ \E e \in Elements : EnqueueStep(e)
    \/ \E h \in Handlers : FlushStep(h)

Environment ==
    \/ \E k \in Posts : BackoffEnds(k)
    \/ Restart

Next == (\E e \in Elements : Scan(e)) \/ AlarmRings \/ Resume \/ Environment

Spec == Init /\ [][Next]_vars

\* Storage and fetch answer every call, with a result or an error.
FairSpec ==
    /\ Spec
    /\ \A e \in Elements : WF_vars(EnqueueStep(e))
    /\ \A h \in Handlers : WF_vars(FlushStep(h))

\* A page that shows one post at a time and no alarm in between: a handler is
\* started only when no other one is under way.
Quiet == \A h \in Handlers : pc[h] = "idle"

SerialNext ==
    \/ Quiet /\ ((\E e \in Elements : Scan(e)) \/ AlarmRings)
    \/ Resume
    \/ Environment

\* The alarm is periodic, delays end, and a flush that keeps being tried reads
\* the outbox and reaches the backend again and again.
FairSerialSpec ==
    /\ Init /\ [][SerialNext]_vars
    /\ \A e \in Elements : WF_vars(EnqueueStep(e))
    /\ \A h \in Handlers : WF_vars(FlushStep(h))
    /\ SF_vars(BeginLoop(Alarm)) /\ SF_vars(Delivered(Alarm))
    /\ SF_vars(Quiet /\ AlarmRings)
    /\ \A k \in Posts : SF_vars(BackoffEnds(k))

-----------------------------------------------------------------------------
(* Properties of the extension under every interleaving.                   *)

FlushLabels == {"collecting", "sending", "saving flush", "not saved"}

Flushers == {h \in Handlers : pc[h] \in FlushLabels}

\* Two flushes never overlap, also when a restart forgets one that was under way,
\* and the flag is down when none is, also when storage turned one away.
OneFlushAtATime ==
    /\ Cardinality(Flushers) <= 1
    /\ flushing <=> Flushers # {}

\* However handlers overwrite each other, the outbox holds no post twice and no
\* more than MAX_OUTBOX_ITEMS.
OutboxSound ==
    /\ Len(outbox) <= MaxItems
    /\ \A m, n \in DOMAIN outbox : outbox[m].key = outbox[n].key => m = n

\* Only posts the backend has committed are remembered as sent, so nothing is
\* dropped from the outbox or answered as a duplicate on a mere attempt.
SentIsStored == sentCache \subseteq stored

\* A page is always answered, whatever storage and the backend refuse: no element
\* stays pending for ever, so that a post that was not accepted can be scanned
\* again.
PendingIsReleased ==
    \A e \in Elements : element[e] = "pending" ~> element[e] # "pending"

-----------------------------------------------------------------------------
(* Delivery.                                                               *)

\* "Outbox kaybetmez" (docs/TEST_PLAN.md P2-CAP-002): a post whose element is
\* marked captured is in the outbox or in the backend.
CapturedIsKept == \A e \in Captured : PostOf[e] \in stored \cup KeysOf(outbox)

\* A captured post reaches the backend, after whatever failures and restarts.
CapturedIsDelivered ==
    \A e \in Elements : element[e] = "captured" ~> PostOf[e] \in stored

=============================================================================
