--------------------------- MODULE CapturePipeline ---------------------------
(***************************************************************************)
(* What the capture store promises to the rest of the system, without      *)
(* transactions, locks, leases or crashes: a post is accepted once, its    *)
(* normalization is queued with it, and every queued normalization ends by *)
(* being done or by being buried as a dead letter, from where an operator  *)
(* may queue it again.  CaptureWorker implements this specification.       *)
(***************************************************************************)
EXTENDS FiniteSets

CONSTANT Posts

VARIABLES
    accepted,   \* posts the store has accepted
    queued,     \* posts with a normalization to do
    done,       \* posts whose features are recorded
    buried      \* posts with a dead letter

vars == <<accepted, queued, done, buried>>

Init ==
    /\ accepted = {}
    /\ queued = {}
    /\ done = {}
    /\ buried = {}

Accept(p) ==
    /\ p \notin accepted
    /\ accepted' = accepted \cup {p}
    /\ queued' = queued \cup {p}
    /\ UNCHANGED <<done, buried>>

Finish(p) ==
    /\ p \in queued
    /\ queued' = queued \ {p}
    /\ done' = done \cup {p}
    /\ UNCHANGED <<accepted, buried>>

Bury(p) ==
    /\ p \in queued
    /\ queued' = queued \ {p}
    /\ buried' = buried \cup {p}
    /\ UNCHANGED <<accepted, done>>

Replay(p) ==
    /\ p \in buried \ queued
    /\ queued' = queued \cup {p}
    /\ UNCHANGED <<accepted, done, buried>>

Next == \E p \in Posts : Accept(p) \/ Finish(p) \/ Bury(p) \/ Replay(p)

Spec == Init /\ [][Next]_vars

-----------------------------------------------------------------------------

\* Nothing is queued, done or buried that was not accepted, and an accepted post
\* is always in one of the three.
NothingLost == accepted = queued \cup done \cup buried

=============================================================================
