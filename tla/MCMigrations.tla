---------------------------- MODULE MCMigrations ----------------------------
(* Instances of Migrations for TLC: two scripts of two and one statements, *)
(* releases that have the first one only, both, or both with the second    *)
(* one changed.                                                            *)
EXTENDS Migrations

CONSTANTS OldRelease, ChangedRelease  \* processes

MCRelease == [p \in Processes |-> IF p \in OldRelease THEN 1 ELSE Last]

MCStatements == [v \in 1 .. Last |-> IF v = 1 THEN 2 ELSE 1]

MCChecksums == {"original", "changed"}

MCChecksum ==
    [p \in Processes |->
        [v \in 1 .. Last |->
            IF v = Last /\ p \in ChangedRelease THEN "changed" ELSE "original"]]

=============================================================================
