------------------------------ MODULE MCRecords ------------------------------
(* Instances for TLC of tables that several processes write: the media     *)
(* tables, the derived tables, the token bucket, the learning tables.      *)
(* They share no row, so a behaviour moves one of them.                    *)
EXTENDS MediaRecords, DerivedTables, TokenBucket, Learning, TLC

VARIABLE part

Symmetry == Permutations(Units)

RecordsInit ==
    /\ part \in {"media", "derived", "bucket", "learning"}
    /\ Init /\ DerivedInit
    /\ BucketInit /\ (part # "bucket" => clock = 0)
    /\ LearningInit /\ (part # "learning" => start = 100)

RecordsNext ==
    \/ /\ part = "media" /\ Next
       /\ UNCHANGED <<part, derivedVars, bucketVars, learningVars>>
    \/ /\ part = "derived" /\ DerivedNext
       /\ UNCHANGED <<part, vars, bucketVars, learningVars>>
    \/ /\ part = "bucket" /\ BucketNext
       /\ UNCHANGED <<part, vars, derivedVars, learningVars>>
    \/ /\ part = "learning" /\ LearningNext
       /\ UNCHANGED <<part, vars, derivedVars, bucketVars>>

RecordsSpec ==
    RecordsInit /\ [][RecordsNext]_<<part, vars, derivedVars, bucketVars, learningVars>>

=============================================================================
