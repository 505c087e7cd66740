-------------------------- MODULE MCCaptureWorker --------------------------
(* Instances of CaptureWorker for TLC.  Every post needs one job and every *)
(* replay one more, so with this many ids no enqueue runs out of them.     *)
EXTENDS CaptureWorker, TLC

MCClassOf == [k \in Keys |-> CHOOSE c \in Classes : TRUE]

MCPendingLimit == [c \in Classes |-> 1]

MCRunningLimit == [c \in Classes |-> 1]

MCJobIds == 1..(Cardinality(Keys) + MaxReplays)

Symmetry == Permutations(Workers) \cup Permutations(Requests)

============================================================================
