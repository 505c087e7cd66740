---------------------------- MODULE MCJobQueue ----------------------------
(* Instances of JobQueue for TLC: one resource class, a queue of one job   *)
(* and one running job, so that the limits are reached at once.            *)
EXTENDS JobQueue

MCClassOf == [k \in Keys |-> CHOOSE c \in Classes : TRUE]

MCPendingLimit == [c \in Classes |-> 1]

MCRunningLimit == [c \in Classes |-> 1]

===========================================================================
