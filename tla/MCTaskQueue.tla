---------------------------- MODULE MCTaskQueue ----------------------------
(* Instances of TaskQueue for TLC: the values the .cfg files choose from.   *)
EXTENDS TaskQueue, TLC, SequencesExt

OnePool == {"default"}
OneType == {"gen"}

AllGen == [t \in Tasks |-> "gen"]
DefaultPool == [type \in Types |-> "default"]
AllDefault == [w \in Workers |-> "default"]

NoLimit == [type \in Types |-> 0]
LimitOne == [type \in Types |-> 1]
NoAutoRetry == [type \in Types |-> 0]
OneAutoRetry == [type \in Types |-> 1]

SamePriority == [t \in Tasks |-> 0]

AllPrepaid == [t \in Tasks |-> "prepaid"]
AllHandler == [t \in Tasks |-> "handler"]

\* Every worker thread in the one process there is, or one in each process.
OneProc == [w \in Workers |-> CHOOSE p \in Procs : TRUE]
OneWorkerEach == LET ps == SetToSeq(Procs) ws == SetToSeq(Workers)
                 IN  [w \in Workers |-> ps[CHOOSE i \in DOMAIN ws : ws[i] = w]]

\* Tasks are interchangeable, and so are the workers of one process.
Symmetry == Permutations(Tasks) \cup Permutations(Workers)
=============================================================================
