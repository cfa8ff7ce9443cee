------------------------------ MODULE MCAuditLog ------------------------------
(* Instances of AuditLog for TLC: the calls of one process, and two sessions  *)
(* with a process each.                                                       *)
EXTENDS AuditLog, TLC

OneProcess  == [c \in Calls |-> CHOOSE p \in Processes : TRUE]
OwnProcess  == [c \in Calls |-> c]

\* A terminal record is the larger one: it has the hashes of the result.
RecordSizes == [s \in {"started", "ended"} |-> IF s = "started" THEN 1 ELSE 2]

Symmetry == Permutations(Calls)

=============================================================================
