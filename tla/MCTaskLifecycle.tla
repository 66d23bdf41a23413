--------------------------- MODULE MCTaskLifecycle ---------------------------
(* Instances of TaskLifecycle for TLC. *)
EXTENDS TaskLifecycle, TLC

CONSTANTS t1, t2, r1, r2

\* Both tasks write the same checkout, or each its own.
SharedRoot == t1 :> r1 @@ t2 :> r1
OwnRoots == t1 :> r1 @@ t2 :> r2

WorkerSymmetry == Permutations(Worker)
\* Sound where the tasks share their write root.
FullSymmetry == Permutations(Worker) \cup Permutations(Task) \cup Permutations(Clar)
=============================================================================
