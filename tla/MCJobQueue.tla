----------------------------- MODULE MCJobQueue -----------------------------
(* Instances of JobQueue for TLC. *)
EXTENDS JobQueue, TLC

\* Written with fewer digits than the clock prints: the last one counts two
\* milliseconds, so it only compares as reached when both are over.
Coarse == [at |-> 0, unit |-> 2 * Millisecond]

\* Written finer than the clock prints, inside the second millisecond.
Finer == [at |-> Millisecond + 1, unit |-> 1]

EverySchedule == {NoSchedule, Finer, Coarse}
CoarseSchedules == {NoSchedule, Coarse}

WorkerSymmetry == Permutations(Workers)
=============================================================================
