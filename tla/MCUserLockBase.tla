--------------------------- MODULE MCUserLockBase ---------------------------
(***************************************************************************)
(* UserLockBase on small sets of threads and locks.                        *)
(***************************************************************************)
EXTENDS UserLockBase, TLC

CONSTANTS t1, t2, t3, l1, l2

TwoThreads == {t1, t2}
ThreeThreads == {t1, t2, t3}
OneLock == {l1}
TwoLocks == {l1, l2}

\* Threads and locks are interchangeable, in the runs without liveness.
Symmetry == Permutations(ThreeThreads) \cup Permutations(TwoLocks)
=============================================================================
