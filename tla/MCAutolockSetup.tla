--------------------------- MODULE MCAutolockSetup ---------------------------
(***************************************************************************)
(* Instances of AutolockSetup: a first thread and the ones it creates.     *)
(***************************************************************************)
EXTENDS AutolockSetup, TLC

CONSTANTS t1, t2, t3, p1, p2

ThreeTasks == {t1, t2, t3}
TwoTasks == {t1, t2}
TwoPages == {p1, p2}

\* All tasks but the first are interchangeable, and so are the pages.
Symmetry == Permutations({t2, t3}) \cup Permutations(TwoPages)
=============================================================================
