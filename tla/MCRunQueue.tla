----------------------------- MODULE MCRunQueue -----------------------------
(***************************************************************************)
(* RunQueue with three tasks.                                              *)
(***************************************************************************)
EXTENDS RunQueue

CONSTANTS t1, t2, t3

ThreeTasks == {t1, t2, t3}
=============================================================================
