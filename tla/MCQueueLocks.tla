---------------------------- MODULE MCQueueLocks ----------------------------
(***************************************************************************)
(* QueueLocks with up to three threads on two sockets: t1 and t2 on one,   *)
(* t3 on the other, those in Migrating wherever the scheduler puts them.   *)
(***************************************************************************)
EXTENDS QueueLocks

CONSTANTS t1, t2, t3, n1, n2, n3, n4, Migrating

TwoThreads == {t1, t3}
ThreeThreads == {t1, t2, t3}
FourNodes == {n1, n2, n3, n4}
TwoSockets == {0, 1}
HomeSockets == [t \in Threads |-> IF t \in Migrating THEN TwoSockets ELSE IF t = t3 THEN {1} ELSE {0}]

\* Progress is checked of the compact ticket lock with all threads, for a third one
\* that the batches of a socket might starve, and of the others without t2.  What
\* bypass counts is left out.
ProgressNext == Moves /\ UNCHANGED bypass /\ (kind # "cptltkt" => pc'[t2] = "idle")
ProgressSpec == Init /\ [][ProgressNext]_vars /\ Fairness
=============================================================================
