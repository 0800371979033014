------------------------------ MODULE LockSpec ------------------------------
(***************************************************************************)
(* What every lock of the repository promises: lock() waits and then owns  *)
(* the lock, trylock() owns it at once or not at all, unlock() gives it    *)
(* up, and no two threads own one lock.  A thread uses one lock at a time, *)
(* as the benchmark runner does.                                           *)
(***************************************************************************)
CONSTANTS
  Threads,
  Locks,
  NULL    \* no lock

VARIABLES
  want, \* the lock a thread's lock() call is waiting for
  held  \* the lock a thread owns

vars == <<want, held>>

Unowned(l) == \A u \in Threads : held[u] # l

Init ==
  /\ want = [t \in Threads |-> NULL]
  /\ held = [t \in Threads |-> NULL]

Request(t, l) ==
  /\ want[t] = NULL /\ held[t] = NULL
  /\ want' = [want EXCEPT ![t] = l]
  /\ UNCHANGED held

Acquire(t, l) ==
  /\ want[t] = l
  /\ Unowned(l)
  /\ want' = [want EXCEPT ![t] = NULL]
  /\ held' = [held EXCEPT ![t] = l]

TryAcquire(t, l) ==
  /\ want[t] = NULL /\ held[t] = NULL
  /\ Unowned(l)
  /\ held' = [held EXCEPT ![t] = l]
  /\ UNCHANGED want

Release(t, l) ==
  /\ held[t] = l
  /\ held' = [held EXCEPT ![t] = NULL]
  /\ UNCHANGED want

Next ==
  \E t \in Threads, l \in Locks :
    Request(t, l) \/ Acquire(t, l) \/ TryAcquire(t, l) \/ Release(t, l)

Spec == Init /\ [][Next]_vars

\* Deadlock freedom: an unowned lock that is waited for does not stay unowned.
Progress == \A l \in Locks : WF_vars(\E t \in Threads : Acquire(t, l))

FairSpec == Spec /\ Progress
=============================================================================
