----------------------------- MODULE QueueLock -----------------------------
(***************************************************************************)
(* What the queueing locks of autolock-impls/locks/internal (ticket, CLH,  *)
(* array, compact ticket), the user autolocks without futex and the stock  *)
(* locks of the benchmark have in common: one lock, threads that call      *)
(* lock(), trylock() and unlock() on it, and a page per thread that lock() *)
(* arms while it waits.  Each lock module EXTENDS this one and adds its    *)
(* own words and actions, one action per memory access.  The kernel may    *)
(* switch a thread out between any two of them, the stores to its page     *)
(* included, and from then on goes by what the page says.                  *)
(*                                                                         *)
(* autolock_init_kernel_state() has mapped the page: that it can fail is   *)
(* UserLockBase's CREATE_MAY_FAIL.  Stores take effect in program order,   *)
(* but for the release of LockOps: none of the others lets a load of       *)
(* another word pass its release, so a store buffer would only delay it.   *)
(***************************************************************************)
EXTENDS Naturals, FiniteSets

CONSTANTS
  Threads,
  NULL     \* the null pointer

ASSUME QueueLockAssumption == IsFiniteSet(Threads)

VARIABLES
  page, \* the words of the thread's autolock page
  pc    \* where the thread is

TryPcs == {"try_first", "try_second", "try_cas"}

\* unlock() before and after the store that lets the next thread in.
OwnerUnlockPcs == {"ul_own", "ul_next", "ul_batch", "ul_pass", "ul_global"}
LateUnlockPcs == {"ul_local", "ul_check", "ul_wake"}

Goto(t, from, to) == pc[t] = from /\ pc' = [pc EXCEPT ![t] = to]

Holds(t) == pc[t] = "holding"
Owns(t) == Holds(t) \/ pc[t] \in OwnerUnlockPcs
Waits(t) == pc[t] \notin {"idle", "holding"} \cup TryPcs \cup OwnerUnlockPcs \cup LateUnlockPcs

-----------------------------------------------------------------------------
\* No two threads own the lock, the part of unlock() before the hand-over
\* included: a ticket, slot or node names one thread at a time.
MutualExclusion == \A t, u \in Threads : Owns(t) /\ Owns(u) => t = u

Lock ==
  INSTANCE LockSpec WITH
    Locks <- {"lock"},
    want <- [t \in Threads |-> IF Waits(t) THEN "lock" ELSE NULL],
    held <- [t \in Threads |-> IF Holds(t) THEN "lock" ELSE NULL]
=============================================================================
