---------------------------- MODULE UserLockBase ----------------------------
(***************************************************************************)
(* I_user_lock_base (autolock-impls/locks/internal/lock-base.h): the lock  *)
(* word with an optional autolock page, yield loop and futex wait.  One    *)
(* action is one memory access of a thread, so every preemption point the  *)
(* comment about the deadlock in trylock_maybe_sched worries about exists. *)
(*                                                                         *)
(* Memory is x86-TSO where TSO is TRUE: the plain store of unlock() may    *)
(* sit in the thread's store buffer (unflushed) while the thread goes on,  *)
(* and a locked instruction or a futex system call waits for it to drain.  *)
(* The page words need no buffer: only the thread itself and the kernel    *)
(* that has just switched it out read them.                                *)
(*                                                                         *)
(* The backoff only changes how long a pause lasts and is left out.        *)
(***************************************************************************)
EXTENDS Naturals, FiniteSets

CONSTANTS
  Threads, Locks, NULL,
  UNLOCKED, LOCKED,                    \* 1 and 0, or 0 and 1 for interposition
  WITH_AUTOLOCK, WITH_YIELD, WITH_FUTEX,
  PAUSE_ITERS, YIELD_ITERS,            \* 128 and 4 in the code
  TSO,                                 \* stores are buffered
  CREATE_MAY_FAIL                      \* autolock_init_kernel_state() may return NULL

ASSUME ConstantsAssumption ==
  /\ IsFiniteSet(Threads) /\ NULL \notin Locks
  /\ {UNLOCKED, LOCKED} = {0, 1}
  /\ WITH_AUTOLOCK \in BOOLEAN /\ WITH_YIELD \in BOOLEAN /\ WITH_FUTEX \in BOOLEAN
  /\ TSO \in BOOLEAN /\ CREATE_MAY_FAIL \in BOOLEAN
  /\ PAUSE_ITERS \in Nat /\ YIELD_ITERS \in Nat

VARIABLES
  mem,       \* lock->mem
  waiters,   \* lock->waiters
  page,      \* the words of the thread's autolock page
  mapped,    \* I_kernel_autolock # NULL
  unflushed, \* the lock whose I_UNLOCKED store is in the thread's store buffer
  pc, op,    \* where the thread is, and in which of lock() and trylock()
  cur,       \* the lock argument
  phase, iter, \* which retry loop of lock() runs, and its failures so far
  ret        \* what the last unlock() returned

vars == <<mem, waiters, page, mapped, unflushed, pc, op, cur, phase, iter, ret>>
kernel == <<page, mapped>>
loop == <<phase, iter>>
call == <<op, cur>>

Kernel == INSTANCE AutolockPage WITH Words <- Locks, Values <- {UNLOCKED, LOCKED}

TryPcs == {"try_load", "try_xchg"}
SlowPcs == {"init_kernel", "set_for", "set_neq", "ms_load", "ms_disarm", "ms_xchg",
            "ms_arm", "turn_failed", "yield", "waiters_inc", "futex_wait", "asleep", "waiters_dec"}
UnlockPcs == {"ul_check", "ul_wake"}
Pcs == {"idle", "holding", "segv"} \cup TryPcs \cup SlowPcs \cup UnlockPcs

TypeOK ==
  /\ mem \in [Locks -> {UNLOCKED, LOCKED}]
  /\ waiters \in [Locks -> Nat]
  /\ page \in [Threads -> Kernel!Page]
  /\ mapped \in [Threads -> BOOLEAN]
  /\ unflushed \in [Threads -> Locks \cup {NULL}]
  /\ pc \in [Threads -> Pcs]
  /\ op \in [Threads -> {"lock", "trylock"}]
  /\ cur \in [Threads -> Locks \cup {NULL}]
  /\ phase \in [Threads -> {"pause", "yield"}]
  /\ iter \in [Threads -> Nat]
  /\ ret \in [Threads -> {"I_SUCCESS", "I_FAILURE"}]

\* I_user_lock_base_init() ran in some of the threads, which mapped their page.
Init ==
  /\ mem = [l \in Locks |-> UNLOCKED]
  /\ waiters = [l \in Locks |-> 0]
  /\ page = [t \in Threads |-> Kernel!ZeroPage]
  /\ mapped \in [Threads -> {WITH_AUTOLOCK, FALSE}]
  /\ unflushed = [t \in Threads |-> NULL]
  /\ pc = [t \in Threads |-> "idle"]
  /\ op = [t \in Threads |-> "lock"]
  /\ cur = [t \in Threads |-> NULL]
  /\ phase = [t \in Threads |-> "pause"]
  /\ iter = [t \in Threads |-> 0]
  /\ ret = [t \in Threads |-> "I_SUCCESS"]

-----------------------------------------------------------------------------
Goto(t, from, to) == pc[t] = from /\ pc' = [pc EXCEPT ![t] = to]

\* A load is served from the thread's own store buffer first.
Load(t) == IF unflushed[t] = cur[t] THEN UNLOCKED ELSE mem[cur[t]]

\* Before a locked instruction or a system call the buffered store drains.
Fenced(t) == unflushed[t] = NULL

Drain(t) ==
  /\ ~Fenced(t)
  /\ mem' = [mem EXCEPT ![unflushed[t]] = UNLOCKED]
  /\ unflushed' = [unflushed EXCEPT ![t] = NULL]
  /\ UNCHANGED <<waiters, kernel, pc, call, loop, ret>>

-----------------------------------------------------------------------------
\* A caller enters lock() or trylock(); both begin with trylock.
Call(t, l, o) ==
  /\ Goto(t, "idle", "try_load")
  /\ op' = [op EXCEPT ![t] = o]
  /\ cur' = [cur EXCEPT ![t] = l]
  /\ ret' = [ret EXCEPT ![t] = "I_SUCCESS"]
  /\ UNCHANGED <<mem, waiters, kernel, unflushed, loop>>

\* trylock() failed: its caller gets I_FAILURE, lock() goes on to wait.
TrylockFails(t, from) ==
  \/ /\ op[t] = "trylock"
     /\ Goto(t, from, "idle")
     /\ cur' = [cur EXCEPT ![t] = NULL]
  \/ /\ op[t] = "lock"
     /\ Goto(t, from, IF WITH_AUTOLOCK THEN "init_kernel" ELSE "ms_load")
     /\ UNCHANGED cur

TrylockLoad(t) ==
  /\ pc[t] = "try_load"
  /\ IF Load(t) # LOCKED
     THEN Goto(t, "try_load", "try_xchg") /\ UNCHANGED cur
     ELSE TrylockFails(t, "try_load")
  /\ phase' = [phase EXCEPT ![t] = "pause"]
  /\ iter' = [iter EXCEPT ![t] = 0]
  /\ UNCHANGED <<mem, waiters, kernel, unflushed, op, ret>>

TrylockXchg(t) ==
  /\ pc[t] = "try_xchg" /\ Fenced(t)
  /\ mem' = [mem EXCEPT ![cur[t]] = LOCKED]
  /\ IF mem[cur[t]] # LOCKED
     THEN Goto(t, "try_xchg", "holding") /\ UNCHANGED cur
     ELSE TrylockFails(t, "try_xchg")
  /\ UNCHANGED <<waiters, kernel, unflushed, op, loop, ret>>

-----------------------------------------------------------------------------
\* autolock_init_kernel_state(): lock() does not look at what it returns, so
\* after a failure the next store goes through a null pointer.
InitKernelState(t) ==
  /\ \/ Goto(t, "init_kernel", "set_for") /\ mapped' = [mapped EXCEPT ![t] = TRUE]
     \/ /\ CREATE_MAY_FAIL /\ ~mapped[t]
        /\ Goto(t, "init_kernel", "segv") /\ UNCHANGED mapped
  /\ UNCHANGED <<mem, waiters, page, unflushed, call, loop, ret>>

WatchForUnlocked(t) ==
  /\ Goto(t, "set_for", "set_neq")
  /\ page' = [page EXCEPT ![t] = Kernel!SetWatchFor(@, UNLOCKED)]
  /\ UNCHANGED <<mem, waiters, mapped, unflushed, call, loop, ret>>

\* Mutant: watch_neq has the wrong polarity.
ScheduleWhenDifferent(t) ==
  /\ Goto(t, "set_neq", "ms_load")
  /\ page' = [page EXCEPT ![t] = Kernel!SetWatchNeq(@, 1)]
  /\ UNCHANGED <<mem, waiters, mapped, unflushed, call, loop, ret>>

ScheduleWhenEqual(t) ==
  /\ Goto(t, "set_neq", "ms_load")
  /\ page' = [page EXCEPT ![t] = Kernel!SetWatchNeq(@, 0)]
  /\ UNCHANGED <<mem, waiters, mapped, unflushed, call, loop, ret>>

-----------------------------------------------------------------------------
\* I_internal_user_lock_base_trylock_maybe_sched(), one action per access.
MaybeSchedLoad(t) ==
  /\ Goto(t, "ms_load",
          IF Load(t) # LOCKED
          THEN IF WITH_AUTOLOCK THEN "ms_disarm" ELSE "ms_xchg"
          ELSE IF WITH_AUTOLOCK THEN "ms_arm" ELSE "turn_failed")
  /\ UNCHANGED <<mem, waiters, kernel, unflushed, call, loop, ret>>

\* Mutant: the store of watch_mem = NULL before the exchange is lost.
DisarmForgotten(t) ==
  /\ Goto(t, "ms_disarm", "ms_xchg")
  /\ UNCHANGED <<mem, waiters, kernel, unflushed, call, loop, ret>>

Disarm(t) ==
  /\ Goto(t, "ms_disarm", "ms_xchg")
  /\ page' = [page EXCEPT ![t] = Kernel!SetWatchMem(@, NULL)]
  /\ UNCHANGED <<mem, waiters, mapped, unflushed, call, loop, ret>>

\* Mutant: the lock is taken on the strength of the load alone.
XchgUnchecked(t) ==
  /\ Fenced(t)
  /\ Goto(t, "ms_xchg", "holding")
  /\ mem' = [mem EXCEPT ![cur[t]] = LOCKED]
  /\ UNCHANGED <<waiters, kernel, unflushed, call, loop, ret>>

\* Mutant: the test of the exchanged value is missing, so a winner waits on.
XchgResultIgnored(t) ==
  /\ Fenced(t)
  /\ Goto(t, "ms_xchg", IF WITH_AUTOLOCK THEN "ms_arm" ELSE "turn_failed")
  /\ mem' = [mem EXCEPT ![cur[t]] = LOCKED]
  /\ UNCHANGED <<waiters, kernel, unflushed, call, loop, ret>>

MaybeSchedXchg(t) ==
  /\ pc[t] = "ms_xchg" /\ Fenced(t)
  /\ mem' = [mem EXCEPT ![cur[t]] = LOCKED]
  /\ IF mem[cur[t]] # LOCKED
     THEN Goto(t, "ms_xchg", "holding")
     ELSE Goto(t, "ms_xchg", IF WITH_AUTOLOCK THEN "ms_arm" ELSE "turn_failed")
  /\ UNCHANGED <<waiters, kernel, unflushed, call, loop, ret>>

Arm(t) ==
  /\ Goto(t, "ms_arm", "turn_failed")
  /\ page' = [page EXCEPT ![t] = Kernel!SetWatchMem(@, cur[t])]
  /\ UNCHANGED <<mem, waiters, mapped, unflushed, call, loop, ret>>

-----------------------------------------------------------------------------
\* The end of a failed turn of the pause loop or of the yield loop of lock().
\* The pause loop is endless without yield and futex, the yield loop without
\* futex; the counts are those of --iter_count < -ITERS.
TurnFailed(t) ==
  /\ pc[t] = "turn_failed"
  /\ LET failures == iter[t] + 1
         counted == IF phase[t] = "pause" THEN WITH_YIELD \/ WITH_FUTEX ELSE WITH_FUTEX
         limit == IF phase[t] = "pause" THEN PAUSE_ITERS ELSE YIELD_ITERS
         leaves == counted /\ failures > limit
         yields == IF leaves THEN phase[t] = "pause" /\ WITH_YIELD ELSE phase[t] = "yield"
     IN  /\ Goto(t, "turn_failed",
                 IF yields THEN "yield" ELSE IF leaves THEN "waiters_inc" ELSE "ms_load")
         /\ phase' = [phase EXCEPT ![t] = IF yields THEN "yield" ELSE "pause"]
         /\ iter' = [iter EXCEPT ![t] = IF counted /\ ~leaves THEN failures ELSE 0]
  /\ UNCHANGED <<mem, waiters, kernel, unflushed, call, ret>>

Yield(t) ==
  /\ Goto(t, "yield", "ms_load")
  /\ UNCHANGED <<mem, waiters, kernel, unflushed, call, loop, ret>>

WaitersInc(t) ==
  /\ Fenced(t)
  /\ Goto(t, "waiters_inc", "futex_wait")
  /\ waiters' = [waiters EXCEPT ![cur[t]] = @ + 1]
  /\ UNCHANGED <<mem, kernel, unflushed, call, loop, ret>>

\* Mutant: FUTEX_WAIT does not compare the word, so a release is slept through.
FutexWaitUnconditional(t) ==
  /\ Goto(t, "futex_wait", "asleep")
  /\ UNCHANGED <<mem, waiters, kernel, unflushed, call, loop, ret>>

\* FUTEX_WAIT compares the word and queues the caller in one step.
FutexWait(t) ==
  /\ Goto(t, "futex_wait", IF mem[cur[t]] = LOCKED THEN "asleep" ELSE "waiters_dec")
  /\ UNCHANGED <<mem, waiters, kernel, unflushed, call, loop, ret>>

\* A signal ends FUTEX_WAIT early.
SpuriousWake(t) ==
  /\ Goto(t, "asleep", "waiters_dec")
  /\ UNCHANGED <<mem, waiters, kernel, unflushed, call, loop, ret>>

\* Mutant: goto restart skips the decrement.
WaitersDecForgotten(t) ==
  /\ Goto(t, "waiters_dec", "ms_load")
  /\ UNCHANGED <<mem, waiters, kernel, unflushed, call, loop, ret>>

\* goto restart: the pause loop begins again.
WaitersDec(t) ==
  /\ Goto(t, "waiters_dec", "ms_load")
  /\ waiters' = [waiters EXCEPT ![cur[t]] = @ - 1]
  /\ UNCHANGED <<mem, kernel, unflushed, call, loop, ret>>

-----------------------------------------------------------------------------
UnlockReturns(t, from, r) ==
  /\ Goto(t, from, "idle")
  /\ ret' = [ret EXCEPT ![t] = r]
  /\ cur' = [cur EXCEPT ![t] = NULL]

UnlockStore(t) ==
  /\ pc[t] = "holding"
  /\ IF TSO
     THEN unflushed' = [unflushed EXCEPT ![t] = cur[t]] /\ UNCHANGED mem
     ELSE mem' = [mem EXCEPT ![cur[t]] = UNLOCKED] /\ UNCHANGED unflushed
  /\ IF WITH_FUTEX
     THEN Goto(t, "holding", "ul_check") /\ UNCHANGED <<ret, cur>>
     ELSE UnlockReturns(t, "holding", "I_SUCCESS")
  /\ UNCHANGED <<waiters, kernel, op, loop>>

UnlockCheckWaiters(t) ==
  /\ pc[t] = "ul_check"
  /\ IF waiters[cur[t]] # 0
     THEN Goto(t, "ul_check", "ul_wake") /\ UNCHANGED <<ret, cur>>
     ELSE UnlockReturns(t, "ul_check", "I_SUCCESS")
  /\ UNCHANGED <<mem, waiters, kernel, unflushed, op, loop>>

Sleepers(l) == {w \in Threads : pc[w] = "asleep" /\ cur[w] = l}

\* Mutant: unlock() takes the thread it wakes off the count, which that thread
\* does as well.
UnlockWakeDecrements(t) ==
  /\ pc[t] = "ul_wake" /\ Fenced(t)
  /\ \/ Sleepers(cur[t]) = {} /\ UnlockReturns(t, "ul_wake", "I_SUCCESS") /\ UNCHANGED waiters
     \/ \E w \in Sleepers(cur[t]) :
          /\ pc' = [pc EXCEPT ![t] = "idle", ![w] = "waiters_dec"]
          /\ ret' = [ret EXCEPT ![t] = "I_FAILURE"]
          /\ waiters' = [waiters EXCEPT ![cur[t]] = @ - 1]
          /\ cur' = [cur EXCEPT ![t] = NULL]
  /\ UNCHANGED <<mem, kernel, unflushed, op, loop>>

\* FUTEX_WAKE returns how many it woke, and unlock() takes any non-zero result
\* for an error.
UnlockWake(t) ==
  /\ pc[t] = "ul_wake" /\ Fenced(t)
  /\ \/ Sleepers(cur[t]) = {} /\ UnlockReturns(t, "ul_wake", "I_SUCCESS")
     \/ \E w \in Sleepers(cur[t]) :
          /\ pc' = [pc EXCEPT ![t] = "idle", ![w] = "waiters_dec"]
          /\ ret' = [ret EXCEPT ![t] = "I_FAILURE"]
          /\ cur' = [cur EXCEPT ![t] = NULL]
  /\ UNCHANGED <<mem, waiters, kernel, unflushed, op, loop>>

-----------------------------------------------------------------------------
\* A store through the null page pointer ends the process with every thread.
Alive == \A t \in Threads : pc[t] # "segv"

\* What a thread inside a call, or owning a lock, does next.
Step(t) ==
  \/ TrylockLoad(t) \/ TrylockXchg(t)
  \/ InitKernelState(t) \/ WatchForUnlocked(t) \/ ScheduleWhenEqual(t)
  \/ MaybeSchedLoad(t) \/ Disarm(t) \/ MaybeSchedXchg(t) \/ Arm(t)
  \/ TurnFailed(t) \/ Yield(t)
  \/ WaitersInc(t) \/ FutexWait(t) \/ WaitersDec(t)
  \/ UnlockStore(t) \/ UnlockCheckWaiters(t) \/ UnlockWake(t)

Next ==
  /\ Alive
  /\ \E t \in Threads :
       \/ Step(t) \/ Drain(t) \/ SpuriousWake(t)
       \/ \E l \in Locks, o \in {"lock", "trylock"} : Call(t, l, o)

Spec == Init /\ [][Next]_vars

(***************************************************************************)
(* The kernel owes processor time only to threads it does not hold back:   *)
(* a thread whose page says DontSched may never run.  A thread that is not *)
(* in the middle of anything need not call lock() or trylock() again.      *)
(***************************************************************************)
Runnable(t) == ~Kernel!DontSched(page[t], mem)

FairSpec ==
  /\ Spec
  /\ \A t \in Threads : WF_vars(Alive /\ Runnable(t) /\ Step(t)) /\ WF_vars(Alive /\ Drain(t))

-----------------------------------------------------------------------------
Holds(t, l) == pc[t] = "holding" /\ cur[t] = l

\* The lock is t's, or t's release of it has not reached memory.
Owns(t, l) == Holds(t, l) \/ unflushed[t] = l

WaitsFor(t, l) ==
  /\ cur[t] = l
  /\ pc[t] \in SlowPcs \/ (pc[t] \in TryPcs /\ op[t] = "lock")

\* Two threads never own one lock, buffered releases included: the exchange of
\* trylock() and of trylock_maybe_sched() hands a lock to one caller only.
MutualExclusion ==
  \A t, u \in Threads, l \in Locks : Owns(t, l) /\ Owns(u, l) => t = u

\* The word is I_LOCKED exactly while somebody owns the lock: no failed
\* exchange, late store or abandoned attempt leaves it locked for nobody.
LockedIffOwned ==
  \A l \in Locks : mem[l] = LOCKED <=> \E t \in Threads : Owns(t, l)

\* The comment of trylock_maybe_sched() describes the deadlock of an owner the
\* kernel holds back, and lock() ends with "watch_mem will be NULL".  So a
\* thread is held back only inside lock(), for the lock it waits for, and only
\* while that lock's holder may run or its release is on its way to memory.
HeldBackForARunnableHolder ==
  Alive => \A t \in Threads : ~Runnable(t) =>
    LET l == page[t].watch_mem
    IN  /\ WaitsFor(t, l)
        /\ \E u \in Threads \ {t} : (Holds(u, l) /\ Runnable(u)) \/ unflushed[u] = l

\* lock->waiters counts the threads between its two atomic updates, so unlock()
\* is never misled about whether somebody may be asleep.
Between(t, l) == pc[t] \in {"futex_wait", "asleep", "waiters_dec"} /\ cur[t] = l

WaitersCounted ==
  \A l \in Locks : waiters[l] = Cardinality({t \in Threads : Between(t, l)})

\* A thread sleeps on an unlocked word only while another thread is bound to
\* take the lock, and so to release it again, or is still to call futex_wake:
\* unlock() writes the word first "otherwise a thread may hang on the futex".
Unlocks(t, l) == pc[t] \in UnlockPcs /\ cur[t] = l

NoLostWakeup ==
  Alive => \A l \in Locks : Sleepers(l) # {} =>
    \E t \in Threads \ Sleepers(l) : Owns(t, l) \/ WaitsFor(t, l) \/ Unlocks(t, l)

\* unlock() returns zero on success: it has released the lock, so it says so.
UnlockReportsSuccess ==
  [][\A t \in Threads : pc[t] \in UnlockPcs /\ pc'[t] = "idle" => ret'[t] = "I_SUCCESS"]_vars

\* A failure to create the kernel state is returned ("non-zero on error").
FailureIsReturned == Alive

Lock ==
  INSTANCE LockSpec WITH
    want <- [t \in Threads |-> IF WaitsFor(t, cur[t]) THEN cur[t] ELSE NULL],
    held <- [t \in Threads |-> IF pc[t] = "holding" THEN cur[t] ELSE NULL]

\* lock(), trylock() and unlock() implement LockSpec, and with only the threads
\* the kernel does not hold back running, lock() never gets stuck: a lock that
\* is waited for and that nobody owns is taken.
ImplementsLock == Lock!FairSpec
=============================================================================
