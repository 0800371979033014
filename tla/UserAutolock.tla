---------------------------- MODULE UserAutolock ----------------------------
(***************************************************************************)
(* The autolocks of autolock-common-user-api.h: custom_spin_autolock and   *)
(* custom_backoff_autolock, which wait in lock() itself, and rseq_autolock *)
(* (RSEQ), whose assembly backs off inside a restartable sequence.         *)
(*                                                                         *)
(* The assembly addresses the thread-local variable I_kernel_autolock, a   *)
(* pointer to the page: what it stores replaces the pointer and never      *)
(* reaches the page.  Its store for watch_for lands behind the pointer.    *)
(*                                                                         *)
(* A program has locks of one kind.  Pauses and backoffs only take time.   *)
(***************************************************************************)
EXTENDS QueueLock

CONSTANTS RSEQ, RSEQ_REGISTERED  \* rseq_init() ran in every thread

AutolockAssumption == {RSEQ, RSEQ_REGISTERED} \subseteq BOOLEAN

UNLOCKED == 1
LOCKED == 0

VARIABLES
  mem,      \* lock->mem
  tls,      \* I_kernel_autolock: NULL, the page of the thread or the lock
  created,  \* the thread has made the auto_lock_create system call
  cs        \* the thread's rseq area names the critical section

vars == <<page, pc, mem, tls, created, cs>>

Kernel == INSTANCE AutolockPage WITH Words <- {"mem"}, Values <- {LOCKED, UNLOCKED}
Mem == [mem |-> mem]

SpinPcs == {"set_for", "set_neq", "ms_load", "ms_disarm", "ms_xchg", "ms_arm"}
RseqPcs == {"rs_begin", "rs_arm", "rs_backoff", "rs_load", "rs_disarm", "rs_xchg", "ab_load", "ab_disarm", "ab_xchg"}

TypeOK ==
  /\ page \in [Threads -> Kernel!Page]
  /\ pc \in [Threads -> {"idle", "try_first", "try_second", "fast_load", "fast_xchg", "init", "holding"}
                          \cup (IF RSEQ THEN RseqPcs ELSE SpinPcs)]
  /\ mem \in {LOCKED, UNLOCKED}
  /\ tls \in [Threads -> {NULL, "page", "lock"}]
  /\ created \in [Threads -> BOOLEAN] /\ cs \in [Threads -> BOOLEAN]

\* init() ran in some of the threads.
Init ==
  /\ page = [t \in Threads |-> Kernel!ZeroPage]
  /\ pc = [t \in Threads |-> "idle"]
  /\ mem = UNLOCKED
  /\ created \in [Threads -> BOOLEAN]
  /\ tls = [t \in Threads |-> IF created[t] THEN "page" ELSE NULL]
  /\ cs = [t \in Threads |-> FALSE]

-----------------------------------------------------------------------------
CallTrylock(t) == Goto(t, "idle", "try_first") /\ UNCHANGED <<page, mem, tls, created, cs>>

CallLock(t) == Goto(t, "idle", "fast_load") /\ UNCHANGED <<page, mem, tls, created, cs>>

LoadMem(t, from, free, locked) ==
  /\ Goto(t, from, IF mem # LOCKED THEN free ELSE locked)
  /\ UNCHANGED <<page, mem, tls, created, cs>>

\* Mutant: whoever has seen the lock free takes it.
XchgUnchecked(t, from, locked) ==
  /\ Goto(t, from, "holding")
  /\ mem' = LOCKED
  /\ UNCHANGED <<page, tls, created, cs>>

Xchg(t, from, locked) ==
  /\ Goto(t, from, IF mem # LOCKED THEN "holding" ELSE locked)
  /\ mem' = LOCKED
  /\ UNCHANGED <<page, tls, created, cs>>

\* trylock() of a caller, and the one lock() begins with.
Trylock(t) ==
  \/ LoadMem(t, "try_first", "try_second", "idle")
  \/ Xchg(t, "try_second", "idle")
  \/ LoadMem(t, "fast_load", "fast_xchg", "init")
  \/ Xchg(t, "fast_xchg", "init")

\* autolock_init_kernel_state(): the system call fails for a thread that has made
\* it before, and the result is not looked at.
InitKernelState(t) ==
  /\ Goto(t, "init", IF RSEQ THEN "rs_begin" ELSE "set_for")
  /\ tls' = [tls EXCEPT ![t] = IF @ = NULL /\ ~created[t] THEN "page" ELSE @]
  /\ created' = [created EXCEPT ![t] = TRUE]
  /\ UNCHANGED <<page, mem, cs>>

-----------------------------------------------------------------------------
SetPage(t, from, to, set) ==
  /\ Goto(t, from, to)
  /\ page' = [page EXCEPT ![t] = set]
  /\ UNCHANGED <<mem, tls, created, cs>>

\* Mutant: the page waits for the lock to be taken.
WatchForLocked(t) == SetPage(t, "set_for", "set_neq", Kernel!SetWatchFor(page[t], LOCKED))

WatchForUnlocked(t) == SetPage(t, "set_for", "set_neq", Kernel!SetWatchFor(page[t], UNLOCKED))
ScheduleWhenEqual(t) == SetPage(t, "set_neq", "ms_load", Kernel!SetWatchNeq(page[t], 0))

\* I_internal_user_autolock_trylock_maybe_sched(), turn after turn.
MaybeSched(t) ==
  \/ LoadMem(t, "ms_load", "ms_disarm", "ms_arm")
  \/ Xchg(t, "ms_xchg", "ms_arm")

Disarm(t) == SetPage(t, "ms_disarm", "ms_xchg", Kernel!SetWatchMem(page[t], NULL))
Arm(t) == SetPage(t, "ms_arm", "ms_load", Kernel!SetWatchMem(page[t], "mem"))

-----------------------------------------------------------------------------
SetTls(t, from, to, p) ==
  /\ Goto(t, from, to)
  /\ tls' = [tls EXCEPT ![t] = p]
  /\ UNCHANGED <<page, mem, created, cs>>

\* RSEQ_INIT_NEW_CS and the store for watch_for and watch_neq.
RseqBegin(t) ==
  /\ Goto(t, "rs_begin", "rs_arm")
  /\ cs' = [cs EXCEPT ![t] = TRUE]
  /\ UNCHANGED <<page, mem, tls, created>>

RseqArm(t) == SetTls(t, "rs_arm", "rs_backoff", "lock")

RseqBackoff(t) == Goto(t, "rs_backoff", "rs_load") /\ UNCHANGED <<page, mem, tls, created, cs>>

\* Behind the critical section.
RseqTry(t) ==
  \/ LoadMem(t, "rs_load", "rs_disarm", "rs_arm")
  \/ SetTls(t, "rs_disarm", "rs_xchg", NULL)
  \/ Xchg(t, "rs_xchg", "rs_arm")

\* The kernel resumes a thread it switched out in the critical section at the
\* abort handler and clears the area, which nobody sets again in this lock().
RseqAbort(t) ==
  /\ RSEQ_REGISTERED /\ cs[t]
  /\ pc[t] \in {"rs_arm", "rs_backoff"} /\ pc' = [pc EXCEPT ![t] = "ab_load"]
  /\ cs' = [cs EXCEPT ![t] = FALSE]
  /\ UNCHANGED <<page, mem, tls, created>>

AbortHandler(t) ==
  \/ LoadMem(t, "ab_load", "ab_disarm", "rs_arm")
  \/ SetTls(t, "ab_disarm", "ab_xchg", NULL)
  \/ Xchg(t, "ab_xchg", "rs_arm")

-----------------------------------------------------------------------------
Unlock(t) ==
  /\ Goto(t, "holding", "idle")
  /\ mem' = UNLOCKED
  /\ UNCHANGED <<page, tls, created, cs>>

Step(t) ==
  \/ Trylock(t) \/ InitKernelState(t)
  \/ WatchForUnlocked(t) \/ ScheduleWhenEqual(t) \/ MaybeSched(t) \/ Disarm(t) \/ Arm(t)
  \/ RseqBegin(t) \/ RseqArm(t) \/ RseqBackoff(t) \/ RseqTry(t) \/ AbortHandler(t)
  \/ Unlock(t)

Next == \E t \in Threads : CallTrylock(t) \/ CallLock(t) \/ Step(t) \/ RseqAbort(t)

Spec == Init /\ [][Next]_vars

Runnable(t) == ~Kernel!DontSched(page[t], Mem)

FairSpec == Spec /\ \A t \in Threads : WF_vars(Runnable(t) /\ Step(t))

-----------------------------------------------------------------------------
\* A free lock is anybody's.
ItsTurn(t) == Waits(t) /\ mem = UNLOCKED

\* The lock is owned exactly while its word says so.
LockedIffOwned == mem = LOCKED <=> \E t \in Threads : Owns(t)

\* "Arm/re-arm lock": a thread that backs off lets the kernel hold it back.
ArmedInBackoff == \A t \in Threads : pc[t] = "rs_backoff" => Kernel!IsArmed(page[t])
=============================================================================
