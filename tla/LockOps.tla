------------------------------ MODULE LockOps ------------------------------
(***************************************************************************)
(* lock_ops of locks/lock-base.h, the template behind the stock spin locks *)
(* of the benchmark: try_lock() in a raw loop, then in a loop that yields, *)
(* then a futex, and all over again.  It has no autolock page.             *)
(*                                                                         *)
(* The locks of lock-decls.c instantiate it in the four ways of Templates, *)
(* each with and without a backoff.  The backoff, pauses and yields only   *)
(* take time.  Where BUFFERED is TRUE the store of unlock() may sit in the *)
(* store buffer of x86 until a locked instruction or a system call.        *)
(***************************************************************************)
EXTENDS QueueLock

CONSTANTS RAW_ITERS, YIELD_ITERS, BUFFERED  \* 16 and 4 in lock-decls.c

OpsAssumption == {RAW_ITERS, YIELD_ITERS} \subseteq Nat \ {0} /\ BUFFERED \in BOOLEAN

kUNLOCKED == 1
kLOCKED == 0

VARIABLES
  template,     \* the template arguments of the lock
  mem, waiters, \* lock->state
  unflushed,    \* the thread's store buffer holds its unlocking store
  loop, iter_count

vars == <<page, pc, template, mem, waiters, unflushed, loop, iter_count>>
state == <<mem, waiters, unflushed>>
locals == <<loop, iter_count>>

Template(max_raw_iter, max_yield_iter, with_yield, with_futex) ==
  [max_raw_iter |-> max_raw_iter, max_yield_iter |-> max_yield_iter, with_yield |-> with_yield, with_futex |-> with_futex]

Templates ==
  {Template(0, 0, FALSE, FALSE), Template(RAW_ITERS, 0, TRUE, FALSE),
   Template(RAW_ITERS, YIELD_ITERS, FALSE, TRUE), Template(RAW_ITERS, YIELD_ITERS, TRUE, TRUE)}

TypeOK ==
  /\ pc \in [Threads -> {"idle", "try_first", "try_second", "load", "xchg", "failed", "waiters_inc",
                         "futex_wait", "asleep", "waiters_dec", "holding", "ul_check", "ul_wake"}]
  /\ template \in Templates
  /\ mem \in {kLOCKED, kUNLOCKED} /\ waiters \in 0 .. Cardinality(Threads)
  /\ unflushed \in [Threads -> BOOLEAN]
  /\ loop \in [Threads -> {"outer", "raw", "yield"}]
  /\ iter_count \in [Threads -> 0 .. RAW_ITERS + YIELD_ITERS]

Init ==
  /\ pc = [t \in Threads |-> "idle"]
  /\ template \in Templates
  /\ mem = kUNLOCKED /\ waiters = 0
  /\ unflushed = [t \in Threads |-> FALSE]
  /\ loop = [t \in Threads |-> "outer"] /\ iter_count = [t \in Threads |-> 0]

-----------------------------------------------------------------------------
Load(t) == IF unflushed[t] THEN kUNLOCKED ELSE mem

Drain(t) ==
  /\ unflushed[t]
  /\ mem' = kUNLOCKED
  /\ unflushed' = [unflushed EXCEPT ![t] = FALSE]
  /\ UNCHANGED <<page, pc, template, waiters, locals>>

CallTrylock(t) == Goto(t, "idle", "try_first") /\ UNCHANGED <<page, template, state, locals>>

CallLock(t) == Goto(t, "idle", "load") /\ UNCHANGED <<page, template, state, locals>>

\* The locals go out of scope when lock() returns.
Enters(t, from, to, locked) ==
  LET next == IF Load(t) # kLOCKED THEN to ELSE locked
  IN  /\ Goto(t, from, next)
      /\ loop' = [loop EXCEPT ![t] = IF next = "holding" THEN "outer" ELSE @]
      /\ iter_count' = [iter_count EXCEPT ![t] = IF next = "holding" THEN 0 ELSE @]

TryLoad(t, from, free, locked) ==
  /\ Enters(t, from, free, locked)
  /\ UNCHANGED <<page, template, state>>

\* Mutant: whoever has seen the lock free takes it.
XchgUnchecked(t, from, locked) ==
  /\ ~unflushed[t]
  /\ Goto(t, from, "holding")
  /\ mem' = kLOCKED
  /\ UNCHANGED <<page, template, waiters, unflushed, locals>>

TryXchg(t, from, locked) ==
  /\ ~unflushed[t]
  /\ Enters(t, from, "holding", locked)
  /\ mem' = kLOCKED
  /\ UNCHANGED <<page, template, waiters, unflushed>>

\* try_lock() of a caller, and each one of lock().
Trylock(t) ==
  \/ TryLoad(t, "try_first", "try_second", "idle")
  \/ TryXchg(t, "try_second", "idle")
  \/ TryLoad(t, "load", "xchg", "failed")
  \/ TryXchg(t, "xchg", "failed")

\* After a failure in the raw loop or the yield loop: try again there, or go on
\* to the next stage that the lock has.
TryFailed(t) ==
  LET max == [outer |-> 0, raw |-> template.max_raw_iter, yield |-> template.max_yield_iter][loop[t]]
      leaves == max # 0 /\ iter_count[t] + 1 >= max
      next == IF loop[t] = "outer" THEN "raw"
              ELSE IF ~leaves THEN loop[t]
              ELSE IF loop[t] = "raw" /\ template.with_yield THEN "yield" ELSE "outer"
  IN  /\ Goto(t, "failed", IF next = "outer" /\ template.with_futex THEN "waiters_inc" ELSE "load")
      /\ loop' = [loop EXCEPT ![t] = next]
      /\ iter_count' = [iter_count EXCEPT ![t] = IF next = loop[t] /\ max # 0 THEN @ + 1 ELSE 0]
      /\ UNCHANGED <<page, template, state>>

WaitersInc(t) ==
  /\ ~unflushed[t]
  /\ Goto(t, "waiters_inc", "futex_wait")
  /\ waiters' = waiters + 1
  /\ UNCHANGED <<page, template, mem, unflushed, locals>>

\* FUTEX_WAIT compares the word and sleeps in one step; a signal ends it early.
FutexWait(t) ==
  /\ Goto(t, "futex_wait", IF mem = kLOCKED THEN "asleep" ELSE "waiters_dec")
  /\ UNCHANGED <<page, template, state, locals>>

SpuriousWake(t) == Goto(t, "asleep", "waiters_dec") /\ UNCHANGED <<page, template, state, locals>>

WaitersDec(t) ==
  /\ Goto(t, "waiters_dec", "load")
  /\ waiters' = waiters - 1
  /\ UNCHANGED <<page, template, mem, unflushed, locals>>

-----------------------------------------------------------------------------
Unlock(t) ==
  /\ Goto(t, "holding", IF template.with_futex THEN "ul_check" ELSE "idle")
  /\ IF BUFFERED
     THEN unflushed' = [unflushed EXCEPT ![t] = TRUE] /\ UNCHANGED mem
     ELSE mem' = kUNLOCKED /\ UNCHANGED unflushed
  /\ UNCHANGED <<page, template, waiters, locals>>

UnlockCheckWaiters(t) ==
  /\ Goto(t, "ul_check", IF waiters # 0 THEN "ul_wake" ELSE "idle")
  /\ UNCHANGED <<page, template, state, locals>>

\* The classes of lock-decls.c ignore the result.
UnlockWake(t) ==
  LET sleepers == {w \in Threads : pc[w] = "asleep"}
  IN  /\ pc[t] = "ul_wake" /\ ~unflushed[t]
      /\ \/ sleepers = {} /\ pc' = [pc EXCEPT ![t] = "idle"]
         \/ \E w \in sleepers : pc' = [pc EXCEPT ![t] = "idle", ![w] = "waiters_dec"]
      /\ UNCHANGED <<page, template, state, locals>>

Step(t) ==
  \/ Trylock(t) \/ TryFailed(t) \/ WaitersInc(t) \/ FutexWait(t) \/ WaitersDec(t)
  \/ Unlock(t) \/ UnlockCheckWaiters(t) \/ UnlockWake(t)

Next == \E t \in Threads : CallTrylock(t) \/ CallLock(t) \/ Step(t) \/ Drain(t) \/ SpuriousWake(t)

Spec == Init /\ [][Next]_vars

FairSpec == Spec /\ \A t \in Threads : WF_vars(Step(t)) /\ WF_vars(Drain(t))

-----------------------------------------------------------------------------
\* Somebody sleeps on a free lock and nobody is on the way to wake him.
Stranded ==
  /\ mem = kUNLOCKED /\ \E t \in Threads : pc[t] = "asleep"
  /\ \A t \in Threads : pc[t] \notin {"ul_check", "ul_wake"}

\* A free lock is anybody's.
ItsTurn(t) == Waits(t) /\ mem = kUNLOCKED
=============================================================================
