------------------------- MODULE UserAutolockProofs -------------------------
(***************************************************************************)
(* The user autolocks exclude, hold nobody back whose lock is free and     *)
(* implement LockSpec, for any number of threads, whether they wait with   *)
(* the page or in the restartable sequence, aborted anywhere or never.     *)
(***************************************************************************)
EXTENDS UserAutolock, TLAPS

WaitPcs == {"fast_load", "fast_xchg", "init"} \cup SpinPcs \cup RseqPcs
OtherPcs == {"idle", "try_first", "try_second"}

Typed ==
  /\ pc \in [Threads -> WaitPcs \cup OtherPcs \cup {"holding"}]
  /\ mem \in {LOCKED, UNLOCKED}

\* The word tells whether somebody holds the lock, and only one does.
Owned ==
  /\ mem = LOCKED <=> \E t \in Threads : pc[t] = "holding"
  /\ \A t, u \in Threads : pc[t] = "holding" /\ pc[u] = "holding" => t = u

\* The page is armed between two turns of the wait and watches for the free lock.
PageInv ==
  /\ page \in [Threads -> [watch_mem : {"mem", NULL}, watch_for : {LOCKED, UNLOCKED}, watch_neq : {0, 1}]]
  /\ \A t \in Threads :
       /\ page[t].watch_mem # NULL => pc[t] \in {"ms_load", "ms_disarm", "ms_arm"}
       /\ pc[t] \in {"set_neq", "ms_load", "ms_disarm", "ms_xchg", "ms_arm"} => page[t].watch_for = UNLOCKED
       /\ pc[t] \in {"ms_load", "ms_disarm", "ms_xchg", "ms_arm"} => page[t].watch_neq = 0

Inv == Typed /\ Owned /\ PageInv

-----------------------------------------------------------------------------
\* A step that goes from one place to another without taking or freeing the lock.
LEMMA MovesOn ==
  ASSUME Typed, Owned, NEW t \in Threads, NEW to \in WaitPcs \cup OtherPcs,
         pc[t] # "holding", pc' = [pc EXCEPT ![t] = to], UNCHANGED mem
  PROVE  Typed' /\ Owned'
<1>1. to # "holding"
  BY DEF WaitPcs, OtherPcs, SpinPcs, RseqPcs
<1>2. \A u \in Threads : pc'[u] = "holding" <=> pc[u] = "holding"
  BY <1>1 DEF Typed
<1> QED
  BY <1>2 DEF Typed, Owned

LEMMA LoadKeeps ==
  ASSUME Typed, Owned, NEW t \in Threads, NEW from, from # "holding",
         NEW free \in WaitPcs \cup OtherPcs, NEW locked \in WaitPcs \cup OtherPcs, LoadMem(t, from, free, locked)
  PROVE  Typed' /\ Owned'
<1>1. PICK to \in {free, locked} : pc[t] # "holding" /\ pc' = [pc EXCEPT ![t] = to] /\ UNCHANGED mem
  BY DEF LoadMem, Goto
<1> QED
  BY <1>1, MovesOn

LEMMA XchgKeeps ==
  ASSUME Typed, Owned, NEW t \in Threads, NEW from, from # "holding",
         NEW locked \in WaitPcs \cup OtherPcs, Xchg(t, from, locked)
  PROVE  Typed' /\ Owned'
<1>1. CASE mem = LOCKED
  <2>1. pc[t] # "holding" /\ pc' = [pc EXCEPT ![t] = locked] /\ UNCHANGED mem
    BY <1>1 DEF Xchg, Goto
  <2> QED
    BY <2>1, MovesOn
<1>2. CASE mem # LOCKED
  <2>1. pc' = [pc EXCEPT ![t] = "holding"] /\ mem' = LOCKED
    BY <1>2 DEF Xchg, Goto
  <2>2. \A u \in Threads : pc[u] # "holding"
    BY <1>2 DEF Owned
  <2> QED
    BY <2>1, <2>2 DEF Typed, Owned
<1> QED
  BY <1>1, <1>2

LEMMA OwnedNext == ASSUME Typed, Owned, [Next]_vars PROVE Typed' /\ Owned'
<1> USE DEF WaitPcs, OtherPcs, SpinPcs, RseqPcs
<1>1. ASSUME NEW t \in Threads, CallTrylock(t) \/ CallLock(t) PROVE Typed' /\ Owned'
  BY <1>1, MovesOn DEF CallTrylock, CallLock, Goto
<1>2. ASSUME NEW t \in Threads, Trylock(t) PROVE Typed' /\ Owned'
  <2>1. CASE LoadMem(t, "try_first", "try_second", "idle") \/ LoadMem(t, "fast_load", "fast_xchg", "init")
    BY <2>1, LoadKeeps
  <2>2. CASE Xchg(t, "try_second", "idle") \/ Xchg(t, "fast_xchg", "init")
    BY <2>2, XchgKeeps
  <2> QED
    BY <1>2, <2>1, <2>2 DEF Trylock
<1>3. ASSUME NEW t \in Threads, InitKernelState(t) PROVE Typed' /\ Owned'
  <2>1. PICK to \in {"rs_begin", "set_for"} :
          pc[t] # "holding" /\ pc' = [pc EXCEPT ![t] = to] /\ UNCHANGED mem
    BY <1>3 DEF InitKernelState, Goto
  <2> QED
    BY <2>1, MovesOn
<1>4. ASSUME NEW t \in Threads, WatchForUnlocked(t) \/ ScheduleWhenEqual(t) \/ Disarm(t) \/ Arm(t)
      PROVE Typed' /\ Owned'
  BY <1>4, MovesOn DEF WatchForUnlocked, ScheduleWhenEqual, Disarm, Arm, SetPage, Goto
<1>5. ASSUME NEW t \in Threads, MaybeSched(t) PROVE Typed' /\ Owned'
  BY <1>5, LoadKeeps, XchgKeeps DEF MaybeSched
<1>6. ASSUME NEW t \in Threads, RseqBegin(t) \/ RseqArm(t) \/ RseqBackoff(t) \/ RseqAbort(t) PROVE Typed' /\ Owned'
  BY <1>6, MovesOn DEF RseqBegin, RseqArm, RseqBackoff, RseqAbort, SetTls, Goto
<1>7. ASSUME NEW t \in Threads, RseqTry(t) \/ AbortHandler(t) PROVE Typed' /\ Owned'
  <2>1. CASE LoadMem(t, "rs_load", "rs_disarm", "rs_arm") \/ LoadMem(t, "ab_load", "ab_disarm", "rs_arm")
    BY <2>1, LoadKeeps
  <2>2. CASE Xchg(t, "rs_xchg", "rs_arm") \/ Xchg(t, "ab_xchg", "rs_arm")
    BY <2>2, XchgKeeps
  <2>3. CASE SetTls(t, "rs_disarm", "rs_xchg", NULL) \/ SetTls(t, "ab_disarm", "ab_xchg", NULL)
    BY <2>3, MovesOn DEF SetTls, Goto
  <2> QED
    BY <1>7, <2>1, <2>2, <2>3 DEF RseqTry, AbortHandler
<1>8. ASSUME NEW t \in Threads, Unlock(t) PROVE Typed' /\ Owned'
  <2>1. pc[t] = "holding" /\ pc' = [pc EXCEPT ![t] = "idle"] /\ mem' = UNLOCKED
    BY <1>8 DEF Unlock, Goto
  <2>2. \A u \in Threads : pc'[u] # "holding"
    BY <2>1 DEF Typed, Owned
  <2> QED
    BY <2>1, <2>2 DEF Typed, Owned, LOCKED, UNLOCKED
<1>9. CASE UNCHANGED vars
  BY <1>9 DEF vars, Typed, Owned
<1> QED
  BY <1>1, <1>2, <1>3, <1>4, <1>5, <1>6, <1>7, <1>8, <1>9 DEF Next, Step

ArmedPcs == {"ms_load", "ms_disarm", "ms_arm"}
PagePcs == {"set_neq", "ms_xchg"} \cup ArmedPcs

\* A step of t that leaves its page alone.
LEMMA PageKept ==
  ASSUME Typed, PageInv, NEW t \in Threads, NEW to, pc' = [pc EXCEPT ![t] = to], UNCHANGED page,
         \/ pc[t] \notin PagePcs /\ to \notin PagePcs
         \/ pc[t] = "ms_load" /\ to \in {"ms_disarm", "ms_arm"}
         \/ pc[t] = "ms_xchg" /\ to \in {"ms_arm", "holding"}
  PROVE  PageInv'
<1>1. pc'[t] = to /\ \A u \in Threads \ {t} : pc'[u] = pc[u]
  BY DEF Typed
<1> QED
  BY <1>1 DEF PageInv, PagePcs, ArmedPcs

LEMMA PageNext == ASSUME Typed, PageInv, [Next]_vars PROVE PageInv'
<1> USE DEF Goto, PagePcs, ArmedPcs
<1>1. ASSUME NEW t \in Threads, CallTrylock(t) \/ CallLock(t) \/ Trylock(t) PROVE PageInv'
  <2>1. PICK to \in {"try_first", "try_second", "idle", "fast_load", "fast_xchg", "init", "holding"} :
          /\ pc[t] \notin PagePcs /\ pc' = [pc EXCEPT ![t] = to] /\ UNCHANGED page
    BY <1>1 DEF CallTrylock, CallLock, Trylock, LoadMem, Xchg
  <2> QED
    BY <2>1, PageKept
<1>2. ASSUME NEW t \in Threads, InitKernelState(t) \/ Unlock(t) PROVE PageInv'
  <2>1. PICK to \in {"rs_begin", "set_for", "idle"} :
          /\ pc[t] \notin PagePcs /\ pc' = [pc EXCEPT ![t] = to] /\ UNCHANGED page
    BY <1>2 DEF InitKernelState, Unlock
  <2> QED
    BY <2>1, PageKept
<1>3. ASSUME NEW t \in Threads, MaybeSched(t) PROVE PageInv'
  BY <1>3, PageKept DEF MaybeSched, LoadMem, Xchg
<1>4. ASSUME NEW t \in Threads,
             RseqBegin(t) \/ RseqArm(t) \/ RseqBackoff(t) \/ RseqTry(t) \/ RseqAbort(t) \/ AbortHandler(t)
      PROVE PageInv'
  <2>1. PICK to \in RseqPcs \cup {"holding"} :
          /\ pc[t] \notin PagePcs /\ pc' = [pc EXCEPT ![t] = to] /\ UNCHANGED page
    BY <1>4 DEF RseqBegin, RseqArm, RseqBackoff, RseqTry, RseqAbort, AbortHandler, LoadMem, Xchg, SetTls, RseqPcs
  <2> QED
    BY <2>1, PageKept DEF RseqPcs
<1>5. ASSUME NEW t \in Threads, WatchForUnlocked(t) PROVE PageInv'
  BY <1>5 DEF WatchForUnlocked, SetPage, PageInv, Typed, Kernel!SetWatchFor
<1>6. ASSUME NEW t \in Threads, ScheduleWhenEqual(t) PROVE PageInv'
  BY <1>6 DEF ScheduleWhenEqual, SetPage, PageInv, Typed, Kernel!SetWatchNeq
<1>7. ASSUME NEW t \in Threads, Disarm(t) PROVE PageInv'
  BY <1>7 DEF Disarm, SetPage, PageInv, Typed, Kernel!SetWatchMem
<1>8. ASSUME NEW t \in Threads, Arm(t) PROVE PageInv'
  BY <1>8 DEF Arm, SetPage, PageInv, Typed, Kernel!SetWatchMem
<1>9. CASE UNCHANGED vars
  BY <1>9 DEF vars, PageInv
<1> QED
  BY <1>1, <1>2, <1>3, <1>4, <1>5, <1>6, <1>7, <1>8, <1>9 DEF Next, Step

LEMMA Invariant == Spec => []Inv
<1>1. Init => Inv
  BY DEF Init, Inv, Typed, Owned, PageInv, OtherPcs, LOCKED, UNLOCKED, Kernel!ZeroPage
<1>2. Inv /\ [Next]_vars => Inv'
  BY OwnedNext, PageNext DEF Inv
<1> QED
  BY <1>1, <1>2, PTL DEF Spec

LEMMA InvExcludes == Inv => MutualExclusion
  BY DEF Inv, Typed, Owned, MutualExclusion, Owns, Holds, OwnerUnlockPcs, WaitPcs, OtherPcs, SpinPcs, RseqPcs

\* No two threads own the lock, wherever a restartable sequence is aborted.
THEOREM AutolockMutualExclusion == Spec => []MutualExclusion
  BY InvExcludes, Invariant, PTL

\* The word says LOCKED exactly while a thread owns the lock: no exchange that
\* failed leaves it locked for nobody.
THEOREM AutolockLockedIffOwned == Spec => []LockedIffOwned
<1>1. Inv => LockedIffOwned
  BY DEF Inv, Typed, Owned, LockedIffOwned, Owns, Holds, OwnerUnlockPcs, WaitPcs, OtherPcs, SpinPcs, RseqPcs
<1> QED
  BY <1>1, Invariant, PTL

\* Whom the scheduler holds back waits for a lock that is taken.
HeldBackWhileLocked == \A t \in Threads : ~Runnable(t) => Waits(t) /\ mem = LOCKED

\* At every instruction, the three stores to the page included, a thread is held
\* back only in lock() and while somebody owns the lock: since the page is armed
\* last, a preemption between the stores does no harm here.
THEOREM HeldBackWhileLockedHolds == Spec => []HeldBackWhileLocked
<1>1. Inv => HeldBackWhileLocked
  BY DEF Inv, Typed, PageInv, HeldBackWhileLocked, Runnable, Mem, Waits, TryPcs, OwnerUnlockPcs, LateUnlockPcs,
         Kernel!DontSched, Kernel!IsArmed, Kernel!CheckMem
<1> QED
  BY <1>1, Invariant, PTL

-----------------------------------------------------------------------------
AllPcs == WaitPcs \cup OtherPcs \cup {"holding"}

\* Where a step of t leads, for the abstract lock: into a call of lock(), on in
\* it or out of it with the lock; or about outside, with or without the lock.
LEMMA AbstractStep ==
  ASSUME NULL # "lock", Typed, Typed', MutualExclusion', NEW t \in Threads, NEW to \in AllPcs,
         pc' = [pc EXCEPT ![t] = to],
         \/ pc[t] \in OtherPcs
         \/ pc[t] \in WaitPcs /\ to \in WaitPcs \cup {"holding"}
         \/ pc[t] = "holding" /\ to = "idle"
  PROVE  [Lock!Next]_Lock!vars
<1>1. \A u \in Threads : /\ (Waits(u) <=> pc[u] \in WaitPcs) /\ (Holds(u) <=> pc[u] = "holding")
                         /\ (Waits(u)' <=> pc'[u] \in WaitPcs) /\ (Holds(u)' <=> pc'[u] = "holding")
  BY DEF Typed, OtherPcs, WaitPcs, SpinPcs, RseqPcs, Waits, TryPcs, OwnerUnlockPcs, LateUnlockPcs, Holds
<1>2. pc'[t] = to /\ \A u \in Threads \ {t} : Waits(u)' = Waits(u) /\ Holds(u)' = Holds(u)
  BY DEF Typed, Waits, Holds
<1>3. (Waits(t) <=> pc[t] \in WaitPcs) /\ (Holds(t) <=> pc[t] = "holding")
  BY <1>1
<1>4. (Waits(t)' <=> to \in WaitPcs) /\ (Holds(t)' <=> to = "holding")
  BY <1>1, <1>2
<1>5. "holding" \notin WaitPcs /\ "idle" \notin WaitPcs /\ "holding" \notin OtherPcs
  BY DEF WaitPcs, OtherPcs, SpinPcs, RseqPcs
<1>6. CASE pc[t] \in OtherPcs /\ to \in WaitPcs
  <2>1. ~Waits(t) /\ ~Holds(t) /\ Waits(t)' /\ ~Holds(t)'
    BY <1>3, <1>4, <1>5, <1>6 DEF WaitPcs, OtherPcs, SpinPcs, RseqPcs
  <2>2. Lock!Request(t, "lock")
    BY <1>2, <2>1 DEF Lock!Request
  <2> QED
    BY <2>2 DEF Lock!Next
<1>7. CASE pc[t] # "holding" /\ to = "holding"
  <2>1. ~Holds(t) /\ ~Waits(t)' /\ Holds(t)'
    BY <1>3, <1>4, <1>5, <1>7
  <2>2. \A u \in Threads : ~Holds(u)
    BY <1>2, <2>1 DEF MutualExclusion, Owns
  <2>3. Lock!Acquire(t, "lock") \/ Lock!TryAcquire(t, "lock")
    BY <1>2, <2>1, <2>2 DEF Lock!Acquire, Lock!TryAcquire, Lock!Unowned
  <2> QED
    BY <2>3 DEF Lock!Next
<1>8. CASE pc[t] = "holding" /\ to = "idle"
  <2>1. Holds(t) /\ ~Waits(t) /\ ~Holds(t)' /\ ~Waits(t)'
    BY <1>3, <1>4, <1>5, <1>8
  <2>2. Lock!Release(t, "lock")
    BY <1>2, <2>1 DEF Lock!Release
  <2> QED
    BY <2>2 DEF Lock!Next
<1>9. CASE pc[t] # "holding" /\ to # "holding" /\ (pc[t] \in WaitPcs <=> to \in WaitPcs)
  <2>1. Waits(t)' = Waits(t) /\ Holds(t)' = Holds(t)
    BY <1>3, <1>4, <1>9 DEF Waits, Holds
  <2> QED
    BY <1>2, <2>1 DEF Lock!vars
<1>10. pc[t] \in OtherPcs => pc[t] \notin WaitPcs
  BY DEF WaitPcs, OtherPcs, SpinPcs, RseqPcs
<1> QED
  BY <1>5, <1>6, <1>7, <1>8, <1>9, <1>10

LEMMA PlacesOfStep ==
  ASSUME NEW t \in Threads, CallTrylock(t) \/ CallLock(t) \/ Step(t) \/ RseqAbort(t)
  PROVE  \E to \in AllPcs :
           /\ pc' = [pc EXCEPT ![t] = to]
           /\ \/ pc[t] \in OtherPcs
              \/ pc[t] \in WaitPcs /\ to \in WaitPcs \cup {"holding"}
              \/ pc[t] = "holding" /\ to = "idle"
<1> USE DEF Goto, LoadMem, Xchg, SetPage, SetTls, AllPcs, WaitPcs, OtherPcs, SpinPcs, RseqPcs
<1>1. CASE CallTrylock(t) \/ CallLock(t)
  BY <1>1 DEF CallTrylock, CallLock
<1>2. CASE Trylock(t)
  BY <1>2 DEF Trylock
<1>3. CASE InitKernelState(t) \/ WatchForUnlocked(t) \/ ScheduleWhenEqual(t) \/ MaybeSched(t) \/ Disarm(t) \/ Arm(t)
  BY <1>3 DEF InitKernelState, WatchForUnlocked, ScheduleWhenEqual, MaybeSched, Disarm, Arm
<1>4. CASE RseqBegin(t) \/ RseqArm(t) \/ RseqBackoff(t) \/ RseqTry(t) \/ RseqAbort(t) \/ AbortHandler(t)
  BY <1>4 DEF RseqBegin, RseqArm, RseqBackoff, RseqTry, RseqAbort, AbortHandler
<1>5. CASE Unlock(t)
  BY <1>5 DEF Unlock
<1> QED
  BY <1>1, <1>2, <1>3, <1>4, <1>5 DEF Step

\* The user autolocks are locks: every access, that of the abort handler too, is
\* an atomic operation of LockSpec or none.
THEOREM AutolockRefinesLockSpec == ASSUME NULL # "lock" PROVE Spec => Lock!Spec
<1>1. Init => Lock!Init
  BY DEF Init, Lock!Init, Waits, Holds
<1>2. ASSUME Inv, Inv', [Next]_vars PROVE [Lock!Next]_Lock!vars
  <2>1. Typed /\ Typed' /\ MutualExclusion'
    BY <1>2, InvExcludes, PTL DEF Inv
  <2>2. CASE UNCHANGED vars
    BY <2>2 DEF vars, Lock!vars, Waits, Holds
  <2> QED
    BY <1>2, <2>1, <2>2, PlacesOfStep, AbstractStep DEF Next
<1> QED
  BY <1>1, <1>2, Invariant, PTL DEF Spec, Lock!Spec
=============================================================================
