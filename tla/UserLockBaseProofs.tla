------------------------- MODULE UserLockBaseProofs -------------------------
(***************************************************************************)
(* What UserLockBase guarantees for every set of threads and locks, every  *)
(* configuration of the lock and both memory models.                       *)
(***************************************************************************)
EXTENDS UserLockBase, FiniteSetTheorems, TLAPS

\* TypeOK without the claim that the waiters count never drops below zero,
\* which only WaitersCounted can give.
Typed ==
  /\ mem \in [Locks -> {UNLOCKED, LOCKED}]
  /\ waiters \in [Locks -> Int]
  /\ page \in [Threads -> Kernel!Page]
  /\ mapped \in [Threads -> BOOLEAN]
  /\ unflushed \in [Threads -> Locks \cup {NULL}]
  /\ pc \in [Threads -> Pcs]
  /\ op \in [Threads -> {"lock", "trylock"}]
  /\ cur \in [Threads -> Locks \cup {NULL}]
  /\ phase \in [Threads -> {"pause", "yield"}]
  /\ iter \in [Threads -> Nat]
  /\ ret \in [Threads -> {"I_SUCCESS", "I_FAILURE"}]

\* A thread inside a call, or owning a lock, has a lock as its argument.
Called == \A t \in Threads : pc[t] # "idle" => cur[t] \in Locks

\* The exchange drained the buffer of whoever owns a lock, and a waiter has no
\* release of the lock it waits for left in its buffer.
Buffered ==
  \A t \in Threads :
    /\ pc[t] = "holding" => unflushed[t] = NULL
    /\ pc[t] \in SlowPcs => unflushed[t] # cur[t]

AutolockPcs == {"init_kernel", "set_for", "set_neq", "ms_disarm", "ms_arm"}
LoopPcs == SlowPcs \ {"init_kernel", "set_for", "set_neq"}

\* The page is armed only inside the loop of lock(), on the lock argument, and
\* by then says what to wait for.
PageOK ==
  \A t \in Threads :
    /\ pc[t] \in AutolockPcs => WITH_AUTOLOCK
    /\ pc[t] = "set_neq" => page[t].watch_for = UNLOCKED
    /\ WITH_AUTOLOCK /\ pc[t] \in LoopPcs =>
         page[t].watch_for = UNLOCKED /\ page[t].watch_neq = 0
    /\ page[t].watch_mem # NULL =>
         /\ WITH_AUTOLOCK /\ pc[t] \in LoopPcs \ {"ms_xchg"}
         /\ page[t].watch_mem = cur[t]

LEMMA Bits == UNLOCKED # LOCKED /\ UNLOCKED \in {0, 1} /\ LOCKED \in {0, 1} /\ 0 \in {UNLOCKED, LOCKED}
  BY ConstantsAssumption

LEMMA TypedInit == Init => Typed
<1> SUFFICES ASSUME Init PROVE Typed
  OBVIOUS
<1>1. Kernel!ZeroPage \in Kernel!Page
  BY Bits DEF Kernel!ZeroPage, Kernel!Page
<1>2. mapped \in [Threads -> BOOLEAN]
  BY ConstantsAssumption DEF Init
<1> QED
  BY <1>1, <1>2 DEF Init, Typed, Pcs

\* A store to one word of the page leaves the other two as they were.
LEMMA SetterLemma ==
  ASSUME NEW p \in Kernel!Page, NEW w \in Locks \cup {NULL},
         NEW v \in {UNLOCKED, LOCKED}, NEW b \in {0, 1}
  PROVE  /\ Kernel!SetWatchMem(p, w) \in Kernel!Page
         /\ Kernel!SetWatchFor(p, v) \in Kernel!Page
         /\ Kernel!SetWatchNeq(p, b) \in Kernel!Page
         /\ Kernel!SetWatchMem(p, w) = [watch_mem |-> w, watch_for |-> p.watch_for, watch_neq |-> p.watch_neq]
         /\ Kernel!SetWatchFor(p, v) = [watch_mem |-> p.watch_mem, watch_for |-> v, watch_neq |-> p.watch_neq]
         /\ Kernel!SetWatchNeq(p, b) = [watch_mem |-> p.watch_mem, watch_for |-> p.watch_for, watch_neq |-> b]
  BY DEF Kernel!Page, Kernel!SetWatchMem, Kernel!SetWatchFor, Kernel!SetWatchNeq

LEMMA TypedNext == Typed /\ Called /\ [Next]_vars => Typed' /\ Called'
<1> SUFFICES ASSUME Typed, Called, [Next]_vars PROVE Typed' /\ Called'
  OBVIOUS
<1> USE ConstantsAssumption, Bits DEF Typed, Called, Goto, kernel, call, loop, Pcs, TryPcs, SlowPcs, UnlockPcs
<1>1. CASE UNCHANGED vars
  BY <1>1 DEF vars
<1>2. CASE Next
  <2>1. PICK t \in Threads :
          \/ Step(t) \/ Drain(t) \/ SpuriousWake(t)
          \/ \E l \in Locks, o \in {"lock", "trylock"} : Call(t, l, o)
    BY <1>2 DEF Next
  <2>2. CASE TrylockLoad(t)
    BY <2>2 DEF TrylockLoad, TrylockFails
  <2>3. CASE TrylockXchg(t)
    BY <2>3 DEF TrylockXchg, TrylockFails
  <2>4. CASE InitKernelState(t)
    <3>1. mapped' \in [Threads -> BOOLEAN]
      BY <2>4 DEF InitKernelState
    <3>2. pc' \in [Threads -> Pcs]
      BY <2>4 DEF InitKernelState
    <3> QED
      BY <2>4, <3>1, <3>2 DEF InitKernelState
  <2>5. CASE WatchForUnlocked(t)
    BY <2>5, SetterLemma DEF WatchForUnlocked
  <2>6. CASE ScheduleWhenEqual(t)
    BY <2>6, SetterLemma DEF ScheduleWhenEqual
  <2>7. CASE MaybeSchedLoad(t)
    BY <2>7 DEF MaybeSchedLoad
  <2>8. CASE Disarm(t)
    BY <2>8, SetterLemma DEF Disarm
  <2>9. CASE MaybeSchedXchg(t)
    BY <2>9 DEF MaybeSchedXchg
  <2>10. CASE Arm(t)
    BY <2>10, SetterLemma DEF Arm
  <2>11. CASE TurnFailed(t)
    BY <2>11 DEF TurnFailed
  <2>12. CASE Yield(t)
    BY <2>12 DEF Yield
  <2>13. CASE WaitersInc(t)
    BY <2>13 DEF WaitersInc
  <2>14. CASE FutexWait(t)
    BY <2>14 DEF FutexWait
  <2>15. CASE WaitersDec(t)
    BY <2>15 DEF WaitersDec
  <2>16. CASE UnlockStore(t)
    BY <2>16 DEF UnlockStore, UnlockReturns
  <2>17. CASE UnlockCheckWaiters(t)
    BY <2>17 DEF UnlockCheckWaiters, UnlockReturns
  <2>18. CASE UnlockWake(t)
    BY <2>18 DEF UnlockWake, UnlockReturns, Sleepers
  <2>19. CASE Drain(t)
    BY <2>19 DEF Drain, Fenced
  <2>20. CASE SpuriousWake(t)
    BY <2>20 DEF SpuriousWake
  <2>21. CASE \E l \in Locks, o \in {"lock", "trylock"} : Call(t, l, o)
    BY <2>21 DEF Call
  <2> QED
    BY <2>1, <2>2, <2>3, <2>4, <2>5, <2>6, <2>7, <2>8, <2>9, <2>10, <2>11, <2>12, <2>13,
       <2>14, <2>15, <2>16, <2>17, <2>18, <2>19, <2>20, <2>21 DEF Step
<1> QED
  BY <1>1, <1>2

-----------------------------------------------------------------------------
Owned == Buffered /\ MutualExclusion /\ LockedIffOwned

LEMMA OwnedInit == Init => Owned
<1> SUFFICES ASSUME Init PROVE Owned
  OBVIOUS
<1>1. \A t \in Threads : pc[t] = "idle" /\ unflushed[t] = NULL
  BY DEF Init
<1>2. \A l \in Locks : mem[l] # LOCKED
  BY Bits DEF Init
<1> QED
  BY <1>1, <1>2, ConstantsAssumption
  DEF Owned, Buffered, MutualExclusion, LockedIffOwned, Owns, Holds, SlowPcs

\* A step that stores to no lock word, buffered or not, and neither enters nor
\* leaves a critical section does not disturb ownership.
LEMMA QuietStep ==
  ASSUME Owned, UNCHANGED <<mem, unflushed>>,
         \A u \in Threads : /\ pc'[u] = "holding" <=> pc[u] = "holding"
                            /\ pc[u] = "holding" => cur'[u] = cur[u],
         \A u \in Threads : pc'[u] \in SlowPcs => unflushed[u] # cur'[u]
  PROVE  Owned'
<1>1. \A u \in Threads, l \in Locks : Owns(u, l)' <=> Owns(u, l)
  BY DEF Owns, Holds
<1>2. Buffered'
  BY DEF Owned, Buffered
<1>3. MutualExclusion' /\ LockedIffOwned'
  BY <1>1 DEF Owned, MutualExclusion, LockedIffOwned
<1> QED
  BY <1>2, <1>3 DEF Owned

\* The winner of an exchange found the word unlocked, so nobody owned the lock.
LEMMA WinningStep ==
  ASSUME Typed, Owned, NEW t \in Threads, cur[t] \in Locks, Fenced(t), pc[t] # "holding",
         mem[cur[t]] # LOCKED, mem' = [mem EXCEPT ![cur[t]] = LOCKED],
         pc' = [pc EXCEPT ![t] = "holding"], UNCHANGED <<unflushed, cur>>
  PROVE  Owned'
<1>1. \A u \in Threads : ~Owns(u, cur[t])
  BY DEF Owned, LockedIffOwned
<1>2. \A u \in Threads, l \in Locks :
        Owns(u, l)' <=> Owns(u, l) \/ (u = t /\ l = cur[t])
  BY DEF Typed, Owns, Holds
<1>3. Buffered'
  BY ConstantsAssumption DEF Typed, Owned, Buffered, Fenced, SlowPcs
<1>4. MutualExclusion'
  BY <1>1, <1>2 DEF Owned, MutualExclusion
<1>5. LockedIffOwned'
  <2> SUFFICES ASSUME NEW l \in Locks
               PROVE  mem'[l] = LOCKED <=> \E u \in Threads : Owns(u, l)'
    BY DEF LockedIffOwned
  <2>1. CASE l = cur[t]
    BY <2>1, <1>2 DEF Typed
  <2>2. CASE l # cur[t]
    BY <2>2, <1>2 DEF Typed, Owned, LockedIffOwned
  <2> QED
    BY <2>1, <2>2
<1> QED
  BY <1>3, <1>4, <1>5 DEF Owned

\* The loser stores the value the word already has.
LEMMA LosingStore ==
  ASSUME Typed, NEW l \in Locks, mem[l] = LOCKED, mem' = [mem EXCEPT ![l] = LOCKED]
  PROVE  mem' = mem
  BY DEF Typed

LEMMA DrainStep ==
  ASSUME Typed, Called, Owned, NEW t \in Threads, Drain(t)
  PROVE  Owned'
<1> DEFINE m == unflushed[t]
<1>1. m \in Locks /\ mem' = [mem EXCEPT ![m] = UNLOCKED] /\ unflushed' = [unflushed EXCEPT ![t] = NULL]
      /\ UNCHANGED <<pc, cur>>
  BY DEF Typed, Drain, Fenced, call
<1>2. Owns(t, m) /\ \A u \in Threads : Owns(u, m) => u = t
  BY <1>1 DEF Owned, MutualExclusion, Owns
<1>3. ~Holds(t, m)
  BY <1>1, ConstantsAssumption DEF Owned, Buffered, Holds
<1>4. \A u \in Threads, l \in Locks : Owns(u, l)' <=> Owns(u, l) /\ l # m
  <2> SUFFICES ASSUME NEW u \in Threads, NEW l \in Locks
               PROVE  Owns(u, l)' <=> Owns(u, l) /\ l # m
    OBVIOUS
  <2>1. CASE u = t
    BY <2>1, <1>1, <1>3, ConstantsAssumption DEF Typed, Owns, Holds
  <2>2. CASE u # t
    BY <2>2, <1>1, <1>2 DEF Typed, Owns, Holds
  <2> QED
    BY <2>1, <2>2
<1>5. Buffered'
  BY <1>1, ConstantsAssumption DEF Typed, Called, Owned, Buffered, SlowPcs
<1>6. MutualExclusion'
  BY <1>4 DEF Owned, MutualExclusion
<1>7. LockedIffOwned'
  <2> SUFFICES ASSUME NEW l \in Locks
               PROVE  mem'[l] = LOCKED <=> \E u \in Threads : Owns(u, l)'
    BY DEF LockedIffOwned
  <2>1. CASE l = m
    BY <2>1, <1>1, <1>4, Bits DEF Typed
  <2>2. CASE l # m
    BY <2>2, <1>1, <1>4 DEF Typed, Owned, LockedIffOwned
  <2> QED
    BY <2>1, <2>2
<1> QED
  BY <1>5, <1>6, <1>7 DEF Owned

\* The holder's buffer is empty, so it owns nothing else; the store either waits
\* in the buffer, which keeps the lock owned, or unlocks the word.
LEMMA ReleaseStep ==
  ASSUME Typed, Called, Owned, NEW t \in Threads, UnlockStore(t)
  PROVE  Owned'
<1> DEFINE m == cur[t]
<1>1. pc[t] = "holding" /\ m \in Locks /\ unflushed[t] = NULL
  BY DEF UnlockStore, Called, Owned, Buffered
<1>2. /\ pc'[t] \in {"ul_check", "idle"} /\ cur' \in [Threads -> Locks \cup {NULL}]
      /\ \A u \in Threads \ {t} : pc'[u] = pc[u] /\ cur'[u] = cur[u]
  BY ConstantsAssumption DEF Typed, UnlockStore, UnlockReturns, Goto
<1>3. \A u \in Threads : Owns(u, m) => u = t
  BY <1>1 DEF Owned, MutualExclusion, Owns, Holds
<1>4. CASE TSO
  <2>1. mem' = mem /\ unflushed' = [unflushed EXCEPT ![t] = m]
    BY <1>4 DEF UnlockStore
  <2>2. \A u \in Threads, l \in Locks : Owns(u, l)' <=> Owns(u, l)
    <3> SUFFICES ASSUME NEW u \in Threads, NEW l \in Locks
                 PROVE  Owns(u, l)' <=> Owns(u, l)
      OBVIOUS
    <3>1. CASE u = t
      BY <3>1, <2>1, <1>1, <1>2, ConstantsAssumption DEF Typed, Owns, Holds
    <3>2. CASE u # t
      BY <3>2, <2>1, <1>2 DEF Typed, Owns, Holds
    <3> QED
      BY <3>1, <3>2
  <2>3. Buffered'
    BY <2>1, <1>2 DEF Typed, Owned, Buffered, SlowPcs
  <2> QED
    BY <2>1, <2>2, <2>3 DEF Owned, MutualExclusion, LockedIffOwned
<1>5. CASE ~TSO
  <2>1. mem' = [mem EXCEPT ![m] = UNLOCKED] /\ unflushed' = unflushed
    BY <1>5 DEF UnlockStore
  <2>2. \A u \in Threads, l \in Locks : Owns(u, l)' <=> Owns(u, l) /\ l # m
    <3> SUFFICES ASSUME NEW u \in Threads, NEW l \in Locks
                 PROVE  Owns(u, l)' <=> Owns(u, l) /\ l # m
      OBVIOUS
    <3>1. CASE u = t
      BY <3>1, <2>1, <1>1, <1>2, ConstantsAssumption DEF Typed, Owns, Holds
    <3>2. CASE u # t
      BY <3>2, <2>1, <1>2, <1>3 DEF Typed, Owns, Holds
    <3> QED
      BY <3>1, <3>2
  <2>3. Buffered'
    BY <2>1, <1>2 DEF Typed, Owned, Buffered, SlowPcs
  <2>4. MutualExclusion'
    BY <2>2 DEF Owned, MutualExclusion
  <2>5. LockedIffOwned'
    <3> SUFFICES ASSUME NEW l \in Locks
                 PROVE  mem'[l] = LOCKED <=> \E u \in Threads : Owns(u, l)'
      BY DEF LockedIffOwned
    <3>1. CASE l = m
      BY <3>1, <2>1, <2>2, Bits DEF Typed
    <3>2. CASE l # m
      BY <3>2, <2>1, <2>2 DEF Typed, Owned, LockedIffOwned
    <3> QED
      BY <3>1, <3>2
  <2> QED
    BY <2>3, <2>4, <2>5 DEF Owned
<1> QED
  BY <1>4, <1>5

LEMMA OwnedNext == Typed /\ Called /\ Owned /\ [Next]_vars => Owned'
<1> SUFFICES ASSUME Typed, Called, Owned, [Next]_vars PROVE Owned'
  OBVIOUS
<1> USE DEF Goto, kernel, call, loop
<1>1. CASE UNCHANGED vars
  BY <1>1, QuietStep DEF vars, Owned, Buffered
<1>2. CASE Next
  <2>1. PICK t \in Threads :
          \/ Step(t) \/ Drain(t) \/ SpuriousWake(t)
          \/ \E l \in Locks, o \in {"lock", "trylock"} : Call(t, l, o)
    BY <1>2 DEF Next
  <2>2. CASE TrylockLoad(t)
    <3>1. UNCHANGED <<mem, unflushed>>
      BY <2>2 DEF TrylockLoad
    <3>2. /\ pc[t] = "try_load" /\ pc'[t] \in {"try_xchg", "idle", "init_kernel", "ms_load"}
          /\ pc'[t] \in SlowPcs => cur' = cur /\ Load(t) = LOCKED
          /\ \A u \in Threads \ {t} : pc'[u] = pc[u] /\ cur'[u] = cur[u]
      BY <2>2 DEF TrylockLoad, TrylockFails, Typed, SlowPcs
    <3>3. Load(t) = LOCKED => unflushed[t] # cur[t]
      BY Bits DEF Load
    <3> QED
      BY <3>1, <3>2, <3>3, QuietStep DEF Owned, Buffered
  <2>3. CASE TrylockXchg(t)
    <3>1. CASE mem[cur[t]] # LOCKED
      BY <2>3, <3>1, WinningStep DEF TrylockXchg, Called
    <3>2. CASE mem[cur[t]] = LOCKED
      <4>1. UNCHANGED <<mem, unflushed>> /\ cur[t] \in Locks
        BY <2>3, <3>2, LosingStore DEF TrylockXchg, Called
      <4>2. /\ pc[t] = "try_xchg" /\ pc'[t] \in {"idle", "init_kernel", "ms_load"}
            /\ pc'[t] \in SlowPcs => cur' = cur
            /\ \A u \in Threads \ {t} : pc'[u] = pc[u] /\ cur'[u] = cur[u]
        BY <2>3, <3>2 DEF TrylockXchg, TrylockFails, Typed, SlowPcs
      <4>3. unflushed[t] # cur[t]
        BY <2>3, <4>1, ConstantsAssumption DEF TrylockXchg, Fenced
      <4> QED
        BY <4>1, <4>2, <4>3, QuietStep DEF Owned, Buffered
    <3> QED
      BY <3>1, <3>2
  <2>4. CASE MaybeSchedXchg(t)
    <3>1. CASE mem[cur[t]] # LOCKED
      BY <2>4, <3>1, WinningStep DEF MaybeSchedXchg, Called
    <3>2. CASE mem[cur[t]] = LOCKED
      <4>1. UNCHANGED <<mem, unflushed, cur>>
        BY <2>4, <3>2, LosingStore DEF MaybeSchedXchg, Called
      <4>2. /\ pc[t] = "ms_xchg" /\ pc'[t] \in {"ms_arm", "turn_failed"}
            /\ \A u \in Threads \ {t} : pc'[u] = pc[u]
        BY <2>4, <3>2 DEF MaybeSchedXchg, Typed
      <4> QED
        BY <4>1, <4>2, QuietStep DEF Owned, Buffered, SlowPcs
    <3> QED
      BY <3>1, <3>2
  <2>5. CASE UnlockStore(t)
    BY <2>5, ReleaseStep
  <2>6. CASE Drain(t)
    BY <2>6, DrainStep
  <2>7. CASE UnlockCheckWaiters(t)
    BY <2>7, QuietStep DEF UnlockCheckWaiters, UnlockReturns, Typed, Owned, Buffered, SlowPcs
  <2>8. CASE UnlockWake(t)
    <3>1. /\ UNCHANGED <<mem, unflushed>> /\ pc[t] = "ul_wake" /\ pc'[t] = "idle"
          /\ \A u \in Threads \ {t} :
               cur'[u] = cur[u] /\ (pc'[u] = pc[u] \/ (pc[u] = "asleep" /\ pc'[u] = "waiters_dec"))
      BY <2>8 DEF UnlockWake, UnlockReturns, Sleepers, Typed
    <3> QED
      BY <3>1, QuietStep DEF Owned, Buffered, SlowPcs
  <2>9. CASE \E l \in Locks, o \in {"lock", "trylock"} : Call(t, l, o)
    BY <2>9, QuietStep DEF Call, Typed, Owned, Buffered, SlowPcs
  <2>10. CASE \/ InitKernelState(t) \/ WatchForUnlocked(t) \/ ScheduleWhenEqual(t)
              \/ MaybeSchedLoad(t) \/ Disarm(t) \/ Arm(t) \/ TurnFailed(t) \/ Yield(t)
              \/ WaitersInc(t) \/ FutexWait(t) \/ WaitersDec(t) \/ SpuriousWake(t)
    <3>1. /\ UNCHANGED <<mem, unflushed, cur>> /\ pc[t] \in SlowPcs
          /\ pc'[t] \in SlowPcs \cup {"segv"} /\ \A u \in Threads \ {t} : pc'[u] = pc[u]
      BY <2>10
      DEF InitKernelState, WatchForUnlocked, ScheduleWhenEqual, MaybeSchedLoad, Disarm, Arm,
          TurnFailed, Yield, WaitersInc, FutexWait, WaitersDec, SpuriousWake, Typed, SlowPcs
    <3>2. "segv" # "holding" /\ "segv" \notin SlowPcs /\ "holding" \notin SlowPcs
      BY DEF SlowPcs
    <3> QED
      BY <3>1, <3>2, QuietStep DEF Owned, Buffered
  <2> QED
    BY <2>1, <2>2, <2>3, <2>4, <2>5, <2>6, <2>7, <2>8, <2>9, <2>10 DEF Step
<1> QED
  BY <1>1, <1>2

-----------------------------------------------------------------------------
LEMMA PageInit == Init => PageOK
  BY DEF Init, PageOK, Kernel!ZeroPage, AutolockPcs, LoopPcs, SlowPcs

\* PageOK is about one thread at a time, so a step preserves it for the threads
\* it does not move and for which it leaves the page alone.
LEMMA PageNext == Typed /\ Called /\ PageOK /\ [Next]_vars => PageOK'
<1> SUFFICES ASSUME Typed, Called, PageOK, [Next]_vars, NEW u \in Threads
             PROVE  /\ pc'[u] \in AutolockPcs => WITH_AUTOLOCK
                    /\ pc'[u] = "set_neq" => page'[u].watch_for = UNLOCKED
                    /\ WITH_AUTOLOCK /\ pc'[u] \in LoopPcs =>
                         page'[u].watch_for = UNLOCKED /\ page'[u].watch_neq = 0
                    /\ page'[u].watch_mem # NULL =>
                         /\ WITH_AUTOLOCK /\ pc'[u] \in LoopPcs \ {"ms_xchg"}
                         /\ page'[u].watch_mem = cur'[u]
  BY DEF PageOK
<1> USE DEF Goto, kernel, call, loop
<1>0. /\ page[u] \in Kernel!Page
      /\ pc[u] \in AutolockPcs => WITH_AUTOLOCK
      /\ pc[u] = "set_neq" => page[u].watch_for = UNLOCKED
      /\ WITH_AUTOLOCK /\ pc[u] \in LoopPcs =>
           page[u].watch_for = UNLOCKED /\ page[u].watch_neq = 0
      /\ page[u].watch_mem # NULL =>
           /\ WITH_AUTOLOCK /\ pc[u] \in LoopPcs \ {"ms_xchg"}
           /\ page[u].watch_mem = cur[u]
  BY DEF PageOK, Typed
<1>1. CASE pc'[u] = pc[u] /\ cur'[u] = cur[u] /\ page'[u] = page[u]
  BY <1>0, <1>1
<1>2. CASE Next /\ ~(pc'[u] = pc[u] /\ cur'[u] = cur[u] /\ page'[u] = page[u])
  <2>1. PICK t \in Threads :
          \/ Step(t) \/ Drain(t) \/ SpuriousWake(t)
          \/ \E l \in Locks, o \in {"lock", "trylock"} : Call(t, l, o)
    BY <1>2 DEF Next
  <2>2. CASE TrylockLoad(t) \/ TrylockXchg(t)
    <3>1. /\ u = t /\ page' = page /\ pc[t] \in {"try_load", "try_xchg"}
          /\ \/ pc'[t] \in {"try_xchg", "idle", "holding"}
             \/ pc'[t] = "init_kernel" /\ WITH_AUTOLOCK
             \/ pc'[t] = "ms_load" /\ ~WITH_AUTOLOCK
      BY <2>2, <1>2 DEF TrylockLoad, TrylockXchg, TrylockFails, Typed
    <3> QED
      BY <3>1, <1>0 DEF AutolockPcs, LoopPcs, SlowPcs
  <2>3. CASE InitKernelState(t)
    <3>1. u = t /\ page' = page /\ pc[t] = "init_kernel" /\ pc'[t] \in {"set_for", "segv"}
      BY <2>3, <1>2 DEF InitKernelState, Typed
    <3> QED
      BY <3>1, <1>0 DEF AutolockPcs, LoopPcs, SlowPcs
  <2>4. CASE WatchForUnlocked(t)
    <3>1. /\ u = t /\ pc[t] = "set_for" /\ pc'[t] = "set_neq"
          /\ page'[t] = Kernel!SetWatchFor(page[t], UNLOCKED)
      BY <2>4, <1>2 DEF WatchForUnlocked, Typed
    <3>2. page'[t].watch_mem = page[t].watch_mem /\ page'[t].watch_for = UNLOCKED
      BY <3>1, <1>0 DEF Kernel!SetWatchFor, Kernel!Page
    <3> QED
      BY <3>1, <3>2, <1>0 DEF AutolockPcs, LoopPcs, SlowPcs
  <2>5. CASE ScheduleWhenEqual(t)
    <3>1. /\ u = t /\ pc[t] = "set_neq" /\ pc'[t] = "ms_load"
          /\ page'[t] = Kernel!SetWatchNeq(page[t], 0)
      BY <2>5, <1>2 DEF ScheduleWhenEqual, Typed
    <3>2. /\ page'[t].watch_mem = page[t].watch_mem /\ page'[t].watch_for = page[t].watch_for
          /\ page'[t].watch_neq = 0
      BY <3>1, <1>0, SetterLemma
    <3> QED
      BY <3>1, <3>2, <1>0 DEF AutolockPcs, LoopPcs, SlowPcs
  <2>6. CASE Disarm(t)
    <3>1. /\ u = t /\ pc[t] = "ms_disarm" /\ pc'[t] = "ms_xchg"
          /\ page'[t] = Kernel!SetWatchMem(page[t], NULL)
      BY <2>6, <1>2 DEF Disarm, Typed
    <3>2. /\ page'[t].watch_mem = NULL /\ page'[t].watch_for = page[t].watch_for
          /\ page'[t].watch_neq = page[t].watch_neq
      BY <3>1, <1>0, SetterLemma
    <3> QED
      BY <3>1, <3>2, <1>0 DEF AutolockPcs, LoopPcs, SlowPcs
  <2>7. CASE Arm(t)
    <3>1. /\ u = t /\ pc[t] = "ms_arm" /\ pc'[t] = "turn_failed" /\ cur' = cur
          /\ page'[t] = Kernel!SetWatchMem(page[t], cur[t]) /\ cur[t] \in Locks
      BY <2>7, <1>2 DEF Arm, Typed, Called
    <3>2. /\ page'[t].watch_mem = cur[t] /\ page'[t].watch_for = page[t].watch_for
          /\ page'[t].watch_neq = page[t].watch_neq
      BY <3>1, <1>0 DEF Kernel!SetWatchMem, Kernel!Page
    <3> QED
      BY <3>1, <3>2, <1>0 DEF AutolockPcs, LoopPcs, SlowPcs
  <2>8. CASE MaybeSchedLoad(t) \/ MaybeSchedXchg(t)
    <3>1. /\ u = t /\ page' = page /\ cur' = cur
          /\ \/ pc[t] = "ms_load" /\ pc'[t] \in {"ms_disarm", "ms_arm"} /\ WITH_AUTOLOCK
             \/ pc[t] = "ms_load" /\ pc'[t] \in {"ms_xchg", "turn_failed"} /\ ~WITH_AUTOLOCK
             \/ pc[t] = "ms_xchg" /\ pc'[t] \in {"holding", "turn_failed"}
             \/ pc[t] = "ms_xchg" /\ pc'[t] = "ms_arm" /\ WITH_AUTOLOCK
      BY <2>8, <1>2 DEF MaybeSchedLoad, MaybeSchedXchg, Typed
    <3> QED
      BY <3>1, <1>0 DEF AutolockPcs, LoopPcs, SlowPcs
  <2>9. CASE TurnFailed(t) \/ Yield(t) \/ WaitersInc(t) \/ FutexWait(t) \/ WaitersDec(t) \/ SpuriousWake(t)
    <3>1. /\ u = t /\ page' = page /\ cur' = cur
          /\ pc[t] \in {"turn_failed", "yield", "waiters_inc", "futex_wait", "waiters_dec", "asleep"}
          /\ pc'[t] \in {"ms_load", "yield", "waiters_inc", "futex_wait", "waiters_dec", "asleep"}
      BY <2>9, <1>2 DEF TurnFailed, Yield, WaitersInc, FutexWait, WaitersDec, SpuriousWake, Typed
    <3> QED
      BY <3>1, <1>0 DEF AutolockPcs, LoopPcs, SlowPcs
  <2>10. CASE UnlockStore(t) \/ UnlockCheckWaiters(t)
    <3>1. /\ u = t /\ page' = page /\ pc[t] \in {"holding", "ul_check"}
          /\ pc'[t] \in {"ul_check", "ul_wake", "idle"}
      BY <2>10, <1>2 DEF UnlockStore, UnlockCheckWaiters, UnlockReturns, Typed
    <3> QED
      BY <3>1, <1>0 DEF AutolockPcs, LoopPcs, SlowPcs
  <2>11. CASE UnlockWake(t)
    <3>1. /\ page' = page
          /\ \/ pc[u] = "ul_wake" /\ pc'[u] = "idle"
             \/ pc[u] = "asleep" /\ pc'[u] = "waiters_dec" /\ cur'[u] = cur[u]
      BY <2>11, <1>2 DEF UnlockWake, UnlockReturns, Sleepers, Typed
    <3> QED
      BY <3>1, <1>0 DEF AutolockPcs, LoopPcs, SlowPcs
  <2>12. CASE \E l \in Locks, o \in {"lock", "trylock"} : Call(t, l, o)
    <3>1. u = t /\ page' = page /\ pc[t] = "idle" /\ pc'[t] = "try_load"
      BY <2>12, <1>2 DEF Call, Typed
    <3> QED
      BY <3>1, <1>0 DEF AutolockPcs, LoopPcs, SlowPcs
  <2>13. CASE Drain(t)
    BY <2>13, <1>2 DEF Drain
  <2> QED
    BY <2>1, <2>2, <2>3, <2>4, <2>5, <2>6, <2>7, <2>8, <2>9, <2>10, <2>11, <2>12, <2>13 DEF Step
<1> QED
  BY <1>1, <1>2 DEF vars

LEMMA HeldBack == Typed /\ Called /\ Owned /\ PageOK => HeldBackForARunnableHolder
<1> SUFFICES ASSUME Typed, Called, Owned, PageOK, NEW t \in Threads, ~Runnable(t)
             PROVE  /\ WaitsFor(t, page[t].watch_mem)
                    /\ \E u \in Threads \ {t} :
                         \/ Holds(u, page[t].watch_mem) /\ Runnable(u)
                         \/ unflushed[u] = page[t].watch_mem
  BY DEF HeldBackForARunnableHolder
<1> DEFINE l == page[t].watch_mem
<1>1. l # NULL /\ Kernel!CheckMem(page[t], mem)
  BY DEF Runnable, Kernel!DontSched, Kernel!IsArmed
<1>2. /\ WITH_AUTOLOCK /\ pc[t] \in LoopPcs /\ l = cur[t]
      /\ page[t].watch_for = UNLOCKED /\ page[t].watch_neq = 0
  BY <1>1 DEF PageOK
<1>3. pc[t] \in SlowPcs /\ pc[t] # "idle" /\ pc[t] # "holding" /\ l \in Locks
  BY <1>2 DEF LoopPcs, SlowPcs, Called
<1>4. mem[l] = LOCKED
  BY <1>1, <1>2, <1>3 DEF Kernel!CheckMem, Typed
<1>5. PICK u \in Threads : Owns(u, l)
  BY <1>3, <1>4 DEF Owned, LockedIffOwned
<1>6. u # t
  BY <1>2, <1>3, <1>5 DEF Owns, Holds, Owned, Buffered
<1>7. ASSUME Holds(u, l) PROVE Runnable(u)
  <2>1. page[u].watch_mem = NULL
    BY <1>7 DEF Holds, PageOK, LoopPcs, SlowPcs
  <2> QED
    BY <2>1 DEF Runnable, Kernel!DontSched, Kernel!IsArmed
<1> QED
  BY <1>2, <1>3, <1>5, <1>6, <1>7 DEF WaitsFor, Owns

-----------------------------------------------------------------------------
\* The inductive invariant: the three safety properties above hold because of
\* the parts of it they do not mention.
Inductive == Typed /\ Called /\ Owned /\ PageOK

LEMMA InductiveInit == Init => Inductive
  BY TypedInit, OwnedInit, PageInit DEF Inductive, Init, Called

LEMMA InductiveNext == Inductive /\ [Next]_vars => Inductive'
  BY TypedNext, OwnedNext, PageNext DEF Inductive

\* Every reachable state satisfies the inductive invariant.
LEMMA Invariance == Spec => []Inductive
  BY InductiveInit, InductiveNext, PTL DEF Spec

\* No two threads ever own one lock, whatever loops and memory model lock-base.h
\* is built with, and however many threads race through its two exchanges.
THEOREM MutualExclusionHolds == Spec => []MutualExclusion
<1>1. Inductive => MutualExclusion
  BY DEF Inductive, Owned
<1> QED
  BY <1>1, Invariance, PTL

\* The lock word is I_LOCKED exactly while a thread owns the lock or has the
\* release of it in its store buffer.
THEOREM LockedIffOwnedHolds == Spec => []LockedIffOwned
<1>1. Inductive => LockedIffOwned
  BY DEF Inductive, Owned
<1> QED
  BY <1>1, Invariance, PTL

\* The scheduler never holds back a thread that owns a lock: one that is held
\* back is inside lock() and waits for a lock whose holder may run.
THEOREM HeldBackForARunnableHolderHolds == Spec => []HeldBackForARunnableHolder
<1>1. Inductive => HeldBackForARunnableHolder
  BY HeldBack DEF Inductive
<1> QED
  BY <1>1, Invariance, PTL

-----------------------------------------------------------------------------
Waiters(l) == {t \in Threads : Between(t, l)}

LEMMA WaitersFinite == \A l : IsFiniteSet(Waiters(l))
  BY ConstantsAssumption, FS_Subset DEF Waiters

LEMMA WaitersInit == Init => WaitersCounted
<1> SUFFICES ASSUME Init, NEW l \in Locks PROVE waiters[l] = Cardinality(Waiters(l))
  BY DEF WaitersCounted, Waiters
<1>1. Waiters(l) = {}
  BY DEF Init, Waiters, Between
<1> QED
  BY <1>1, FS_EmptySet DEF Init

\* A step that touches neither the count nor the stretch between its updates.
LEMMA UncountedStep ==
  ASSUME WaitersCounted, UNCHANGED waiters,
         \A u \in Threads, l \in Locks : Between(u, l)' <=> Between(u, l)
  PROVE  WaitersCounted'
<1>1. \A l \in Locks : {u \in Threads : Between(u, l)'} = {u \in Threads : Between(u, l)}
  OBVIOUS
<1> QED
  BY <1>1 DEF WaitersCounted

LEMMA WaitersIncStep ==
  ASSUME Typed, Called, WaitersCounted, NEW t \in Threads, WaitersInc(t)
  PROVE  WaitersCounted'
<1> SUFFICES ASSUME NEW l \in Locks PROVE waiters'[l] = Cardinality(Waiters(l)')
  BY DEF WaitersCounted, Waiters
<1>1. /\ cur' = cur /\ cur[t] \in Locks /\ pc[t] = "waiters_inc"
      /\ pc' = [pc EXCEPT ![t] = "futex_wait"] /\ waiters' = [waiters EXCEPT ![cur[t]] = @ + 1]
  BY DEF WaitersInc, Goto, Called, call
<1>2. CASE l = cur[t]
  <2>1. t \notin Waiters(l) /\ Waiters(l)' = Waiters(l) \cup {t}
    BY <1>1, <1>2 DEF Typed, Waiters, Between
  <2>2. Cardinality(Waiters(l)') = Cardinality(Waiters(l)) + 1
    BY <2>1, WaitersFinite, FS_AddElement
  <2> QED
    BY <1>1, <1>2, <2>2 DEF Typed, WaitersCounted, Waiters
<1>3. CASE l # cur[t]
  <2>1. Waiters(l)' = Waiters(l)
    BY <1>1, <1>3 DEF Typed, Waiters, Between
  <2> QED
    BY <1>1, <1>3, <2>1 DEF Typed, WaitersCounted, Waiters
<1> QED
  BY <1>2, <1>3

LEMMA WaitersDecStep ==
  ASSUME Typed, Called, WaitersCounted, NEW t \in Threads, WaitersDec(t)
  PROVE  WaitersCounted'
<1> SUFFICES ASSUME NEW l \in Locks PROVE waiters'[l] = Cardinality(Waiters(l)')
  BY DEF WaitersCounted, Waiters
<1>1. /\ cur' = cur /\ cur[t] \in Locks /\ pc[t] = "waiters_dec"
      /\ pc' = [pc EXCEPT ![t] = "ms_load"] /\ waiters' = [waiters EXCEPT ![cur[t]] = @ - 1]
  BY DEF WaitersDec, Goto, Called, call
<1>2. CASE l = cur[t]
  <2>1. t \in Waiters(l) /\ Waiters(l)' = Waiters(l) \ {t}
    BY <1>1, <1>2 DEF Typed, Waiters, Between
  <2>2. Cardinality(Waiters(l)') = Cardinality(Waiters(l)) - 1
    BY <2>1, WaitersFinite, FS_RemoveElement
  <2> QED
    BY <1>1, <1>2, <2>2 DEF Typed, WaitersCounted, Waiters
<1>3. CASE l # cur[t]
  <2>1. Waiters(l)' = Waiters(l)
    BY <1>1, <1>3 DEF Typed, Waiters, Between
  <2> QED
    BY <1>1, <1>3, <2>1 DEF Typed, WaitersCounted, Waiters
<1> QED
  BY <1>2, <1>3

LEMMA WaitersNext == Typed /\ Called /\ WaitersCounted /\ [Next]_vars => WaitersCounted'
<1> SUFFICES ASSUME Typed, Called, WaitersCounted, [Next]_vars PROVE WaitersCounted'
  OBVIOUS
<1> USE DEF Goto, kernel, call, loop
<1>1. CASE UNCHANGED vars
  BY <1>1, UncountedStep DEF vars, Between
<1>2. CASE Next
  <2>1. PICK t \in Threads :
          \/ Step(t) \/ Drain(t) \/ SpuriousWake(t)
          \/ \E l \in Locks, o \in {"lock", "trylock"} : Call(t, l, o)
    BY <1>2 DEF Next
  <2>2. CASE WaitersInc(t)
    BY <2>2, WaitersIncStep
  <2>3. CASE WaitersDec(t)
    BY <2>3, WaitersDecStep
  <2>4. CASE FutexWait(t) \/ SpuriousWake(t)
    <3>1. /\ UNCHANGED <<waiters, cur>> /\ pc[t] \in {"futex_wait", "asleep"}
          /\ pc'[t] \in {"asleep", "waiters_dec"} /\ \A u \in Threads \ {t} : pc'[u] = pc[u]
      BY <2>4 DEF FutexWait, SpuriousWake, Typed
    <3> QED
      BY <3>1, UncountedStep DEF Between
  <2>5. CASE UnlockWake(t)
    <3>1. /\ UNCHANGED waiters /\ pc[t] = "ul_wake" /\ pc'[t] = "idle"
          /\ \A u \in Threads \ {t} :
               cur'[u] = cur[u] /\ (pc'[u] = pc[u] \/ (pc[u] = "asleep" /\ pc'[u] = "waiters_dec"))
      BY <2>5 DEF UnlockWake, UnlockReturns, Sleepers, Typed
    <3> QED
      BY <3>1, UncountedStep DEF Between
  <2>6. CASE \/ TrylockLoad(t) \/ TrylockXchg(t) \/ InitKernelState(t) \/ WatchForUnlocked(t)
             \/ ScheduleWhenEqual(t) \/ MaybeSchedLoad(t) \/ Disarm(t) \/ MaybeSchedXchg(t)
             \/ Arm(t) \/ TurnFailed(t) \/ Yield(t) \/ UnlockStore(t) \/ UnlockCheckWaiters(t)
             \/ \E l \in Locks, o \in {"lock", "trylock"} : Call(t, l, o)
    <3>1. /\ UNCHANGED waiters
          /\ pc[t] \notin {"futex_wait", "asleep", "waiters_dec"}
          /\ pc'[t] \notin {"futex_wait", "asleep", "waiters_dec"}
          /\ \A u \in Threads \ {t} : pc'[u] = pc[u] /\ cur'[u] = cur[u]
      BY <2>6
      DEF TrylockLoad, TrylockXchg, TrylockFails, InitKernelState, WatchForUnlocked,
          ScheduleWhenEqual, MaybeSchedLoad, Disarm, MaybeSchedXchg, Arm, TurnFailed, Yield,
          UnlockStore, UnlockCheckWaiters, UnlockReturns, Call, Typed
    <3> QED
      BY <3>1, UncountedStep DEF Between
  <2>7. CASE Drain(t)
    BY <2>7, UncountedStep DEF Drain, Between
  <2> QED
    BY <2>1, <2>2, <2>3, <2>4, <2>5, <2>6, <2>7 DEF Step
<1> QED
  BY <1>1, <1>2

\* lock->waiters is exact for any finite number of threads: no interleaving of
\* sleeping, waking and restarting loses or repeats an update.
THEOREM WaitersCountedHolds == Spec => []WaitersCounted
<1>1. Inductive /\ WaitersCounted /\ [Next]_vars => WaitersCounted'
  BY WaitersNext DEF Inductive
<1> QED
  BY <1>1, WaitersInit, Invariance, PTL DEF Spec

\* Every variable keeps its type; that the waiters count never drops below zero
\* is what needs the exact count.
THEOREM TypeCorrect == Spec => []TypeOK
<1>1. Inductive /\ WaitersCounted => TypeOK
  <2> SUFFICES ASSUME Typed, WaitersCounted, NEW l \in Locks PROVE waiters[l] \in Nat
    BY DEF Inductive, Typed, TypeOK
  <2> QED
    BY WaitersFinite, FS_CardinalityType DEF WaitersCounted, Waiters
<1> QED
  BY <1>1, Invariance, WaitersCountedHolds, PTL

-----------------------------------------------------------------------------
(***************************************************************************)
(* lock() and unlock() lose no futex wakeup when stores are not buffered.  *)
(* On x86-TSO they do: the run futex_buffered_release shows it.            *)
(***************************************************************************)

\* The assumption of the results below, as the state predicate it implies.
Unbuffered == \A t \in Threads : unflushed[t] = NULL

FutexOnly ==
  \A t \in Threads : pc[t] \in {"waiters_inc", "futex_wait", "asleep", "waiters_dec"} => WITH_FUTEX

LEMMA UnbufferedNext == ~TSO /\ Unbuffered /\ [Next]_vars => Unbuffered'
<1> SUFFICES ASSUME ~TSO, Unbuffered, [Next]_vars PROVE unflushed' = unflushed
  BY DEF Unbuffered
<1> QED
  BY DEF Next, Step, vars, Unbuffered, TrylockLoad, TrylockXchg, InitKernelState,
     WatchForUnlocked, ScheduleWhenEqual, MaybeSchedLoad, Disarm, MaybeSchedXchg, Arm,
     TurnFailed, Yield, WaitersInc, FutexWait, WaitersDec, UnlockStore, UnlockCheckWaiters,
     UnlockWake, Drain, Fenced, SpuriousWake, Call

LEMMA FutexOnlyNext == Typed /\ FutexOnly /\ [Next]_vars => FutexOnly'
<1> SUFFICES ASSUME Typed, FutexOnly, [Next]_vars, NEW u \in Threads,
                    pc'[u] \in {"waiters_inc", "futex_wait", "asleep", "waiters_dec"}
             PROVE  WITH_FUTEX
  BY DEF FutexOnly
<1> USE DEF Goto
<1>1. CASE pc[u] \in {"waiters_inc", "futex_wait", "asleep", "waiters_dec"}
  BY <1>1 DEF FutexOnly
<1>2. CASE Next /\ pc[u] \notin {"waiters_inc", "futex_wait", "asleep", "waiters_dec"}
  <2>1. TurnFailed(u)
    <3>1. PICK t \in Threads : \/ Step(t) \/ Drain(t) \/ SpuriousWake(t)
                               \/ \E l \in Locks, o \in {"lock", "trylock"} : Call(t, l, o)
      BY <1>2 DEF Next
    <3>2. CASE TrylockLoad(t) \/ TrylockXchg(t) \/ InitKernelState(t) \/ WatchForUnlocked(t)
      BY <1>2, <3>2 DEF Typed, TrylockLoad, TrylockXchg, TrylockFails, InitKernelState, WatchForUnlocked
    <3>3. CASE ScheduleWhenEqual(t) \/ MaybeSchedLoad(t) \/ Disarm(t) \/ MaybeSchedXchg(t) \/ Arm(t)
      BY <1>2, <3>3 DEF Typed, ScheduleWhenEqual, MaybeSchedLoad, Disarm, MaybeSchedXchg, Arm
    <3>4. CASE TurnFailed(t)
      <4>1. t = u
        BY <1>2, <3>4 DEF Typed, TurnFailed
      <4> QED
        BY <3>4, <4>1
    <3>5. CASE Yield(t) \/ WaitersInc(t) \/ FutexWait(t) \/ WaitersDec(t)
      BY <1>2, <3>5 DEF Typed, Yield, WaitersInc, FutexWait, WaitersDec
    <3>6. CASE UnlockStore(t) \/ UnlockCheckWaiters(t) \/ UnlockWake(t)
      BY <1>2, <3>6 DEF Typed, UnlockStore, UnlockCheckWaiters, UnlockWake, UnlockReturns, Sleepers
    <3>7. CASE Drain(t) \/ SpuriousWake(t) \/ \E l \in Locks, o \in {"lock", "trylock"} : Call(t, l, o)
      BY <1>2, <3>7 DEF Typed, Drain, SpuriousWake, Call
    <3> QED
      BY <3>1, <3>2, <3>3, <3>4, <3>5, <3>6, <3>7 DEF Step
  <2>2. pc'[u] = "waiters_inc"
    BY <2>1 DEF TurnFailed, Typed
  <2> QED
    BY <2>1, <2>2, ConstantsAssumption DEF TurnFailed, Typed
<1> QED
  BY <1>1, <1>2 DEF vars

\* A thread that is still to wake a sleeper, or to take and release the lock.
Waker(t, l) == t \notin Sleepers(l) /\ (Owns(t, l) \/ WaitsFor(t, l) \/ Unlocks(t, l))

\* The thread that is bound to wake the sleepers either stays bound to, or wakes
\* one of them, which then is.
LEMMA WakerMoves ==
  ASSUME Typed, Called, WaitersCounted, Unbuffered, Unbuffered', FutexOnly,
         NEW t \in Threads, NEW l \in Locks, Waker(t, l), Sleepers(l) # {},
         ~(FutexWait(t) /\ pc'[t] = "asleep"), pc'[t] # "segv",
         \/ Step(t) \/ Drain(t) \/ SpuriousWake(t)
         \/ \E k \in Locks, o \in {"lock", "trylock"} : Call(t, k, o)
  PROVE  \E u \in Threads : Waker(u, l)'
<1> USE DEF Goto, kernel, call, loop
<1>1. cur[t] = l /\ (pc[t] = "holding" \/ WaitsFor(t, l) \/ pc[t] \in UnlockPcs)
  BY ConstantsAssumption DEF Waker, Owns, Holds, WaitsFor, Unlocks, Unbuffered
<1>2. CASE pc[t] \in TryPcs
  <2>1. TrylockLoad(t) \/ TrylockXchg(t)
    BY <1>2
    DEF Step, TryPcs, InitKernelState, WatchForUnlocked, ScheduleWhenEqual, MaybeSchedLoad,
        Disarm, MaybeSchedXchg, Arm, TurnFailed, Yield, WaitersInc, FutexWait, WaitersDec,
        UnlockStore, UnlockCheckWaiters, UnlockWake, Drain, Fenced, Unbuffered, SpuriousWake, Call
  <2>2. op[t] = "lock"
    BY <1>1, <1>2 DEF WaitsFor, TryPcs, SlowPcs, UnlockPcs
  <2>3. UNCHANGED <<cur, op>> /\ pc'[t] \in {"try_xchg", "holding", "init_kernel", "ms_load"}
    BY <2>1, <2>2 DEF TrylockLoad, TrylockXchg, TrylockFails, Typed
  <2>4. Waker(t, l)'
    BY <1>1, <2>2, <2>3 DEF Waker, Sleepers, Owns, Holds, WaitsFor, SlowPcs, TryPcs
  <2> QED
    BY <2>4
<1>3. CASE pc[t] \in SlowPcs
  <2>1. \/ InitKernelState(t) \/ WatchForUnlocked(t) \/ ScheduleWhenEqual(t) \/ MaybeSchedLoad(t)
        \/ Disarm(t) \/ MaybeSchedXchg(t) \/ Arm(t) \/ TurnFailed(t) \/ Yield(t)
        \/ WaitersInc(t) \/ FutexWait(t) \/ WaitersDec(t) \/ SpuriousWake(t)
    BY <1>3
    DEF Step, SlowPcs, TrylockLoad, TrylockXchg, UnlockStore, UnlockCheckWaiters, UnlockWake,
        Drain, Fenced, Unbuffered, Call
  <2>2. cur' = cur /\ (pc'[t] = "holding" \/ pc'[t] \in SlowPcs \ {"asleep"})
    BY <2>1
    DEF InitKernelState, WatchForUnlocked, ScheduleWhenEqual, MaybeSchedLoad, Disarm,
        MaybeSchedXchg, Arm, TurnFailed, Yield, WaitersInc, FutexWait, WaitersDec, SpuriousWake,
        Typed, SlowPcs
  <2>3. Waker(t, l)'
    BY <1>1, <2>2 DEF Waker, Sleepers, Owns, Holds, WaitsFor, SlowPcs
  <2> QED
    BY <2>3
<1>4. CASE pc[t] = "holding"
  <2>1. UnlockStore(t)
    BY <1>4
    DEF Step, TrylockLoad, TrylockXchg, InitKernelState, WatchForUnlocked, ScheduleWhenEqual,
        MaybeSchedLoad, Disarm, MaybeSchedXchg, Arm, TurnFailed, Yield, WaitersInc, FutexWait,
        WaitersDec, UnlockCheckWaiters, UnlockWake, Drain, Fenced, Unbuffered, SpuriousWake, Call
  <2>2. WITH_FUTEX
    BY DEF Sleepers, FutexOnly
  <2>3. pc'[t] = "ul_check" /\ cur' = cur
    BY <2>1, <2>2 DEF UnlockStore, Typed
  <2>4. Waker(t, l)'
    BY <1>1, <2>3 DEF Waker, Sleepers, Unlocks, UnlockPcs
  <2> QED
    BY <2>4
<1>5. CASE pc[t] = "ul_check"
  <2>1. UnlockCheckWaiters(t)
    BY <1>5
    DEF Step, TrylockLoad, TrylockXchg, InitKernelState, WatchForUnlocked, ScheduleWhenEqual,
        MaybeSchedLoad, Disarm, MaybeSchedXchg, Arm, TurnFailed, Yield, WaitersInc, FutexWait,
        WaitersDec, UnlockStore, UnlockWake, Drain, Fenced, Unbuffered, SpuriousWake, Call
  <2>2. Waiters(l) # {}
    BY DEF Sleepers, Waiters, Between
  <2>3. waiters[l] # 0
    BY <2>2, WaitersFinite, FS_EmptySet DEF WaitersCounted, Waiters
  <2>4. pc'[t] = "ul_wake" /\ cur' = cur
    BY <1>1, <2>1, <2>3 DEF UnlockCheckWaiters, Typed
  <2>5. Waker(t, l)'
    BY <1>1, <2>4 DEF Waker, Sleepers, Unlocks, UnlockPcs
  <2> QED
    BY <2>5
<1>6. CASE pc[t] = "ul_wake"
  <2>1. UnlockWake(t)
    BY <1>6
    DEF Step, TrylockLoad, TrylockXchg, InitKernelState, WatchForUnlocked, ScheduleWhenEqual,
        MaybeSchedLoad, Disarm, MaybeSchedXchg, Arm, TurnFailed, Yield, WaitersInc, FutexWait,
        WaitersDec, UnlockStore, UnlockCheckWaiters, Drain, Fenced, Unbuffered, SpuriousWake, Call
  <2>2. PICK w \in Sleepers(l) : /\ pc' = [pc EXCEPT ![t] = "idle", ![w] = "waiters_dec"]
                                 /\ cur' = [cur EXCEPT ![t] = NULL]
    BY <1>1, <2>1 DEF UnlockWake
  <2>3. w \in Threads /\ w # t /\ cur'[w] = l /\ pc'[w] = "waiters_dec"
    BY <1>6, <2>2 DEF Sleepers, Typed
  <2>4. Waker(w, l)'
    BY <2>3 DEF Waker, Sleepers, WaitsFor, SlowPcs
  <2> QED
    BY <2>3, <2>4
<1> QED
  BY <1>1, <1>2, <1>3, <1>4, <1>5, <1>6 DEF WaitsFor, UnlockPcs

\* One thread's step leaves the others' part in waking alone.
LEMMA OtherWakers ==
  ASSUME Typed, NEW t \in Threads, NEW u \in Threads \ {t}, NEW l \in Locks,
         Unbuffered, Unbuffered', Waker(u, l),
         \/ Step(t) \/ Drain(t) \/ SpuriousWake(t)
         \/ \E k \in Locks, o \in {"lock", "trylock"} : Call(t, k, o)
  PROVE  Waker(u, l)'
<1>1. cur[u] = l
  BY ConstantsAssumption DEF Waker, Owns, Holds, WaitsFor, Unlocks, Unbuffered
<1>2. pc[u] # "asleep"
  BY <1>1 DEF Waker, Sleepers
<1>3. pc'[u] = pc[u] /\ cur'[u] = cur[u] /\ op'[u] = op[u]
  BY <1>2
  DEF Goto, kernel, call, loop, Step, Typed, TrylockLoad, TrylockXchg, TrylockFails,
      InitKernelState, WatchForUnlocked, ScheduleWhenEqual, MaybeSchedLoad, Disarm,
      MaybeSchedXchg, Arm, TurnFailed, Yield, WaitersInc, FutexWait, WaitersDec, UnlockStore,
      UnlockCheckWaiters, UnlockWake, UnlockReturns, Sleepers, Drain, SpuriousWake, Call
<1> QED
  BY <1>1, <1>2, <1>3 DEF Waker, Sleepers, Owns, Holds, WaitsFor, Unlocks, Unbuffered

LEMMA WakeupNext ==
  ASSUME Inductive, WaitersCounted, Unbuffered, Unbuffered', FutexOnly, NoLostWakeup, [Next]_vars
  PROVE  NoLostWakeup'
<1> SUFFICES ASSUME Alive', NEW l \in Locks, Sleepers(l)' # {}
             PROVE  \E u \in Threads : Waker(u, l)'
  BY DEF NoLostWakeup, Waker
<1>1. CASE UNCHANGED vars
  <2>1. PICK w \in Threads : Waker(w, l)
    BY <1>1 DEF vars, Alive, NoLostWakeup, Waker, Sleepers
  <2>2. Waker(w, l)'
    BY <1>1, <2>1 DEF vars, Waker, Sleepers, Owns, Holds, WaitsFor, Unlocks
  <2> QED
    BY <2>2
<1>2. CASE Next
  <2>1. Alive
    BY <1>2 DEF Next
  <2>2. PICK t \in Threads :
          \/ Step(t) \/ Drain(t) \/ SpuriousWake(t)
          \/ \E k \in Locks, o \in {"lock", "trylock"} : Call(t, k, o)
    BY <1>2 DEF Next
  <2>3. CASE FutexWait(t) /\ pc'[t] = "asleep" /\ cur[t] = l
    <3>1. mem[l] = LOCKED /\ pc[t] = "futex_wait"
      BY <2>3 DEF FutexWait, Goto, Inductive, Typed
    <3>2. PICK u \in Threads : Owns(u, l)
      BY <3>1 DEF Inductive, Owned, LockedIffOwned
    <3>3. pc[u] = "holding" /\ cur[u] = l /\ u # t
      BY <3>1, <3>2, ConstantsAssumption DEF Owns, Holds, Unbuffered
    <3>4. Waker(u, l)'
      BY <3>2, <3>3, <2>2, OtherWakers DEF Waker, Sleepers, Inductive
    <3> QED
      BY <3>4
  <2>4. CASE ~(FutexWait(t) /\ pc'[t] = "asleep" /\ cur[t] = l)
    <3>1. Sleepers(l)' \subseteq Sleepers(l)
      BY <2>2, <2>4
      DEF Goto, kernel, call, loop, Step, Inductive, Typed, TrylockLoad, TrylockXchg,
          TrylockFails, InitKernelState, WatchForUnlocked, ScheduleWhenEqual, MaybeSchedLoad,
          Disarm, MaybeSchedXchg, Arm, TurnFailed, Yield, WaitersInc, FutexWait, WaitersDec,
          UnlockStore, UnlockCheckWaiters, UnlockWake, UnlockReturns, Sleepers, Drain,
          SpuriousWake, Call
    <3>2. PICK w \in Threads : Waker(w, l)
      BY <2>1, <3>1 DEF NoLostWakeup, Waker
    <3>3. CASE w = t
      <4>1. ~(FutexWait(t) /\ pc'[t] = "asleep")
        BY <2>4, <3>2, <3>3, ConstantsAssumption
        DEF Waker, Owns, Holds, WaitsFor, Unlocks, Unbuffered
      <4>2. pc'[t] # "segv"
        BY DEF Alive
      <4> QED
        BY <2>2, <3>1, <3>2, <3>3, <4>1, <4>2, WakerMoves DEF Inductive
    <3>4. CASE w # t
      BY <2>2, <3>2, <3>4, OtherWakers DEF Inductive
    <3> QED
      BY <3>3, <3>4
  <2> QED
    BY <2>3, <2>4
<1> QED
  BY <1>1, <1>2

\* The store buffer is the only way to lose a wakeup: if the unlocking store took
\* effect before the load of lock->waiters, as it does not on x86, nobody would be
\* left asleep on a free lock with nobody to wake it.
LEMMA NoLostWakeupInProgramOrder ==
  ASSUME ~TSO
  PROVE  Spec => []NoLostWakeup
<1>1. Init => Unbuffered /\ FutexOnly /\ NoLostWakeup
  BY DEF Init, Unbuffered, FutexOnly, NoLostWakeup, Sleepers
<1>2. /\ Inductive /\ WaitersCounted /\ [Next]_vars
      /\ Unbuffered /\ FutexOnly /\ NoLostWakeup
      => (Unbuffered /\ FutexOnly /\ NoLostWakeup)'
  BY UnbufferedNext, FutexOnlyNext, WakeupNext DEF Inductive
<1> QED
  BY <1>1, <1>2, Invariance, WaitersCountedHolds, PTL DEF Spec

-----------------------------------------------------------------------------
(***************************************************************************)
(* lock(), trylock() and unlock() of I_user_lock_base implement LockSpec:  *)
(* every access is an atomic operation on the abstract lock or a stutter.  *)
(* A call begins to wait where lock() is entered, owns the lock from its   *)
(* winning exchange on, and gives it up with the store of unlock(), even   *)
(* while that store is only in the thread's buffer.                        *)
(***************************************************************************)

\* The abstract variables, one thread at a time.
Want(t) == IF WaitsFor(t, cur[t]) THEN cur[t] ELSE NULL
Held(t) == IF pc[t] = "holding" THEN cur[t] ELSE NULL

LEMMA RefineInit == Init => Lock!Init
<1> SUFFICES ASSUME Init, NEW t \in Threads PROVE Want(t) = NULL /\ Held(t) = NULL
  BY DEF Lock!Init, Want, Held
<1> QED
  BY DEF Init, Want, Held, WaitsFor, SlowPcs, TryPcs

\* A step that changes no thread's abstract state is a stutter.
LEMMA StutterStep ==
  ASSUME \A u \in Threads : Want(u)' = Want(u) /\ Held(u)' = Held(u)
  PROVE  UNCHANGED Lock!vars
  BY DEF Lock!vars, Want, Held

LEMMA RequestStep ==
  ASSUME NEW t \in Threads, NEW l \in Locks, Want(t) = NULL, Held(t) = NULL,
         Want(t)' = l, Held(t)' = NULL,
         \A u \in Threads \ {t} : Want(u)' = Want(u) /\ Held(u)' = Held(u)
  PROVE  Lock!Request(t, l)
  BY DEF Lock!Request, Want, Held

LEMMA AcquireStep ==
  ASSUME NEW t \in Threads, NEW l \in Locks, Want(t) = l, Held(t) = NULL,
         \A u \in Threads : Held(u) # l,
         Want(t)' = NULL, Held(t)' = l,
         \A u \in Threads \ {t} : Want(u)' = Want(u) /\ Held(u)' = Held(u)
  PROVE  Lock!Acquire(t, l)
  BY DEF Lock!Acquire, Lock!Unowned, Want, Held

LEMMA TryAcquireStep ==
  ASSUME NEW t \in Threads, NEW l \in Locks, Want(t) = NULL, Held(t) = NULL,
         \A u \in Threads : Held(u) # l,
         Want(t)' = NULL, Held(t)' = l,
         \A u \in Threads \ {t} : Want(u)' = Want(u) /\ Held(u)' = Held(u)
  PROVE  Lock!TryAcquire(t, l)
  BY DEF Lock!TryAcquire, Lock!Unowned, Want, Held

LEMMA ReleasedStep ==
  ASSUME NEW t \in Threads, NEW l \in Locks, Held(t) = l,
         Held(t)' = NULL, Want(t)' = Want(t),
         \A u \in Threads \ {t} : Want(u)' = Want(u) /\ Held(u)' = Held(u)
  PROVE  Lock!Release(t, l)
  BY DEF Lock!Release, Want, Held

\* The exchange that finds the word unlocked takes a lock that nobody owns.
LEMMA WinStep ==
  ASSUME Typed, Called, Owned, NEW t \in Threads, pc[t] \in {"try_xchg", "ms_xchg"},
         mem[cur[t]] # LOCKED, pc' = [pc EXCEPT ![t] = "holding"], UNCHANGED <<op, cur>>
  PROVE  Lock!Next
<1> PICK m \in Locks : m = cur[t]
  BY DEF Called
<1>1. Held(t) = NULL /\ Held(t)' = m /\ Want(t)' = NULL
  BY DEF Typed, Held, Want, WaitsFor, SlowPcs, TryPcs
<1>2. \A u \in Threads : Held(u) # m
  BY ConstantsAssumption DEF Owned, LockedIffOwned, Owns, Holds, Held
<1>3. \A u \in Threads \ {t} : Want(u)' = Want(u) /\ Held(u)' = Held(u)
  BY DEF Typed, Want, Held, WaitsFor
<1>4. CASE Want(t) = m
  <2>1. Lock!Acquire(t, m)
    BY <1>1, <1>2, <1>3, <1>4, AcquireStep
  <2> QED
    BY <2>1 DEF Lock!Next
<1>5. CASE Want(t) = NULL
  <2>1. Lock!TryAcquire(t, m)
    BY <1>1, <1>2, <1>3, <1>5, TryAcquireStep
  <2> QED
    BY <2>1 DEF Lock!Next
<1> QED
  BY <1>4, <1>5 DEF Want

LEMMA RefineNext ==
  ASSUME ~CREATE_MAY_FAIL, Typed, Called, Owned, [Next]_vars
  PROVE  [Lock!Next]_Lock!vars
<1> USE DEF Goto, kernel, call, loop
<1>1. CASE UNCHANGED vars
  BY <1>1, StutterStep DEF vars, Want, Held, WaitsFor
<1>2. CASE Next
  <2>1. PICK t \in Threads :
          \/ Step(t) \/ Drain(t) \/ SpuriousWake(t)
          \/ \E l \in Locks, o \in {"lock", "trylock"} : Call(t, l, o)
    BY <1>2 DEF Next
  <2>2. CASE \E l \in Locks, o \in {"lock", "trylock"} : Call(t, l, o)
    <3>1. PICK l \in Locks, o \in {"lock", "trylock"} : Call(t, l, o)
      BY <2>2
    <3>2. /\ pc[t] = "idle" /\ pc' = [pc EXCEPT ![t] = "try_load"]
          /\ op' = [op EXCEPT ![t] = o] /\ cur' = [cur EXCEPT ![t] = l]
      BY <3>1 DEF Call
    <3>3. /\ Want(t) = NULL /\ Held(t) = NULL /\ Held(t)' = NULL
          /\ Want(t)' = IF o = "lock" THEN l ELSE NULL
          /\ \A u \in Threads \ {t} : Want(u)' = Want(u) /\ Held(u)' = Held(u)
      BY <3>2 DEF Typed, Want, Held, WaitsFor, SlowPcs, TryPcs
    <3>4. CASE o = "lock"
      BY <3>3, <3>4, RequestStep DEF Lock!Next
    <3>5. CASE o = "trylock"
      BY <3>3, <3>5, StutterStep
    <3> QED
      BY <3>4, <3>5
  <2>3. CASE TrylockXchg(t) /\ mem[cur[t]] # LOCKED
    BY <2>3, WinStep DEF TrylockXchg
  <2>4. CASE MaybeSchedXchg(t) /\ mem[cur[t]] # LOCKED
    BY <2>4, WinStep DEF MaybeSchedXchg
  <2>5. CASE TrylockLoad(t) \/ (TrylockXchg(t) /\ mem[cur[t]] = LOCKED)
    <3>1. /\ pc[t] \in TryPcs /\ op' = op
          /\ \/ pc'[t] = "try_xchg" /\ cur' = cur
             \/ pc'[t] = "idle" /\ op[t] = "trylock"
             \/ pc'[t] \in {"init_kernel", "ms_load"} /\ op[t] = "lock" /\ cur' = cur
          /\ \A u \in Threads \ {t} : pc'[u] = pc[u] /\ cur'[u] = cur[u]
      BY <2>5 DEF TrylockLoad, TrylockXchg, TrylockFails, Typed, TryPcs
    <3>2. Want(t)' = Want(t) /\ Held(t)' = Held(t)
      BY <3>1 DEF Want, Held, WaitsFor, TryPcs, SlowPcs
    <3>3. \A u \in Threads \ {t} : Want(u)' = Want(u) /\ Held(u)' = Held(u)
      BY <3>1 DEF Want, Held, WaitsFor
    <3> QED
      BY <3>2, <3>3, StutterStep
  <2>6. CASE UnlockStore(t)
    <3>1. /\ pc[t] = "holding" /\ cur[t] \in Locks /\ pc'[t] \in {"ul_check", "idle"}
          /\ \A u \in Threads \ {t} : pc'[u] = pc[u] /\ cur'[u] = cur[u]
          /\ op' = op
      BY <2>6 DEF UnlockStore, UnlockReturns, Typed, Called
    <3>2. /\ Held(t) = cur[t] /\ Held(t)' = NULL /\ Want(t)' = Want(t)
          /\ \A u \in Threads \ {t} : Want(u)' = Want(u) /\ Held(u)' = Held(u)
      BY <3>1 DEF Want, Held, WaitsFor, TryPcs, SlowPcs
    <3> QED
      BY <3>1, <3>2, ReleasedStep DEF Lock!Next
  <2>7. CASE UnlockCheckWaiters(t) \/ UnlockWake(t)
    <3>1. /\ op' = op /\ pc[t] \in UnlockPcs /\ pc'[t] \in {"ul_wake", "idle"}
          /\ \A u \in Threads \ {t} :
               cur'[u] = cur[u] /\ (pc'[u] = pc[u] \/ (pc[u] = "asleep" /\ pc'[u] = "waiters_dec"))
      BY <2>7 DEF UnlockCheckWaiters, UnlockWake, UnlockReturns, Sleepers, Typed, UnlockPcs
    <3>2. \A u \in Threads : Want(u)' = Want(u) /\ Held(u)' = Held(u)
      BY <3>1 DEF Want, Held, WaitsFor, TryPcs, SlowPcs, UnlockPcs
    <3> QED
      BY <3>2, StutterStep
  <2>8. CASE \/ InitKernelState(t) \/ WatchForUnlocked(t) \/ ScheduleWhenEqual(t)
             \/ MaybeSchedLoad(t) \/ Disarm(t) \/ Arm(t) \/ TurnFailed(t) \/ Yield(t)
             \/ WaitersInc(t) \/ FutexWait(t) \/ WaitersDec(t) \/ SpuriousWake(t)
             \/ (MaybeSchedXchg(t) /\ mem[cur[t]] = LOCKED)
    <3>1. /\ UNCHANGED <<op, cur>> /\ pc[t] \in SlowPcs /\ pc'[t] \in SlowPcs
          /\ \A u \in Threads \ {t} : pc'[u] = pc[u]
      BY <2>8
      DEF InitKernelState, WatchForUnlocked, ScheduleWhenEqual, MaybeSchedLoad, Disarm, Arm,
          MaybeSchedXchg, TurnFailed, Yield, WaitersInc, FutexWait, WaitersDec, SpuriousWake,
          Typed, SlowPcs
    <3>2. \A u \in Threads : Want(u)' = Want(u) /\ Held(u)' = Held(u)
      BY <3>1 DEF Want, Held, WaitsFor, SlowPcs
    <3> QED
      BY <3>2, StutterStep
  <2>9. CASE Drain(t)
    BY <2>9, StutterStep DEF Drain, Want, Held, WaitsFor
  <2> QED
    BY <2>1, <2>2, <2>3, <2>4, <2>5, <2>6, <2>7, <2>8, <2>9 DEF Step
<1> QED
  BY <1>1, <1>2

\* Every behaviour of lock-base.h, with as many threads and locks as one likes,
\* is a behaviour of LockSpec as long as the kernel state can be created: the
\* safety half of ImplementsLock (fairness is left to the model checker).
THEOREM RefinesLockSpec ==
  ASSUME ~CREATE_MAY_FAIL
  PROVE  Spec => Lock!Spec
<1>1. Init => Lock!Init
  BY RefineInit
<1>2. Inductive /\ [Next]_vars => [Lock!Next]_Lock!vars
  BY RefineNext DEF Inductive
<1> QED
  BY <1>1, <1>2, Invariance, PTL DEF Spec, Lock!Spec
=============================================================================
