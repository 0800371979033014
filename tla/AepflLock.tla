----------------------------- MODULE AepflLock -----------------------------
(***************************************************************************)
(* aepfl-lock-base.h: an array of flags, one slot per waiting thread.      *)
(* lock() takes the slot tail % MAX_THREADS and waits for its flag,        *)
(* unlock() resets the flag of slot head and sets the next one.            *)
(*                                                                         *)
(* TRYLOCKS tells whether callers use trylock(), which the benchmark never *)
(* calls.  COUNTS stands for 2^32, a multiple of MAX_THREADS.              *)
(***************************************************************************)
EXTENDS QueueLock

CONSTANTS MAX_THREADS, COUNTS, TRYLOCKS

SlotsAssumption ==
  /\ MAX_THREADS \in Nat \ {0} /\ COUNTS \in Nat \ {0} /\ COUNTS % MAX_THREADS = 0
  /\ TRYLOCKS \in BOOLEAN

UNLOCKED == 1
LOCKED == 0
Slots == 0 .. MAX_THREADS - 1

VARIABLES
  tail, head, flags,
  slot  \* slot of lock() and unlock(), cur_tail of trylock()

vars == <<page, pc, tail, head, flags, slot>>

Kernel == INSTANCE AutolockPage WITH Words <- Slots, Values <- {LOCKED, UNLOCKED}

TypeOK ==
  /\ page \in [Threads -> Kernel!Page]
  /\ pc \in [Threads -> {"idle", "try_second", "try_cas", "take", "first_load", "set_mem", "set_for", "set_neq",
                         "wait", "disarm", "holding", "ul_own", "ul_next"}]
  /\ tail \in 0 .. COUNTS - 1 /\ head \in 0 .. COUNTS - 1
  /\ flags \in [Slots -> {LOCKED, UNLOCKED}]
  /\ slot \in [Threads -> 0 .. COUNTS - 1]

Init ==
  /\ page = [t \in Threads |-> Kernel!ZeroPage]
  /\ pc = [t \in Threads |-> "idle"]
  /\ tail = 0 /\ head = 0
  /\ flags = [s \in Slots |-> IF s = 0 THEN UNLOCKED ELSE LOCKED]
  /\ slot = [t \in Threads |-> 0]

-----------------------------------------------------------------------------
Inc(n) == (n + 1) % COUNTS
NextSlot(s) == (s + 1) % MAX_THREADS

CallLock(t) == Goto(t, "idle", "take") /\ UNCHANGED <<page, tail, head, flags, slot>>

\* trylock() loads the tail, then the tail again where it means the head.
TryLoadTail(t) ==
  /\ TRYLOCKS /\ Goto(t, "idle", "try_second")
  /\ slot' = [slot EXCEPT ![t] = tail]
  /\ UNCHANGED <<page, tail, head, flags>>

TryLoadHead(t) ==
  /\ Goto(t, "try_second", IF tail = slot[t] THEN "try_cas" ELSE "idle")
  /\ UNCHANGED <<page, tail, head, flags, slot>>

TryCas(t) ==
  /\ Goto(t, "try_cas", IF tail = slot[t] THEN "holding" ELSE "idle")
  /\ tail' = IF tail = slot[t] THEN Inc(tail) ELSE tail
  /\ UNCHANGED <<page, head, flags, slot>>

\* Mutant: the slot is read before the tail is advanced, so two threads share it.
TakeNotAtomic(t) ==
  /\ Goto(t, "take", "first_load")
  /\ slot' = [slot EXCEPT ![t] = tail % MAX_THREADS]
  /\ tail' \in {tail, Inc(tail)}
  /\ UNCHANGED <<page, head, flags>>

TakeSlot(t) ==
  /\ Goto(t, "take", "first_load")
  /\ slot' = [slot EXCEPT ![t] = tail % MAX_THREADS]
  /\ tail' = Inc(tail)
  /\ UNCHANGED <<page, head, flags>>

FirstLoad(t) ==
  /\ Goto(t, "first_load", IF flags[slot[t]] = LOCKED THEN "set_mem" ELSE "holding")
  /\ UNCHANGED <<page, tail, head, flags, slot>>

\* The page is armed before watch_for is set.
SetMem(t) ==
  /\ Goto(t, "set_mem", "set_for")
  /\ page' = [page EXCEPT ![t] = Kernel!SetWatchMem(@, slot[t])]
  /\ UNCHANGED <<tail, head, flags, slot>>

SetFor(t) ==
  /\ Goto(t, "set_for", "set_neq")
  /\ page' = [page EXCEPT ![t] = Kernel!SetWatchFor(@, UNLOCKED)]
  /\ UNCHANGED <<tail, head, flags, slot>>

SetNeq(t) ==
  /\ Goto(t, "set_neq", "wait")
  /\ page' = [page EXCEPT ![t] = Kernel!SetWatchNeq(@, 0)]
  /\ UNCHANGED <<tail, head, flags, slot>>

\* The distance to the head only chooses between pausing and yielding.
Wait(t) ==
  /\ Goto(t, "wait", IF flags[slot[t]] # LOCKED THEN "disarm" ELSE "wait")
  /\ UNCHANGED <<page, tail, head, flags, slot>>

Disarm(t) ==
  /\ Goto(t, "disarm", "holding")
  /\ page' = [page EXCEPT ![t] = Kernel!SetWatchMem(@, NULL)]
  /\ UNCHANGED <<tail, head, flags, slot>>

UnlockTakeHead(t) ==
  /\ Goto(t, "holding", "ul_own")
  /\ slot' = [slot EXCEPT ![t] = head % MAX_THREADS]
  /\ head' = Inc(head)
  /\ UNCHANGED <<page, tail, flags>>

\* Mutant: the owner's flag stays set for the next thread that gets the slot.
UnlockOwnFlagStays(t) ==
  /\ Goto(t, "ul_own", "ul_next")
  /\ UNCHANGED <<page, tail, head, flags, slot>>

UnlockOwnFlag(t) ==
  /\ Goto(t, "ul_own", "ul_next")
  /\ flags' = [flags EXCEPT ![slot[t]] = LOCKED]
  /\ UNCHANGED <<page, tail, head, slot>>

UnlockNextFlag(t) ==
  /\ Goto(t, "ul_next", "idle")
  /\ flags' = [flags EXCEPT ![NextSlot(slot[t])] = UNLOCKED]
  /\ slot' = [slot EXCEPT ![t] = 0]
  /\ UNCHANGED <<page, tail, head>>

Step(t) ==
  \/ TryLoadHead(t) \/ TryCas(t)
  \/ TakeSlot(t) \/ FirstLoad(t)
  \/ SetMem(t) \/ SetFor(t) \/ SetNeq(t)
  \/ Wait(t) \/ Disarm(t)
  \/ UnlockTakeHead(t) \/ UnlockOwnFlag(t) \/ UnlockNextFlag(t)

Next == \E t \in Threads : CallLock(t) \/ TryLoadTail(t) \/ Step(t)

Spec == Init /\ [][Next]_vars

Runnable(t) == ~Kernel!DontSched(page[t], flags)

FairSpec == Spec /\ \A t \in Threads : WF_vars(Runnable(t) /\ Step(t))

-----------------------------------------------------------------------------
InLine(t) == Waits(t) /\ pc[t] # "take"

\* How many slots the slot of t is behind the head.
Distance(t) == ((slot[t] + COUNTS) - head) % MAX_THREADS

\* Before(t, u): t took its slot before u.
Before(t, u) == InLine(t) /\ InLine(u) /\ Distance(t) < Distance(u)

\* watch_mem names the flag, watch_for is zero in a page that waits for the first time.
HalfArmed(t) == pc[t] = "set_for"

ItsTurn(t) == InLine(t) /\ flags[slot[t]] = UNLOCKED

\* At most one flag is set, and it is set unless unlock() is between its two
\* stores: the lock is never handed to two slots, and never lost.
OneFlagSet ==
  LET set == {s \in Slots : flags[s] = UNLOCKED}
  IN  IF \E t \in Threads : pc[t] = "ul_next" THEN set = {} ELSE \E s \in Slots : set = {s}
=============================================================================
