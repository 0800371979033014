-------------------------- MODULE TicketLockProofs --------------------------
(***************************************************************************)
(* The ticket lock excludes and serves in order although its tickets wrap, *)
(* for any number of threads that is not above the number of tickets.      *)
(***************************************************************************)
EXTENDS TicketLock, Integers, FiniteSetTheorems, TLAPS

QueuePcs == {"first_load", "set_mem", "set_for", "set_neq", "wait", "disarm", "holding"}
OtherPcs == {"idle", "try_first", "try_second", "try_cas", "draw"}

\* The threads whose ticket is drawn and not yet served to the end.
Queue == {t \in Threads : pc[t] \in QueuePcs}
Length == Cardinality(Queue)

TicketTyped ==
  /\ pc \in [Threads -> QueuePcs \cup OtherPcs]
  /\ next_count \in Counts /\ cur_count \in Counts
  /\ ticket \in [Threads -> Counts]

\* The tickets out are those from cur_count up to next_count, each of them once;
\* when all are out, the two are equal as when none is.
TicketsOut ==
  /\ Length <= COUNTS
  /\ IF Length = COUNTS THEN next_count = cur_count ELSE Dist(cur_count, next_count) = Length
  /\ \A t \in Queue : Dist(cur_count, ticket[t]) < Length
  /\ \A t, u \in Queue : ticket[t] = ticket[u] => t = u

Served == \A t \in Threads : pc[t] \in {"disarm", "holding"} => ticket[t] = cur_count

\* A trylock() whose exchange can succeed still sees a free lock.
TriesFreeLock ==
  \A t \in Threads : pc[t] = "try_cas" /\ ticket[t] = next_count => ticket[t] = cur_count

TicketInv == TicketTyped /\ TicketsOut /\ Served /\ TriesFreeLock

LEMMA QueueFinite == IsFiniteSet(Queue) /\ Length \in Nat
  BY QueueLockAssumption, FS_Subset, FS_CardinalityType DEF Queue, Length

\* Not all tickets are out while somebody is outside the queue.
LEMMA RoomOutside ==
  ASSUME CountsAssumption, NEW t \in Threads, t \notin Queue
  PROVE  /\ Length + 1 <= COUNTS /\ Length < COUNTS
         /\ IsFiniteSet(Queue \cup {t}) /\ Cardinality(Queue \cup {t}) = Length + 1
<1>1. IsFiniteSet(Queue \cup {t}) /\ Cardinality(Queue \cup {t}) = Length + 1
  BY QueueFinite, FS_AddElement DEF Length
<1>2. Cardinality(Queue \cup {t}) <= Cardinality(Threads) /\ Cardinality(Threads) \in Nat
  BY QueueLockAssumption, FS_Subset, FS_CardinalityType DEF Queue
<1> QED
  BY <1>1, <1>2, QueueFinite DEF CountsAssumption

LEMMA TicketInit == ASSUME CountsAssumption, Init PROVE TicketInv
<1>1. Queue = {}
  BY DEF Init, Queue, QueuePcs
<1>2. Length = 0
  BY <1>1, FS_EmptySet DEF Length
<1>3. COUNTS \in Nat /\ COUNTS > 0
  BY DEF CountsAssumption, Init, Counts
<1>4. TicketTyped
  BY <1>3 DEF Init, TicketTyped, QueuePcs, OtherPcs, Counts
<1> QED
  BY <1>1, <1>2, <1>3, <1>4 DEF Init, TicketInv, TicketsOut, Served, TriesFreeLock, Dist, Counts

\* A step that leaves the queue and the counts alone.
LEMMA TicketApart ==
  ASSUME TicketInv, TicketTyped', Served', TriesFreeLock', Queue' = Queue,
         UNCHANGED <<next_count, cur_count>>, \A t \in Queue : ticket'[t] = ticket[t]
  PROVE  TicketInv'
<1>1. Length' = Length
  BY DEF Length
<1> QED
  BY <1>1 DEF TicketInv, TicketsOut, Dist

\* Somebody gets the next ticket.
LEMMA TicketJoins ==
  ASSUME CountsAssumption, TicketInv, NEW t \in Threads, t \notin Queue, Queue' = Queue \cup {t},
         ticket'[t] = next_count, \A u \in Queue : ticket'[u] = ticket[u],
         next_count' = Succ(next_count), cur_count' = cur_count
  PROVE  TicketsOut'
<1>1. Length' = Length + 1 /\ Length + 1 <= COUNTS /\ Length \in Nat
  BY RoomOutside, QueueFinite DEF Length
<1>2. Dist(cur_count, next_count) = Length
  BY <1>1 DEF TicketInv, TicketsOut, CountsAssumption
<1>3. IF Length' = COUNTS THEN next_count' = cur_count' ELSE Dist(cur_count', next_count') = Length'
  BY <1>1, <1>2 DEF CountsAssumption, TicketInv, TicketTyped, Counts, Dist, Succ
<1>4. \A u \in Queue : Dist(cur_count, ticket[u]) < Length /\ Dist(cur_count, ticket[u]) \in Int
  BY DEF TicketInv, TicketTyped, TicketsOut, Queue, Counts, Dist, CountsAssumption
<1>5. \A u \in Queue' : Dist(cur_count', ticket'[u]) < Length'
  BY <1>1, <1>2, <1>4
<1>6. \A u \in Queue : ticket[u] # next_count
  BY <1>1, <1>2, <1>4
<1>7. \A u, v \in Queue' : ticket'[u] = ticket'[v] => u = v
  BY <1>6 DEF TicketInv, TicketsOut
<1> QED
  BY <1>1, <1>3, <1>5, <1>7 DEF TicketsOut

\* A trylock() that gives up.
LEMMA TryFails ==
  ASSUME CountsAssumption, TicketInv, NEW t \in Threads, pc[t] \in OtherPcs,
         pc' = [pc EXCEPT ![t] = "idle"], ticket' = [ticket EXCEPT ![t] = 0],
         UNCHANGED <<next_count, cur_count>>
  PROVE  TicketInv'
<1>1. t \notin Queue /\ 0 \in Counts
  BY DEF Queue, QueuePcs, OtherPcs, TicketInv, TicketTyped, Counts, CountsAssumption
<1>2. TicketTyped'
  BY <1>1 DEF TicketInv, TicketTyped, OtherPcs
<1>3. Served' /\ TriesFreeLock'
  BY DEF TicketInv, TicketTyped, Served, TriesFreeLock
<1>4. Queue' = Queue
  BY <1>1 DEF TicketInv, TicketTyped, Queue, QueuePcs, OtherPcs
<1>5. \A u \in Queue : ticket'[u] = ticket[u]
  BY <1>1 DEF TicketInv, TicketTyped, Queue
<1> QED
  BY <1>2, <1>3, <1>4, <1>5, TicketApart

LEMMA TicketNext == ASSUME CountsAssumption, TicketInv, [Next]_vars PROVE TicketInv'
<1> USE DEF Goto
<1>1. ASSUME NEW t \in Threads, CallTrylock(t) \/ CallLock(t) PROVE TicketInv'
  <2>1. TicketTyped' /\ Served' /\ TriesFreeLock' /\ Queue' = Queue
    BY <1>1 DEF CallTrylock, CallLock, TicketInv, TicketTyped, Served, TriesFreeLock, Queue, QueuePcs, OtherPcs
  <2> QED
    BY <1>1, <2>1, TicketApart DEF CallTrylock, CallLock
<1>2. ASSUME NEW t \in Threads, TryLoadNext(t) PROVE TicketInv'
  <2>1. TicketTyped' /\ Served' /\ TriesFreeLock' /\ Queue' = Queue /\ t \notin Queue
    BY <1>2 DEF TryLoadNext, TicketInv, TicketTyped, Served, TriesFreeLock, Queue, QueuePcs, OtherPcs
  <2> QED
    BY <1>2, <2>1, TicketApart DEF TryLoadNext, TicketInv, TicketTyped, Queue
<1>3. ASSUME NEW t \in Threads, TryLoadCur(t) PROVE TicketInv'
  <2>1. CASE ticket[t] = cur_count
    <3>1. TicketTyped' /\ Served' /\ TriesFreeLock' /\ Queue' = Queue
      BY <1>3, <2>1
      DEF TryLoadCur, TicketInv, TicketTyped, Served, TriesFreeLock, Queue, QueuePcs, OtherPcs
    <3> QED
      BY <1>3, <2>1, <3>1, TicketApart DEF TryLoadCur
  <2>2. CASE ticket[t] # cur_count
    BY <1>3, <2>2, TryFails DEF TryLoadCur, Return, OtherPcs
  <2> QED
    BY <2>1, <2>2
<1>4. ASSUME NEW t \in Threads, TryCas(t) PROVE TicketInv'
  <2>0. t \notin Queue
    BY <1>4 DEF TryCas, Return, Queue, QueuePcs
  <2>1. CASE next_count = ticket[t]
    <3>1. /\ NoFullTurn(t) /\ next_count' = Succ(next_count) /\ pc' = [pc EXCEPT ![t] = "holding"]
          /\ UNCHANGED <<ticket, cur_count>> /\ pc[t] = "try_cas"
      BY <1>4, <2>1 DEF TryCas
    <3>2. Queue' = Queue \cup {t}
      BY <3>1 DEF Queue, QueuePcs, TicketInv, TicketTyped
    <3>3. TicketsOut'
      BY <2>0, <2>1, <3>1, <3>2, TicketJoins
    <3>4. TicketTyped'
      BY <3>1 DEF TicketInv, TicketTyped, QueuePcs, OtherPcs, Counts, Succ, CountsAssumption
    <3>5. Served' /\ TriesFreeLock'
      BY <2>1, <3>1 DEF TicketInv, TicketTyped, Served, TriesFreeLock, NoFullTurn
    <3> QED
      BY <3>3, <3>4, <3>5 DEF TicketInv
  <2>2. CASE next_count # ticket[t]
    BY <1>4, <2>2, TryFails DEF TryCas, Return, OtherPcs
  <2> QED
    BY <2>1, <2>2
<1>5. ASSUME NEW t \in Threads, Draw(t) PROVE TicketInv'
  <2>1. t \notin Queue /\ Queue' = Queue \cup {t}
    BY <1>5 DEF Draw, Queue, QueuePcs, TicketInv, TicketTyped
  <2>2. ticket'[t] = next_count /\ \A u \in Queue : ticket'[u] = ticket[u]
    BY <1>5, <2>1 DEF Draw, TicketInv, TicketTyped, Queue
  <2>3. TicketsOut'
    BY <1>5, <2>1, <2>2, TicketJoins DEF Draw
  <2>4. TicketTyped'
    BY <1>5 DEF Draw, TicketInv, TicketTyped, QueuePcs, OtherPcs, Counts, Succ, CountsAssumption
  <2>5. Served' /\ TriesFreeLock'
    BY <1>5 DEF Draw, TicketInv, TicketTyped, Served, TriesFreeLock, NoFullTurn
  <2> QED
    BY <2>3, <2>4, <2>5 DEF TicketInv
<1>6. ASSUME NEW t \in Threads,
             FirstLoad(t) \/ SetMem(t) \/ SetFor(t) \/ SetNeq(t) \/ Wait(t) \/ Disarm(t)
      PROVE TicketInv'
  <2>1. UNCHANGED <<next_count, cur_count, ticket>>
    BY <1>6 DEF FirstLoad, SetMem, SetFor, SetNeq, Wait, Disarm
  <2>2. \E to \in QueuePcs :
          /\ pc[t] \in QueuePcs /\ pc' = [pc EXCEPT ![t] = to]
          /\ to \in {"disarm", "holding"} => ticket[t] = cur_count
    BY <1>6 DEF FirstLoad, SetMem, SetFor, SetNeq, Wait, Disarm, QueuePcs, TicketInv, Served
  <2>3. TicketTyped' /\ Served' /\ TriesFreeLock' /\ Queue' = Queue
    BY <2>1, <2>2 DEF TicketInv, TicketTyped, Served, TriesFreeLock, Queue, QueuePcs
  <2> QED
    BY <2>1, <2>3, TicketApart
<1>7. ASSUME NEW t \in Threads, Unlock(t) PROVE TicketInv'
  <2>1. /\ pc[t] = "holding" /\ pc' = [pc EXCEPT ![t] = "idle"] /\ ticket' = [ticket EXCEPT ![t] = 0]
        /\ cur_count' = Succ(cur_count) /\ next_count' = next_count /\ ticket[t] = cur_count
    BY <1>7 DEF Unlock, Return, TicketInv, Served
  <2>2. t \in Queue /\ Queue' = Queue \ {t}
    BY <2>1 DEF Queue, QueuePcs, TicketInv, TicketTyped
  <2>3. Length' = Length - 1 /\ Length \in Nat
    BY <2>2, QueueFinite, FS_RemoveElement DEF Length
  <2>4. \A u \in Queue' : ticket[u] # cur_count /\ ticket'[u] = ticket[u] /\ ticket[u] \in Counts /\ u \in Queue
    BY <2>1, <2>2 DEF TicketInv, TicketTyped, TicketsOut, Queue
  <2>5. cur_count \in Counts /\ next_count \in Counts /\ COUNTS \in Nat
    BY DEF TicketInv, TicketTyped, CountsAssumption
  <2>6. \A u \in Queue' : Dist(cur_count', ticket'[u]) = Dist(cur_count, ticket[u]) - 1
    BY <2>1, <2>4, <2>5 DEF Dist, Succ, Counts
  <2>7. \A u \in Queue : Dist(cur_count, ticket[u]) < Length /\ Dist(cur_count, ticket[u]) \in Int
    BY <2>5 DEF TicketInv, TicketTyped, TicketsOut, Dist, Counts, Queue
  <2>8. \A u \in Queue' : Dist(cur_count', ticket'[u]) < Length'
    BY <2>3, <2>4, <2>6, <2>7
  <2>9. Length' <= COUNTS /\ Length' < COUNTS /\ Dist(cur_count', next_count') = Length'
    <3>1. Length > 0
      BY <2>2, QueueFinite, FS_EmptySet DEF Length
    <3> QED
      BY <2>1, <2>3, <2>5, <3>1 DEF TicketInv, TicketsOut, Dist, Succ, Counts
  <2>10. TicketsOut'
    BY <2>3, <2>4, <2>5, <2>8, <2>9 DEF TicketInv, TicketsOut
  <2>11. TicketTyped'
    BY <2>1, <2>5 DEF TicketInv, TicketTyped, QueuePcs, OtherPcs, Counts, Succ
  <2>12. Served'
    BY <2>1, <2>4 DEF TicketInv, TicketTyped, TicketsOut, Served, Queue, QueuePcs
  <2>13. TriesFreeLock'
    <3>1. SUFFICES ASSUME NEW u \in Threads, pc'[u] = "try_cas", ticket'[u] = next_count' PROVE FALSE
      BY DEF TriesFreeLock
    <3>2. u # t /\ pc[u] = "try_cas" /\ ticket[u] = next_count
      BY <2>1, <3>1 DEF TicketInv, TicketTyped
    <3>3. next_count = cur_count
      BY <3>2 DEF TicketInv, TriesFreeLock
    <3>4. u \notin Queue
      BY <3>2 DEF Queue, QueuePcs
    <3>5. Length < COUNTS
      BY <3>4, RoomOutside
    <3>6. Length = 0
      BY <2>5, <3>3, <3>5 DEF TicketInv, TicketsOut, Dist, Counts
    <3> QED
      BY <2>2, <3>6, QueueFinite, FS_EmptySet DEF Length
  <2> QED
    BY <2>10, <2>11, <2>12, <2>13 DEF TicketInv
<1>8. CASE UNCHANGED vars
  <2>1. TicketTyped' /\ Served' /\ TriesFreeLock' /\ Queue' = Queue
    BY <1>8 DEF vars, TicketInv, TicketTyped, Served, TriesFreeLock, Queue
  <2> QED
    BY <1>8, <2>1, TicketApart DEF vars
<1> QED
  BY <1>1, <1>2, <1>3, <1>4, <1>5, <1>6, <1>7, <1>8 DEF Next, Step

LEMMA TicketInvariant == ASSUME CountsAssumption PROVE Spec => []TicketInv
  BY TicketInit, TicketNext, PTL DEF Spec

LEMMA InvExcludes == TicketInv => MutualExclusion
  BY DEF TicketInv, TicketTyped, TicketsOut, Served, MutualExclusion, Owns, Holds, OwnerUnlockPcs,
         Queue, QueuePcs, OtherPcs

\* No two threads own the lock: a ticket is out once, though next_count may have
\* gone round to cur_count, and a trylock() only takes a lock that is free.
THEOREM TicketMutualExclusion == ASSUME CountsAssumption PROVE Spec => []MutualExclusion
  BY InvExcludes, TicketInvariant, PTL

\* Who takes the lock, by lock() or trylock(), leaves nobody waiting whose ticket
\* was drawn before.
NobodyOvertaken ==
  \A u \in Threads : ~Holds(u) /\ Holds(u)' => \A t \in Threads \ {u} : InLine(t) => Before(u, t)

\* The lock serves in the order of the tickets, wrapped or not.
THEOREM TicketsInOrder == ASSUME CountsAssumption PROVE Spec => [][NobodyOvertaken]_vars
<1>1. ASSUME TicketInv, [Next]_vars, ~UNCHANGED vars PROVE NobodyOvertaken
  <2> SUFFICES ASSUME NEW u \in Threads, ~Holds(u), Holds(u)', NEW t \in Threads \ {u}, InLine(t)
               PROVE Before(u, t)
    BY DEF NobodyOvertaken
  <2>1. pc \in [Threads -> QueuePcs \cup OtherPcs] /\ cur_count \in Counts /\ COUNTS \in Nat
    BY <1>1 DEF TicketInv, TicketTyped, CountsAssumption
  <2>2. t \in Queue
    BY <2>1 DEF InLine, Waits, TryPcs, Queue, QueuePcs, OtherPcs
  <2>3. CASE TryCas(u)
    <3>1. pc[u] = "try_cas" /\ ticket[u] = next_count
      BY <2>1, <2>3 DEF TryCas, Return, Goto, Holds
    <3>2. next_count = cur_count /\ u \notin Queue
      BY <1>1, <3>1 DEF TicketInv, TriesFreeLock, Queue, QueuePcs
    <3>3. Length < COUNTS
      BY <3>2, RoomOutside
    <3>4. Length = 0
      BY <1>1, <2>1, <3>2, <3>3 DEF TicketInv, TicketsOut, Dist, Counts
    <3> QED
      BY <2>2, <3>4, QueueFinite, FS_EmptySet DEF Length
  <2>4. CASE FirstLoad(u) \/ Disarm(u)
    <3>1. pc[u] \in {"first_load", "disarm"} /\ ticket[u] = cur_count
      BY <1>1, <2>1, <2>4 DEF FirstLoad, Disarm, Goto, Holds, TicketInv, Served
    <3>2. u \in Queue /\ InLine(u)
      BY <3>1 DEF Queue, QueuePcs, InLine, Waits, TryPcs, OwnerUnlockPcs, LateUnlockPcs
    <3>3. ticket[t] # cur_count /\ ticket[t] \in Counts
      BY <1>1, <2>2, <3>1, <3>2 DEF TicketInv, TicketTyped, TicketsOut, Queue
    <3>4. Dist(cur_count, ticket[u]) < Dist(cur_count, ticket[t])
      BY <2>1, <3>1, <3>3 DEF Dist, Counts
    <3> QED
      BY <3>2, <3>4 DEF Before
  <2>5. TryCas(u) \/ FirstLoad(u) \/ Disarm(u)
    BY <1>1, <2>1 DEF Next, Step, Goto, Return, Holds, CallTrylock, CallLock, TryLoadNext, TryLoadCur, TryCas,
       Draw, FirstLoad, SetMem, SetFor, SetNeq, Wait, Disarm, Unlock
  <2> QED
    BY <2>3, <2>4, <2>5
<1> QED
  BY <1>1, TicketInvariant, PTL DEF Spec

-----------------------------------------------------------------------------
\* The page of a waiting thread watches for its ticket; outside the wait it is
\* not armed.
PageInv ==
  /\ page \in [Threads -> [watch_mem : {"cur_count", NULL}, watch_for : Counts, watch_neq : {0}]]
  /\ \A t \in Threads :
       /\ page[t].watch_mem # NULL => pc[t] \in {"set_for", "set_neq", "wait", "disarm"}
       /\ pc[t] \in {"set_neq", "wait", "disarm"} => page[t].watch_for = ticket[t]

\* A step of t that keeps its page.
LEMMA PageKept ==
  ASSUME TicketTyped, PageInv, NEW t \in Threads, UNCHANGED page,
         \A u \in Threads \ {t} : pc'[u] = pc[u] /\ ticket'[u] = ticket[u],
         \/ pc[t] \in OtherPcs \cup {"first_load", "holding"} /\ pc'[t] \notin {"set_neq", "wait", "disarm"}
         \/ pc[t] = "wait" /\ pc'[t] \in {"wait", "disarm"} /\ ticket'[t] = ticket[t]
  PROVE  PageInv'
  BY DEF PageInv, OtherPcs

LEMMA PageNext == ASSUME CountsAssumption, TicketInv, PageInv, [Next]_vars PROVE PageInv'
<1>1. TicketTyped
  BY DEF TicketInv
<1> USE DEF Goto
<1>2. ASSUME NEW t \in Threads,
             CallTrylock(t) \/ CallLock(t) \/ TryLoadNext(t) \/ Draw(t) \/ FirstLoad(t) \/ Wait(t)
      PROVE PageInv'
  <2>1. /\ UNCHANGED page
        /\ \A u \in Threads \ {t} : pc'[u] = pc[u] /\ ticket'[u] = ticket[u]
    BY <1>1, <1>2 DEF CallTrylock, CallLock, TryLoadNext, Draw, FirstLoad, Wait, TicketTyped
  <2>2. \/ pc[t] \in OtherPcs \cup {"first_load", "holding"} /\ pc'[t] \notin {"set_neq", "wait", "disarm"}
        \/ pc[t] = "wait" /\ pc'[t] \in {"wait", "disarm"} /\ ticket'[t] = ticket[t]
    BY <1>1, <1>2 DEF CallTrylock, CallLock, TryLoadNext, Draw, FirstLoad, Wait, TicketTyped, OtherPcs
  <2> QED
    BY <1>1, <2>1, <2>2, PageKept
<1>3. ASSUME NEW t \in Threads, TryLoadCur(t) \/ TryCas(t) \/ Unlock(t) PROVE PageInv'
  <2>1. /\ UNCHANGED page
        /\ \A u \in Threads \ {t} : pc'[u] = pc[u] /\ ticket'[u] = ticket[u]
    BY <1>1, <1>3 DEF TryLoadCur, TryCas, Unlock, Return, TicketTyped
  <2>2. pc[t] \in OtherPcs \cup {"first_load", "holding"} /\ pc'[t] \notin {"set_neq", "wait", "disarm"}
    BY <1>1, <1>3 DEF TryLoadCur, TryCas, Unlock, Return, TicketTyped, OtherPcs
  <2> QED
    BY <1>1, <2>1, <2>2, PageKept
<1>4. ASSUME NEW t \in Threads, SetMem(t) PROVE PageInv'
  BY <1>1, <1>4 DEF SetMem, PageInv, TicketTyped, Kernel!SetWatchMem
<1>5. ASSUME NEW t \in Threads, SetFor(t) PROVE PageInv'
  BY <1>1, <1>5 DEF SetFor, PageInv, TicketTyped, Kernel!SetWatchFor
<1>6. ASSUME NEW t \in Threads, SetNeq(t) PROVE PageInv'
  BY <1>1, <1>6 DEF SetNeq, PageInv, TicketTyped, Kernel!SetWatchNeq
<1>7. ASSUME NEW t \in Threads, Disarm(t) PROVE PageInv'
  BY <1>1, <1>7 DEF Disarm, PageInv, TicketTyped, Kernel!SetWatchMem
<1>8. CASE UNCHANGED vars
  BY <1>8 DEF vars, PageInv
<1> QED
  BY <1>2, <1>3, <1>4, <1>5, <1>6, <1>7, <1>8 DEF Next, Step

\* Whom the scheduler holds back waits for a ticket that is not shown yet, unless
\* watch_for has still to be stored.
HeldBackBeforeTurn == \A t \in Threads : ~Runnable(t) => Waits(t) /\ (ItsTurn(t) => HalfArmed(t))

\* Wherever a thread is switched out, the stores to its page included, it is held
\* back at its turn nowhere but between the stores to watch_mem and watch_for.
THEOREM HeldBackBeforeTurnHolds == ASSUME CountsAssumption PROVE Spec => []HeldBackBeforeTurn
<1>1. Init => PageInv
  BY DEF Init, PageInv, Kernel!ZeroPage, CountsAssumption, Counts
<1>2. TicketInv /\ PageInv => HeldBackBeforeTurn
  BY DEF TicketInv, TicketTyped, Served, PageInv, HeldBackBeforeTurn, Runnable, HalfArmed, Waits, TryPcs,
         OwnerUnlockPcs, LateUnlockPcs, ItsTurn, Mem, Kernel!DontSched, Kernel!IsArmed, Kernel!CheckMem
<1> QED
  BY <1>1, <1>2, TicketInvariant, PageNext, PTL DEF Spec

-----------------------------------------------------------------------------
WaitPcs == {"draw", "first_load", "set_mem", "set_for", "set_neq", "wait", "disarm"}

\* A step of t is one of the abstract lock, or none, by where it leads from where.
LEMMA AbstractStep ==
  ASSUME NULL # "lock", TicketTyped, TicketTyped', MutualExclusion', NEW t \in Threads,
         NEW to \in QueuePcs \cup OtherPcs, pc' = [pc EXCEPT ![t] = to],
         \/ pc[t] \notin WaitPcs \cup {"holding"}
         \/ pc[t] \in WaitPcs /\ to \in WaitPcs \cup {"holding"}
         \/ pc[t] = "holding" /\ to = "idle"
  PROVE  [Lock!Next]_Lock!vars
<1>1. \A u \in Threads : /\ (Waits(u) <=> pc[u] \in WaitPcs) /\ (Holds(u) <=> pc[u] = "holding")
                         /\ (Waits(u)' <=> pc'[u] \in WaitPcs) /\ (Holds(u)' <=> pc'[u] = "holding")
  BY DEF TicketTyped, QueuePcs, OtherPcs, WaitPcs, Waits, TryPcs, OwnerUnlockPcs, LateUnlockPcs, Holds
<1>2. /\ pc'[t] = to
      /\ \A u \in Threads \ {t} : Waits(u)' = Waits(u) /\ Holds(u)' = Holds(u)
  BY DEF TicketTyped, Waits, Holds
<1>3. CASE to \in WaitPcs /\ pc[t] \notin WaitPcs
  <2>1. ~Waits(t) /\ ~Holds(t) /\ Waits(t)' /\ ~Holds(t)'
    BY <1>1, <1>2, <1>3 DEF WaitPcs
  <2>2. Lock!Request(t, "lock")
    BY <1>2, <2>1 DEF Lock!Request
  <2> QED
    BY <2>2 DEF Lock!Next
<1>4. CASE to = "holding"
  <2>1. ~Holds(t) /\ ~Waits(t)' /\ Holds(t)'
    BY <1>1, <1>2, <1>4 DEF WaitPcs
  <2>2. \A u \in Threads : ~Holds(u)
    BY <1>2, <2>1 DEF MutualExclusion, Owns
  <2>3. CASE Waits(t)
    <3>1. Lock!Acquire(t, "lock")
      BY <1>2, <2>1, <2>2, <2>3 DEF Lock!Acquire, Lock!Unowned
    <3> QED
      BY <3>1 DEF Lock!Next
  <2>4. CASE ~Waits(t)
    <3>1. Lock!TryAcquire(t, "lock")
      BY <1>2, <2>1, <2>2, <2>4 DEF Lock!TryAcquire, Lock!Unowned
    <3> QED
      BY <3>1 DEF Lock!Next
  <2> QED
    BY <2>3, <2>4
<1>5. CASE pc[t] = "holding"
  <2>1. Holds(t) /\ ~Waits(t) /\ ~Holds(t)' /\ ~Waits(t)'
    BY <1>1, <1>2, <1>5 DEF WaitPcs
  <2>2. Lock!Release(t, "lock")
    BY <1>2, <2>1 DEF Lock!Release
  <2> QED
    BY <2>2 DEF Lock!Next
<1>6. CASE Waits(t)' = Waits(t) /\ Holds(t)' = Holds(t)
  BY <1>2, <1>6 DEF Lock!vars
<1>7. \/ to \in WaitPcs /\ pc[t] \notin WaitPcs
      \/ to = "holding" \/ pc[t] = "holding"
      \/ Waits(t)' = Waits(t) /\ Holds(t)' = Holds(t)
  <2>1. (Waits(t) <=> pc[t] \in WaitPcs) /\ (Holds(t) <=> pc[t] = "holding")
    BY <1>1
  <2>2. (Waits(t)' <=> to \in WaitPcs) /\ (Holds(t)' <=> to = "holding")
    BY <1>1, <1>2
  <2>3. Waits(t) \in BOOLEAN /\ Waits(t)' \in BOOLEAN /\ Holds(t) \in BOOLEAN /\ Holds(t)' \in BOOLEAN
    BY DEF Waits, Holds
  <2> QED
    BY <2>1, <2>2, <2>3 DEF WaitPcs
<1> QED
  BY <1>3, <1>4, <1>5, <1>6, <1>7

\* The ticket lock is a lock: every access is an atomic operation of LockSpec or
\* none.  A call waits from its entry on and owns the lock when it leaves the loop.
THEOREM TicketRefinesLockSpec ==
  ASSUME CountsAssumption, NULL # "lock" PROVE Spec => Lock!Spec
<1>1. Init => Lock!Init
  BY DEF Init, Lock!Init, Waits, Holds
<1>2. TicketInv => MutualExclusion
  BY InvExcludes
<1>3. ASSUME TicketInv, TicketInv', MutualExclusion', [Next]_vars PROVE [Lock!Next]_Lock!vars
  <2>1. TicketTyped /\ TicketTyped'
    BY <1>3 DEF TicketInv
  <2>2. ASSUME NEW t \in Threads, CallTrylock(t) \/ CallLock(t) \/ Step(t)
        PROVE \E to \in QueuePcs \cup OtherPcs :
                /\ pc' = [pc EXCEPT ![t] = to]
                /\ \/ pc[t] \notin WaitPcs \cup {"holding"}
                   \/ pc[t] \in WaitPcs /\ to \in WaitPcs \cup {"holding"}
                   \/ pc[t] = "holding" /\ to = "idle"
    <3>1. CASE CallTrylock(t) \/ CallLock(t) \/ TryLoadNext(t) \/ TryLoadCur(t) \/ TryCas(t)
      BY <3>1 DEF CallTrylock, CallLock, TryLoadNext, TryLoadCur, TryCas, Goto, Return, WaitPcs, QueuePcs, OtherPcs
    <3>2. CASE Draw(t) \/ FirstLoad(t) \/ SetMem(t) \/ SetFor(t) \/ SetNeq(t) \/ Wait(t) \/ Disarm(t)
      BY <3>2 DEF Draw, FirstLoad, SetMem, SetFor, SetNeq, Wait, Disarm, Goto, WaitPcs, QueuePcs, OtherPcs
    <3>3. CASE Unlock(t)
      BY <3>3 DEF Unlock, Goto, Return, QueuePcs, OtherPcs
    <3> QED
      BY <2>2, <3>1, <3>2, <3>3 DEF Step
  <2>3. CASE UNCHANGED vars
    BY <2>3 DEF vars, Lock!vars, Waits, Holds
  <2> QED
    BY <1>3, <2>1, <2>2, <2>3, AbstractStep DEF Next
<1> QED
  BY <1>1, <1>2, <1>3, TicketInvariant, PTL DEF Spec, Lock!Spec
=============================================================================
