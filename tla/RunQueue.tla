------------------------------ MODULE RunQueue ------------------------------
(***************************************************************************)
(* One CFS run queue with the patched pick_next_entity() (SCHED_VERSION 6  *)
(* of patch 12), and the tasks on it, which use one autolock.  The rest of *)
(* CFS is the kernel's own and modelled from how pick_next_entity() sees   *)
(* it: a tree ordered by vruntime without the running task, three buddies, *)
(* a running task that is charged at every tick.                           *)
(*                                                                         *)
(* Only differences of vruntimes matter, so they are relative to the least *)
(* one, and a difference of MAX_LAG stands for every larger one.  All      *)
(* tasks have the same weight and are in one group.                        *)
(***************************************************************************)
EXTENDS Integers, Sequences, FiniteSets, SequencesExt

CONSTANTS
  Tasks, NULL,
  GRAN,     \* wakeup_gran()
  MAX_LAG,  \* the greatest difference of vruntimes told apart
  BUDDIES   \* yield_to(), or a wakeup among eight tasks, sets next and last

ASSUME RunQueueAssumption ==
  /\ NULL \notin Tasks
  /\ GRAN \in Nat /\ MAX_LAG \in Nat /\ GRAN < MAX_LAG
  /\ BUDDIES \in BOOLEAN

VARIABLES
  tree,     \* the entities of cfs_rq by vruntime, without the running one
  curr,     \* the running task
  vruntime,
  skip, next, last,
  resched,  \* TIF_NEED_RESCHED
  doing     \* work, wait for the lock, or hold it

vars == <<tree, curr, vruntime, skip, next, last, resched, doing>>
buddies == <<skip, next, last>>
queue == <<tree, curr, vruntime, buddies, resched>>

InTree == {tree[i] : i \in DOMAIN tree}
Queued == InTree \cup ({curr} \ {NULL})

TypeOK ==
  /\ vruntime \in [Tasks -> 0..MAX_LAG]
  /\ doing \in [Tasks -> {"work", "wait", "hold"}]
  /\ curr \in Tasks \cup {NULL} /\ resched \in BOOLEAN
  /\ {skip, next, last} \subseteq Queued \cup {NULL}
  /\ tree \in Seq(Tasks) /\ curr \notin InTree
  /\ \A i, j \in DOMAIN tree :
       i < j => tree[i] # tree[j] /\ vruntime[tree[i]] <= vruntime[tree[j]]

Init ==
  /\ curr = NULL /\ tree = <<>>
  /\ vruntime = [t \in Tasks |-> 0]
  /\ skip = NULL /\ next = NULL /\ last = NULL
  /\ resched = FALSE
  /\ doing = [t \in Tasks |-> "work"]

-----------------------------------------------------------------------------
Free == \A t \in Tasks : doing[t] # "hold"

\* auto_lock_dont_sched(): the task waits, and the word is locked.
DontSched(t) == doing[t] = "wait" /\ ~Free

\* entity_before(a, b), and wakeup_preempt_entity(a, b) < 1
Before(a, b) == vruntime[a] < vruntime[b]
NotTooUnfair(a, b) == vruntime[a] - vruntime[b] <= GRAN

First(s) == IF s = <<>> THEN NULL ELSE s[1]

\* The leftmost entity, or the running one if that is left of it.
Left(s, c) == IF s = <<>> \/ (c # NULL /\ Before(c, s[1])) THEN c ELSE s[1]

\* Mutant: dont_sched_se is set for the skip buddy as well.
HeldOrSkipped(l) == skip = l \/ DontSched(l)

\* dont_sched_se: it is not asked for the skip buddy.
Held(l) == skip # l /\ DontSched(l)

\* What the scan behind the leftmost task looks for.
Others(s) == {i \in 2..Len(s) : ~DontSched(s[i])}

\* Mutant: a buddy runs however far ahead it is.
AnyBuddy(se, l) == IF next # NULL THEN next ELSE IF last # NULL THEN last ELSE se

Buddy(se, l) ==
  IF next # NULL /\ NotTooUnfair(next, l) THEN next
  ELSE IF last # NULL /\ NotTooUnfair(last, l) THEN last
  ELSE se

\* Mutant: second may be curr when nothing runs, and is taken all the same.
PickWithoutSecond(s, c) ==
  LET l == Left(s, c)
      behind == IF l = c THEN First(s) ELSE First(Tail(s))
      useCurr == l # c /\ (behind = NULL \/ (c # NULL /\ Before(c, behind)))
  IN  IF skip = l \/ Held(l) THEN IF useCurr THEN c ELSE behind ELSE Buddy(l, l)

\* pick_next_entity(cfs_rq, curr) for the tree s and the running task c, which is
\* NULL when it blocked.  The scan returns at once, without regard to fairness and
\* buddies; it does not happen when the leftmost task is the running one, nor when
\* the running one comes before the second.
Pick(s, c) ==
  LET l == Left(s, c)
      behind == IF l = c THEN First(s) ELSE First(Tail(s))
      useCurr == l # c /\ (behind = NULL \/ (c # NULL /\ Before(c, behind)))
      second == IF useCurr THEN c ELSE behind
  IN  IF Held(l) /\ l # c /\ ~useCurr /\ Others(s) # {}
      THEN s[CHOOSE i \in Others(s) : \A j \in Others(s) : i <= j]
      ELSE IF (skip = l \/ Held(l)) /\ second # NULL /\ NotTooUnfair(second, l)
      THEN Buddy(second, l)
      ELSE Buddy(l, l)

-----------------------------------------------------------------------------
\* __enqueue_entity(): behind the entities of the same vruntime.
Insert(s, t, v) == InsertAt(s, Cardinality({i \in DOMAIN s : v[s[i]] <= v[t]}) + 1, t)

\* __dequeue_entity()
Without(s, t) == IF t \in Range(s) THEN RemoveAt(s, CHOOSE i \in DOMAIN s : s[i] = t) ELSE s

\* Relative to the least vruntime of the queued tasks, min_vruntime; place_entity()
\* will not let a task that blocked come back with less.
Normalized(v) ==
  LET least == CHOOSE m \in {v[t] : t \in Queued} : \A t \in Queued : m <= v[t]
  IN  [t \in Tasks |-> IF v[t] >= least THEN v[t] - least ELSE 0]

\* clear_buddies(cfs_rq, t)
ClearBuddies(t) ==
  /\ skip' = IF skip = t THEN NULL ELSE skip
  /\ next' = IF next = t THEN NULL ELSE next
  /\ last' = IF last = t THEN NULL ELSE last

\* schedule(): the picked task leaves the tree and is no buddy any more, and the
\* one that ran goes back into the tree.
Schedule ==
  /\ resched /\ Queued # {}
  /\ LET p == Pick(tree, curr)
         rest == Without(tree, p)
     IN  /\ curr' = p
         /\ tree' = IF curr \notin {NULL, p} THEN Insert(rest, curr, vruntime) ELSE rest
         /\ ClearBuddies(p)
  /\ vruntime' = Normalized(vruntime)
  /\ resched' = FALSE
  /\ UNCHANGED doing

\* Nothing is queued: the idle task runs.
Idle ==
  /\ resched /\ Queued = {}
  /\ resched' = FALSE
  /\ UNCHANGED <<tree, curr, vruntime, buddies, doing>>

Runs(t) == curr = t /\ ~resched

\* update_curr() charges the slice, and the next task is picked.
Tick(t) ==
  /\ Runs(t)
  /\ vruntime' = [vruntime EXCEPT ![t] = IF @ < MAX_LAG THEN @ + 1 ELSE @]
  /\ resched' = TRUE
  /\ UNCHANGED <<tree, curr, buddies, doing>>

\* sched_yield(): yield_task_fair() makes the caller the skip buddy.
Yield(t) ==
  /\ Runs(t) /\ tree # <<>>
  /\ skip' = t
  /\ next' = IF next = t THEN NULL ELSE next
  /\ last' = IF last = t THEN NULL ELSE last
  /\ resched' = TRUE
  /\ UNCHANGED <<tree, curr, vruntime, doing>>

\* yield_to(): the caller yields in favour of another task.
YieldTo(t, u) ==
  /\ BUDDIES /\ Runs(t) /\ u \in InTree
  /\ next' = u /\ skip' = t
  /\ last' = IF last = t THEN NULL ELSE last
  /\ resched' = TRUE
  /\ UNCHANGED <<tree, curr, vruntime, doing>>

\* The running task blocks, in futex_wait() or for something else.
Block(t) ==
  /\ Runs(t)
  /\ curr' = NULL /\ resched' = TRUE
  /\ ClearBuddies(t)
  /\ UNCHANGED <<tree, vruntime, doing>>

\* enqueue_task_fair() and check_preempt_wakeup(): the running task loses the
\* processor if keeping it is unfair to the task that wakes up.
Wake(t) ==
  /\ ~resched /\ t \notin Queued
  /\ tree' = Insert(tree, t, vruntime)
  /\ resched' = (curr = NULL \/ ~NotTooUnfair(curr, t))
  /\ \/ UNCHANGED last
     \/ BUDDIES /\ curr # NULL /\ resched' /\ last' = curr
  /\ UNCHANGED <<curr, vruntime, skip, next, doing>>

-----------------------------------------------------------------------------
\* The running task works, takes the lock, begins to wait for it, or releases it.
Acquire(t) ==
  /\ Runs(t) /\ doing[t] # "hold" /\ Free
  /\ doing' = [doing EXCEPT ![t] = "hold"]
  /\ UNCHANGED queue

Wait(t) ==
  /\ Runs(t) /\ doing[t] = "work" /\ ~Free
  /\ doing' = [doing EXCEPT ![t] = "wait"]
  /\ UNCHANGED queue

Unlock(t) ==
  /\ Runs(t) /\ doing[t] = "hold"
  /\ doing' = [doing EXCEPT ![t] = "work"]
  /\ UNCHANGED queue

Next ==
  \/ Schedule \/ Idle
  \/ \E t \in Tasks :
       \/ Tick(t) \/ Yield(t) \/ Block(t) \/ Wake(t)
       \/ Acquire(t) \/ Wait(t) \/ Unlock(t)
  \/ \E t, u \in Tasks : YieldTo(t, u)

Spec == Init /\ [][Next]_vars

\* Time passes, and is charged to whoever runs, however short the runs are; a
\* pending reschedule happens.
FairSpec == Spec /\ SF_vars(\E t \in Tasks : Tick(t)) /\ WF_vars(Schedule)

-----------------------------------------------------------------------------
\* Of a queue that is not empty a queued task is picked: second, the buddies and
\* the end of the scan never make it NULL or a task that is gone.
PicksQueuedTask == Queued # {} => Pick(tree, curr) \in Queued

\* What pick_next_entity() was before the patches.
StockPick(s, c) ==
  LET l == Left(s, c)
      behind == IF l = c THEN First(s) ELSE First(Tail(s))
      second == IF l # c /\ (behind = NULL \/ (c # NULL /\ Before(c, behind)))
                THEN c ELSE behind
  IN  IF skip = l /\ second # NULL /\ NotTooUnfair(second, l)
      THEN Buddy(second, l) ELSE Buddy(l, l)

\* Programs without autolocks are scheduled as before: the patch changes the pick
\* only if the task CFS wants to run is held back and no skip buddy.
StockUnlessHeldBack ==
  LET l == Left(tree, curr)
  IN  Queued # {} /\ (skip = l \/ ~DontSched(l)) => Pick(tree, curr) = StockPick(tree, curr)

\* "Avoid running the skip buddy, if running something else can be done without
\* getting too unfair": whoever goes first is within the granularity.
PassesOverFairly ==
  Queued # {} => NotTooUnfair(Pick(tree, curr), Left(tree, curr))

\* The lock holder runs: whatever is held back, yields or is preferred, a holder
\* that is queued gets the processor, so waiting tasks cannot keep it from
\* releasing the lock.
HolderRuns ==
  \A t \in Tasks : (t \in Queued /\ doing[t] = "hold") ~> (curr = t \/ doing[t] # "hold")

\* Nor does anybody else starve who is not held back: a queued task runs, blocks
\* or is held back some time.
RunnableRuns ==
  \A t \in Tasks : t \in Queued ~> (curr = t \/ t \notin Queued \/ DontSched(t))
=============================================================================
