----------------------------- MODULE Interpose -----------------------------
(***************************************************************************)
(* The library that replaces pthread_mutex_*() by a spin lock and times    *)
(* the calls: pthread-spin.interpose.c, pthread-mutex-interpose.h and      *)
(* interpose-timing.h built with I_WITH_TIMING.                            *)
(*                                                                         *)
(* One mutex, zeroed by PTHREAD_MUTEX_INITIALIZER.  A thread pushes its    *)
(* record on a list at its first call; the destructor of the library takes *)
(* the list and prints it while other threads may still run, and reads a   *)
(* record between two stores of its thread.  Of the times only the slots   *)
(* matter that have one: time_history[] is zero where none was stored.     *)
(***************************************************************************)
EXTENDS Naturals, FiniteSets

CONSTANTS
  Threads,
  NULL, END,        \* the null pointer and I_THREAD_STATS_END
  I_WARMUP_CALLS, I_COOLDOWN_CALLS,
  MAX_CALLS         \* bound of the calls of a thread

ASSUME InterposeAssumption ==
  /\ NULL \notin Threads /\ END \notin Threads /\ NULL # END
  /\ I_WARMUP_CALLS \in Nat /\ I_COOLDOWN_CALLS \in Nat \ {0} /\ MAX_CALLS \in Nat

VARIABLES
  spin, is_init, busy,       \* the mutex: spin[0], spin[1] and spin[2]
  inits,                     \* history: how often it was initialised
  pc, op, holds,             \* where the thread is, in which call, and whether it owns the mutex
  ncalls,                    \* calls so far
  warmup, thread_stats,      \* I_warmup_count and whether I_thread_stats is set
  stats_l, expec, next,      \* the list, the local cas_expec and the links; a record has the name of its thread
  counted, history_idx,      \* num_calls_* and history_idx of a record
  time_history,              \* the slots of a record that hold a time
  main, cur,                 \* the destructor and the record it is at
  printed, no_times,         \* lines per record, with figures and "No times"
  owed, torn                 \* history: records with a time when the destructor took the list, and those
                             \* whose thread was between its last two stores when they were read

mutex == <<spin, is_init, busy, inits>>
caller == <<op, holds, ncalls>>
figures == <<counted, history_idx, time_history>>
timing == <<warmup, thread_stats, stats_l, expec, next, figures>>
exit == <<main, cur, printed, no_times, owed, torn>>
vars == <<mutex, pc, caller, timing, exit>>

TypeOK ==
  /\ spin \in {0, 1} /\ is_init \in {0, 1} /\ busy \in {0, 1}
  /\ inits \in 0 .. Cardinality(Threads)
  /\ pc \in [Threads -> {"idle", "load_init", "exchange", "init", "mark", "clear", "wait_init", "spin",
                         "timing", "index", "history", "add_load", "add_cas", "count_warmup", "crashed"}]
  /\ op \in [Threads -> {"trylock", "lock", "unlock"}]
  /\ holds \in [Threads -> BOOLEAN]
  /\ ncalls \in [Threads -> 0 .. MAX_CALLS]
  /\ warmup \in [Threads -> 0 .. I_WARMUP_CALLS]
  /\ thread_stats \in [Threads -> BOOLEAN]
  /\ stats_l \in Threads \cup {NULL, END}
  /\ expec \in [Threads -> Threads \cup {NULL, END}] /\ next \in [Threads -> Threads \cup {NULL}]
  /\ counted \in [Threads -> 0 .. MAX_CALLS] /\ history_idx \in [Threads -> 0 .. MAX_CALLS]
  /\ time_history \in [Threads -> SUBSET (0 .. I_COOLDOWN_CALLS - 1)]
  /\ main \in {"running", "printing", "exiting"}
  /\ cur \in Threads \cup {NULL}
  /\ printed \in [Threads -> Nat] /\ no_times \in [Threads -> Nat]
  /\ owed \subseteq Threads /\ torn \subseteq Threads

Init ==
  /\ spin = 0 /\ is_init = 0 /\ busy = 0 /\ inits = 0
  /\ pc = [t \in Threads |-> "idle"] /\ op = [t \in Threads |-> "lock"]
  /\ holds = [t \in Threads |-> FALSE] /\ ncalls = [t \in Threads |-> 0]
  /\ warmup = [t \in Threads |-> I_WARMUP_CALLS] /\ thread_stats = [t \in Threads |-> FALSE]
  /\ stats_l = NULL /\ expec = [t \in Threads |-> NULL] /\ next = [t \in Threads |-> NULL]
  /\ counted = [t \in Threads |-> 0] /\ history_idx = [t \in Threads |-> 0]
  /\ time_history = [t \in Threads |-> {}]
  /\ main = "running" /\ cur = NULL
  /\ printed = [t \in Threads |-> 0] /\ no_times = [t \in Threads |-> 0]
  /\ owed = {} /\ torn = {}

-----------------------------------------------------------------------------
Alive == \A t \in Threads : pc[t] # "crashed"

Goto(t, from, to) == Alive /\ pc[t] = from /\ pc' = [pc EXCEPT ![t] = to]

\* pthread_mutex_unlock() goes straight to the store.
Call(t) ==
  /\ ncalls[t] < MAX_CALLS
  /\ ncalls' = [ncalls EXCEPT ![t] = @ + 1]
  /\ \E o \in IF holds[t] THEN {"unlock"} ELSE {"trylock", "lock"} :
       /\ op' = [op EXCEPT ![t] = o]
       /\ Goto(t, "idle", IF o = "unlock" THEN "spin" ELSE "load_init")
  /\ UNCHANGED <<mutex, holds, timing, exit>>

LoadInit(t) ==
  /\ Goto(t, "load_init", IF is_init = 0 THEN "exchange" ELSE "spin")
  /\ UNCHANGED <<mutex, caller, timing, exit>>

Exchange(t) ==
  /\ Goto(t, "exchange", IF busy = 0 THEN "init" ELSE "wait_init")
  /\ busy' = 1
  /\ UNCHANGED <<spin, is_init, inits, caller, timing, exit>>

\* pthread_spin_init()
SpinInit(t) ==
  /\ Goto(t, "init", "mark")
  /\ spin' = 0 /\ inits' = inits + 1
  /\ UNCHANGED <<is_init, busy, caller, timing, exit>>

MarkInit(t) ==
  /\ Goto(t, "mark", "clear")
  /\ is_init' = 1
  /\ UNCHANGED <<spin, busy, inits, caller, timing, exit>>

ClearBusy(t) ==
  /\ Goto(t, "clear", "spin")
  /\ busy' = 0
  /\ UNCHANGED <<spin, is_init, inits, caller, timing, exit>>

\* Mutant: a thread that finds the flag taken does not wait.
WaitSkipped(t) ==
  /\ Goto(t, "wait_init", "spin")
  /\ UNCHANGED <<mutex, caller, timing, exit>>

WaitInit(t) ==
  /\ busy = 0
  /\ Goto(t, "wait_init", "spin")
  /\ UNCHANGED <<mutex, caller, timing, exit>>

\* pthread_spin_lock() waits, pthread_spin_trylock() does not.
Acquire(t) ==
  /\ op[t] \in {"trylock", "lock"}
  /\ op[t] = "lock" => spin = 0
  /\ Goto(t, "spin", "timing")
  /\ spin' = 1
  /\ holds' = [holds EXCEPT ![t] = spin = 0]
  /\ UNCHANGED <<is_init, busy, inits, op, ncalls, timing, exit>>

Release(t) ==
  /\ op[t] = "unlock"
  /\ Goto(t, "spin", "timing")
  /\ spin' = 0
  /\ holds' = [holds EXCEPT ![t] = FALSE]
  /\ UNCHANGED <<is_init, busy, inits, op, ncalls, timing, exit>>

-----------------------------------------------------------------------------
\* timing_end() after the warm-up counts the call; that of an unlock goes on to
\* time_history[history_idx++ % I_COOLDOWN_CALLS], which gcc compiles to a store
\* of the index and one of the time.
Count(t) ==
  /\ warmup[t] = 0
  /\ Goto(t, "timing", IF op[t] = "unlock" THEN "index" ELSE "idle")
  /\ counted' = [counted EXCEPT ![t] = @ + 1]
  /\ UNCHANGED <<mutex, caller, warmup, thread_stats, stats_l, expec, next, history_idx, time_history, exit>>

RaiseIndex(t) ==
  /\ Goto(t, "index", "history")
  /\ history_idx' = [history_idx EXCEPT ![t] = @ + 1]
  /\ UNCHANGED <<mutex, caller, warmup, thread_stats, stats_l, expec, next, counted, time_history, exit>>

\* The slot before the index, which for an index of zero is the last one.
LastSlot(t) == (history_idx[t] + (I_COOLDOWN_CALLS - 1)) % I_COOLDOWN_CALLS

StoreTime(t) ==
  /\ Goto(t, "history", "idle")
  /\ time_history' = [time_history EXCEPT ![t] = @ \cup {LastSlot(t)}]
  /\ UNCHANGED <<mutex, caller, warmup, thread_stats, stats_l, expec, next, counted, history_idx, exit>>

TimingWarmup(t) ==
  /\ warmup[t] # 0
  /\ Goto(t, "timing", IF thread_stats[t] THEN "count_warmup" ELSE "add_load")
  /\ UNCHANGED <<mutex, caller, timing, exit>>

\* I_thread_stats_add() after the destructor returns NULL, and timing_end()
\* stores to it.
AddLoad(t) ==
  /\ Goto(t, "add_load", IF stats_l = END THEN "crashed" ELSE "add_cas")
  /\ expec' = [expec EXCEPT ![t] = stats_l]
  /\ UNCHANGED <<mutex, caller, warmup, thread_stats, stats_l, next, figures, exit>>

\* Mutant: a store instead of the compare-and-swap.
AddStore(t) ==
  /\ Goto(t, "add_cas", "count_warmup")
  /\ next' = [next EXCEPT ![t] = expec[t]]
  /\ stats_l' = t
  /\ thread_stats' = [thread_stats EXCEPT ![t] = TRUE]
  /\ UNCHANGED <<mutex, caller, warmup, expec, figures, exit>>

AddCas(t) ==
  /\ Goto(t, "add_cas", IF stats_l = expec[t] THEN "count_warmup" ELSE "add_load")
  /\ next' = [next EXCEPT ![t] = expec[t]]
  /\ stats_l' = IF stats_l = expec[t] THEN t ELSE stats_l
  /\ thread_stats' = [thread_stats EXCEPT ![t] = stats_l = expec[t]]
  /\ UNCHANGED <<mutex, caller, warmup, expec, figures, exit>>

CountWarmup(t) ==
  /\ Goto(t, "count_warmup", "idle")
  /\ warmup' = [warmup EXCEPT ![t] = @ - 1]
  /\ UNCHANGED <<mutex, caller, thread_stats, stats_l, expec, next, figures, exit>>

\* I_destroy_timing() takes the list ...
DestroyTake ==
  /\ Alive /\ main = "running"
  /\ main' = "printing"
  /\ cur' = stats_l /\ stats_l' = END
  /\ owed' = {t \in Threads : time_history[t] # {}}
  /\ UNCHANGED <<mutex, pc, caller, warmup, thread_stats, expec, next, figures, printed, no_times, torn>>

\* I_thread_stats_out() of the record cur: nothing without a counted call, and
\* "No times" without a time in the last slot.  What it reads of the record it
\* could have read at once, at the moment it reads the index or at the store that
\* fills its slot.
ThreadStatsOut ==
  /\ Alive /\ main = "printing" /\ cur # NULL
  /\ LET timed == LastSlot(cur) \in time_history[cur]
     IN  /\ printed' = [printed EXCEPT ![cur] = IF counted[cur] > 0 /\ timed THEN @ + 1 ELSE @]
         /\ no_times' = [no_times EXCEPT ![cur] = IF counted[cur] > 0 /\ ~timed THEN @ + 1 ELSE @]
  /\ torn' = IF pc[cur] = "history" THEN torn \cup {cur} ELSE torn
  /\ UNCHANGED <<mutex, pc, caller, timing, main, owed>>

\* Mutant: a record without calls is skipped before its link is read.
DestroyPrintSkips == ThreadStatsOut /\ cur' = IF counted[cur] > 0 THEN next[cur] ELSE cur

\* ... and prints record after record.
DestroyPrint == ThreadStatsOut /\ cur' = next[cur]

DestroyEnd ==
  /\ Alive /\ main = "printing" /\ cur = NULL
  /\ main' = "exiting"
  /\ UNCHANGED <<mutex, pc, caller, timing, cur, printed, no_times, owed, torn>>

Step(t) ==
  \/ LoadInit(t) \/ Exchange(t) \/ SpinInit(t) \/ MarkInit(t) \/ ClearBusy(t) \/ WaitInit(t)
  \/ Acquire(t) \/ Release(t)
  \/ Count(t) \/ RaiseIndex(t) \/ StoreTime(t) \/ TimingWarmup(t) \/ AddLoad(t) \/ AddCas(t) \/ CountWarmup(t)

Destructor == DestroyTake \/ DestroyPrint \/ DestroyEnd

Next == Destructor \/ \E t \in Threads : Call(t) \/ Step(t)

Spec == Init /\ [][Next]_vars

FairSpec == Spec /\ WF_vars(Destructor)

-----------------------------------------------------------------------------
\* Two threads never own the mutex.  They may: a thread that read is_init = 0
\* and was delayed finds busy clear again and initialises a mutex that is held.
MutualExclusion == \A t, u \in Threads : holds[t] /\ holds[u] => t = u

\* The second initialisation is the only thing that can go wrong: whoever waits
\* for the first one, or comes after it, shares the mutex correctly.
ExclusiveUnlessInitialisedAgain == inits <= 1 => MutualExclusion

\* The walk reaches each record once, while threads push records and go on with
\* their calls: a record that had a time when the destructor took the list gets one
\* line, and its figures unless its thread was between raising history_idx and
\* storing the time.  No record gets two lines.
EachRecordPrintedOnce ==
  /\ \A t \in Threads : printed[t] + no_times[t] <= 1
  /\ main = "exiting" => \A t \in owed : printed[t] = 1 \/ (no_times[t] = 1 /\ t \in torn)

\* A record with a time is printed with its figures.  It may not be: the index is
\* raised before the time is stored, and the slot it names is empty.
FiguresPrinted == main = "exiting" => \A t \in owed : printed[t] = 1

\* The walk of the destructor ends although threads go on.
DestructorEnds == <>(main = "exiting" \/ ~Alive)

\* "We are at exit.  No perf penality printing to stdout so just get the numbers
\* out there": a call after the destructor goes on.
CallsAfterExitGoOn == Alive
=============================================================================
