----------------------------- MODULE LockBench -----------------------------
(***************************************************************************)
(* lock-runner.c and lock-bench.h: run() repeats a trial in which threads  *)
(* share one lock that the unique thread of a barrier initialises and      *)
(* destroys, work under the lock on a global counter, and are joined; then *)
(* the counter is compared with the expected count.  Before the first      *)
(* trial it chooses the cpus the threads are pinned to in turn.            *)
(*                                                                         *)
(* lock() and unlock() are atomic here: the lock modules are about what    *)
(* they do.  ++*global_state is a load and a store.                        *)
(***************************************************************************)
EXTENDS CpuSet

CONSTANTS
  num_threads, num_trials,
  outer_iter, cs_iter, contention_mask,
  CpuOptions,     \* cpu_list, num_cpus, pin_cpus and prefer_hyper_threads of run_params
  Benches,        \* the values of bench_type to run
  MAX_STATE       \* bound of the global counter, which has 64 bits

LockBenchAssumption ==
  /\ num_threads \in Nat \ {0} /\ num_trials \in Nat \ {0}
  /\ outer_iter \in Nat \ {0} /\ cs_iter \in Nat /\ contention_mask \in Nat /\ MAX_STATE \in Nat
  /\ TopologyAssumption
  /\ CpuOptions \subseteq [cpu_list : Seq(Nat), num_cpus : Int, pin_cpus : BOOLEAN, prefer_hyper_threads : BOOLEAN]
  /\ outer_iter + cs_iter < MAX_STATE /\ num_threads * outer_iter * cs_iter < MAX_STATE

Workers == 1 .. num_threads
BENCH_TOTAL_WORK == 0
BENCH_PER_THREAD_WORK == 1

\* num_locks tests the enumerator, not bench_type, so there is always one lock.
num_locks == IF BENCH_TOTAL_WORK # 0 THEN contention_mask ELSE 0
Locks == 0 .. contention_mask

\* What the memory of a lock is.
Zero == <<"zero">>
Free == <<"free">>
Destroyed == <<"destroyed">>
Held(t) == <<"held", t>>

VARIABLES
  bench_type,
  options,             \* the cpu options
  main, trial, j,      \* where I_run() is, and its loop counters i and j
  allowable_cset,      \* the cpus to pin to; empty without pinning
  cur_cset, affinity,  \* the cpus left of this round; how often each was used
  lock,                \* shared_memory: each lock is zero, free, destroyed or held by a thread
  global_state,
  arrived,             \* the threads that wait at the barrier
  pc, is_unique, iter, work, reg

config == <<bench_type, options, allowable_cset>>
runner == <<main, trial, j, cur_cset, affinity>>
locals == <<is_unique, iter, work, reg>>
vars == <<config, runner, lock, global_state, arrived, pc, locals>>

TypeOK ==
  /\ bench_type \in {BENCH_TOTAL_WORK, BENCH_PER_THREAD_WORK}
  /\ options \in CpuOptions
  /\ main \in {"cpus", "died", "reset", "create", "join", "check", "done", "failed"}
  /\ trial \in 0 .. num_trials /\ j \in 0 .. num_threads
  /\ allowable_cset \subseteq Nat /\ cur_cset \subseteq allowable_cset
  /\ affinity \in [allowable_cset -> 0 .. num_trials * num_threads]
  /\ lock \in [Locks -> {Zero, Free, Destroyed} \cup {Held(t) : t \in Workers}]
  /\ global_state \in 0 .. MAX_STATE
  /\ arrived \subseteq Workers
  /\ pc \in [Workers -> {"none", "start", "at_start", "init", "ready", "at_ready", "lock", "check", "cs",
                         "store", "unlock", "break", "finish", "at_finish", "destroy", "exited"}]
  /\ is_unique \in [Workers -> BOOLEAN]
  /\ iter \in [Workers -> 0 .. outer_iter] /\ work \in [Workers -> 0 .. cs_iter]
  /\ reg \in [Workers -> 0 .. MAX_STATE]

Init ==
  /\ bench_type \in Benches
  /\ options \in CpuOptions
  /\ main = "cpus" /\ trial = 0 /\ j = 0
  /\ allowable_cset = {} /\ cur_cset = {} /\ affinity = [c \in {} |-> 0]
  /\ lock = [l \in Locks |-> Zero]
  /\ global_state = 0
  /\ arrived = {}
  /\ pc = [t \in Workers |-> "none"]
  /\ is_unique = [t \in Workers |-> FALSE]
  /\ iter = [t \in Workers |-> 0] /\ work = [t \in Workers |-> 0] /\ reg = [t \in Workers |-> 0]

-----------------------------------------------------------------------------
\* set_allowable_cset(), which dies without a cpu to pin to.
SetAllowable ==
  /\ main = "cpus"
  /\ allowable_cset' = AllowableCset(options)
  /\ affinity' = [c \in allowable_cset' |-> 0]
  /\ main' = IF allowable_cset' = {} /\ ShouldPinCpus(options) THEN "died" ELSE "reset"
  /\ UNCHANGED <<bench_type, options, trial, j, cur_cset, lock, global_state, arrived, pc, locals>>

\* Mutant: the counter keeps what the last trial left.
ResetLockOnly ==
  /\ main = "reset" /\ main' = "create" /\ j' = 0
  /\ lock' = [l \in Locks |-> Zero]
  /\ UNCHANGED <<config, trial, cur_cset, affinity, global_state, arrived, pc, locals>>

\* run_params_reset()
Reset ==
  /\ main = "reset" /\ main' = "create" /\ j' = 0
  /\ lock' = [l \in Locks |-> Zero]
  /\ global_state' = 0
  /\ UNCHANGED <<config, trial, cur_cset, affinity, arrived, pc, locals>>

\* The next cpu, round-robin; the round goes on in the next trial.
Pin ==
  LET round == IF cur_cset = {} THEN allowable_cset ELSE cur_cset
      cpu == CHOOSE c \in round : \A d \in round : c <= d
  IN  /\ cur_cset' = round \ {cpu}
      /\ affinity' = [affinity EXCEPT ![cpu] = @ + 1]

Create ==
  /\ main = "create"
  /\ IF allowable_cset = {} THEN UNCHANGED <<cur_cset, affinity>> ELSE Pin
  /\ pc' = [pc EXCEPT ![j + 1] = "start"]
  /\ IF j + 1 = num_threads THEN main' = "join" /\ j' = 0 ELSE main' = main /\ j' = j + 1
  /\ UNCHANGED <<config, trial, lock, global_state, arrived, locals>>

Join ==
  /\ main = "join" /\ pc[j + 1] = "exited"
  /\ pc' = [pc EXCEPT ![j + 1] = "none"]
  /\ j' = j + 1
  /\ main' = IF j + 1 = num_threads THEN "check" ELSE main
  /\ UNCHANGED <<config, trial, cur_cset, affinity, lock, global_state, arrived, locals>>

expec == IF bench_type = BENCH_TOTAL_WORK THEN outer_iter ELSE num_threads * outer_iter * cs_iter

\* On a bad count test_assert() makes I_run() return -1, and the driver die.
Check ==
  /\ main = "check"
  /\ trial' = trial + 1
  /\ main' = IF global_state # expec THEN "failed" ELSE IF trial + 1 = num_trials THEN "done" ELSE "reset"
  /\ UNCHANGED <<config, j, cur_cset, affinity, lock, global_state, arrived, pc, locals>>

-----------------------------------------------------------------------------
Goto(t, from, to) == pc[t] = from /\ pc' = [pc EXCEPT ![t] = to]

\* pthread_barrier_wait(): the last thread to come lets all go on, and one of
\* them, any, is told that it is unique.
After(at) ==
  CASE at = "at_start" -> "init"
    [] at = "at_ready" -> "lock"
    [] at = "at_finish" -> "destroy"
    [] OTHER -> at

Barrier(t, from, at) ==
  /\ pc[t] = from
  /\ IF arrived \cup {t} = Workers
     THEN /\ arrived' = {}
          /\ pc' = [u \in Workers |-> After(IF u = t THEN at ELSE pc[u])]
          /\ \E unique \in Workers : is_unique' = [u \in Workers |-> u = unique]
     ELSE /\ arrived' = arrived \cup {t}
          /\ pc' = [pc EXCEPT ![t] = at]
          /\ UNCHANGED is_unique
  /\ UNCHANGED <<config, runner, lock, global_state, work, reg>>

Arrive(t) == Barrier(t, "start", "at_start") /\ UNCHANGED iter

\* Mutant: the threads start to work without waiting for the initialisation.
InitThenWork(t) ==
  /\ Goto(t, "init", "lock")
  /\ lock' = IF is_unique[t] THEN [l \in Locks |-> IF l <= num_locks THEN Free ELSE lock[l]] ELSE lock
  /\ iter' = [iter EXCEPT ![t] = outer_iter]
  /\ UNCHANGED <<config, runner, global_state, arrived, is_unique, work, reg>>

InitLocks(t) ==
  /\ Goto(t, "init", "ready")
  /\ lock' = IF is_unique[t] THEN [l \in Locks |-> IF l <= num_locks THEN Free ELSE lock[l]] ELSE lock
  /\ iter' = [iter EXCEPT ![t] = outer_iter]
  /\ UNCHANGED <<config, runner, global_state, arrived, is_unique, work, reg>>

Ready(t) == Barrier(t, "ready", "at_ready") /\ UNCHANGED iter

\* varied_contention is 0 in both instances of I_bench_total_work().
idx == 0

Lock(t) ==
  /\ lock[idx] \in {Free, Zero}
  /\ Goto(t, "lock", IF bench_type = BENCH_TOTAL_WORK THEN "check" ELSE "cs")
  /\ lock' = [lock EXCEPT ![idx] = Held(t)]
  /\ work' = [work EXCEPT ![t] = cs_iter]
  /\ UNCHANGED <<config, runner, global_state, arrived, is_unique, iter, reg>>

\* I_work_done() holds when the counter equals the total.
WorkDone(t) ==
  /\ Goto(t, "check", IF global_state = outer_iter THEN "break" ELSE "cs")
  /\ UNCHANGED <<config, runner, lock, global_state, arrived, locals>>

CsLoad(t) ==
  /\ Goto(t, "cs", IF work[t] = 0 THEN "unlock" ELSE "store")
  /\ reg' = [reg EXCEPT ![t] = global_state]
  /\ UNCHANGED <<config, runner, lock, global_state, arrived, is_unique, iter, work>>

CsStore(t) ==
  /\ Goto(t, "store", "cs")
  /\ global_state' = IF reg[t] + 1 > MAX_STATE THEN MAX_STATE ELSE reg[t] + 1
  /\ work' = [work EXCEPT ![t] = @ - 1]
  /\ UNCHANGED <<config, runner, lock, arrived, is_unique, iter, reg>>

\* The per-thread bench counts its iterations, the total-work bench does not.
Unlock(t) ==
  LET left == IF bench_type = BENCH_TOTAL_WORK THEN iter[t] ELSE iter[t] - 1
  IN  /\ Goto(t, "unlock", IF left = 0 THEN "finish" ELSE "lock")
      /\ iter' = [iter EXCEPT ![t] = left]
      /\ lock' = [lock EXCEPT ![idx] = Free]
      /\ UNCHANGED <<config, runner, global_state, arrived, is_unique, work, reg>>

\* Mutant: the lock is kept when the work is done.
BreakLocked(t) ==
  /\ Goto(t, "break", "finish")
  /\ UNCHANGED <<config, runner, lock, global_state, arrived, locals>>

Break(t) ==
  /\ Goto(t, "break", "finish")
  /\ lock' = [lock EXCEPT ![idx] = Free]
  /\ UNCHANGED <<config, runner, global_state, arrived, locals>>

Finish(t) == Barrier(t, "finish", "at_finish") /\ iter' = [iter EXCEPT ![t] = 0]

Destroy(t) ==
  /\ Goto(t, "destroy", "exited")
  /\ lock' = IF is_unique[t] THEN [l \in Locks |-> IF l <= num_locks THEN Destroyed ELSE lock[l]] ELSE lock
  /\ UNCHANGED <<config, runner, global_state, arrived, locals>>

Step(t) ==
  \/ Arrive(t) \/ InitLocks(t) \/ Ready(t)
  \/ Lock(t) \/ WorkDone(t) \/ CsLoad(t) \/ CsStore(t) \/ Unlock(t) \/ Break(t)
  \/ Finish(t) \/ Destroy(t)

Main == SetAllowable \/ Reset \/ Create \/ Join \/ Check

Next == Main \/ \E t \in Workers : Step(t)

Spec == Init /\ [][Next]_vars

FairSpec == Spec /\ WF_vars(Main) /\ \A t \in Workers : WF_vars(Step(t))

-----------------------------------------------------------------------------
\* "Bad count": at the end of each trial the counter has the expected value,
\* whichever thread did the work and however the trials before ended.
CountIsExpected == main # "failed"

\* A thread uses the lock between its initialisation and its destruction by
\* the unique threads of two barriers, and nobody initialises or destroys it
\* again meanwhile.
LockReadyWhenUsed ==
  \A t \in Workers :
    /\ pc[t] = "lock" => lock[idx] = Free \/ \E u \in Workers : lock[idx] = Held(u)
    /\ pc[t] \in {"check", "cs", "store", "unlock", "break"} => lock[idx] = Held(t)

\* Over all trials the threads are spread evenly over the allowed cpus.
EvenlyPinned == \A c, d \in allowable_cset : affinity[c] <= affinity[d] + 1

\* The cpus are on the machine and as many as asked for.  They cover all the
\* cores they can, or with prefer_hyper_threads at most one core in part.
AsAsked(o, cset) ==
  LET cores == {Core(c) : c \in Cpus}
      used == {k \in cores : k \cap cset # {}}
  IN  /\ cset \subseteq Cpus /\ Cardinality(cset) = o.num_cpus
      /\ IF o.prefer_hyper_threads
         THEN Cardinality({k \in used : ~(k \subseteq cset)}) <= 1
         ELSE Cardinality(used) = Min({o.num_cpus, Cardinality(cores)})

\* A number of cpus is honoured, and the threads are spread evenly over them.
CpusAsAsked ==
  /\ EvenlyPinned
  /\ main # "cpus" /\ options.cpu_list = <<>> /\ options.num_cpus \in 1 .. nprocs => AsAsked(options, allowable_cset)

\* "When all the work is done the benchmark is done."
BenchEnds == <>(main = "done")
=============================================================================
