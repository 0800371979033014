# A verification project for autolock

Autolock lets a thread that waits for a user-space lock tell the kernel what it
waits for.  The thread publishes three words in a page it shares with the
kernel (`watch_mem`, `watch_for`, `watch_neq`), and the patched CFS scheduler
tries not to run a task whose watched word says that its wait is not over.
Nobody can preempt between two instructions on demand, and a thread that is held
back for ever looks like a slow machine: most of what can go wrong here is out
of a test's reach.  These modules model the protocol on both sides.

## The system

| Component | State | Operations | Interacts through |
|---|---|---|---|
| Autolock page (`autolock-kernel-abi.h`, `kernel/auto-lock.c`) | the three words | the user's setters, the scheduler's `auto_lock_dont_sched()` | memory shared between a thread and the scheduler |
| User lock base (`locks/internal/lock-base.h`, instantiated by `spin-comparisons.h`) | `mem`, `waiters`; a page per thread | `init`, `lock`, `trylock`, `unlock`, `trylock_maybe_sched` | atomic accesses, futex, sched_yield, the page |
| Set-up (`autolock-kernel-api.h`, patches 1, 2, 8) | thread-local page pointer, `task_struct.auto_lock`, page frame, socket, file, descriptors | `autolock_init_kernel_state`, `auto_lock_create`, mmap, clone, exit, `__put_task_struct`, `auto_lock_destroy` | system calls, process life cycle |
| Address cache (patch 10) | `usr_virt_page_start`, `kern_virt_page`, `page` of `auto_lock_ctx`; pins | `__auto_lock_cache_phys_addr`, unpin, `__auto_lock_check_mem` | called by `schedule()`; read by `pick_next_entity()` |
| Run queue (patch 12) | CFS tree, `curr`, three buddies | `pick_next_entity` | asks the page of every candidate |
| User autolocks without futex (`autolock-common-user-api.h`, `custom-spin-autolock.h`), rseq autolock (`rseq-autolock.h`) | lock word, a page per thread, the thread's rseq area | `lock`, `trylock`, `unlock`, the abort handler | atomic accesses, the page, the restartable sequence of the kernel |
| Queue locks: ticket, CLH, AEPFL, compact ticket, MCS (`locks/internal/*-lock-base.h`) | tickets, heap nodes, flags, a ticket lock per socket | `init`, `lock`, `trylock`, `unlock`, `destroy` | atomic accesses, the page, malloc |
| Stock locks of the benchmark (`locks/lock-base.h`) | `state`, `waiters`, loop counters | `lock`, `try_lock`, `unlock` | atomic accesses, futex |
| Benchmark and runner (`lock-bench.h`, `lock-runner.c`, `thread/cpuset.h`, thread wrappers) | locks in shared memory, a barrier, the work counter, the cpus left | `I_run`, `bench_runner`, `set_allowable_cset` | threads, barrier, affinity |
| Interposition (`interpose/`) | a lazily initialised spin lock, a list of records, the warm-up count of a thread | pthread mutex calls, registration, destructor | atomic accesses |
| Driver (`driver.c`, `util/arg.c`, `util/func-decl-utils.c`, `lib/stats/stats.c`) | options, the names asked for, times and statistics | parse, list, test, bench, print | calls the runner |
| Kernel statistics, remaining utilities, glibc patches | | | |

What is hard: a preemption at any instruction of `lock()` is visible to the
scheduler; the page outlives each lock it served; stores are buffered by the
processor; set-up can fail at every step and is cut short by fork, execve and
exit; the address cache is filled by code that may itself be scheduled away;
and the scheduler must pass tasks over without starving the one that would end
their wait.

What makes each part correct:

* lock: no two owners, no word locked for nobody, no wakeup lost, nobody held back
  unless the lock's holder can run, and a free lock that is waited for is taken;
* set-up: the page a thread writes is the one its task is scheduled by, and all
  of it is given back once;
* address cache: the scheduler never finds a half-filled context, reads the word
  the task waits for, and every pin is given back once;
* run queue: a queued task is picked, the stock choice stands unless the task is
  held back, a queued lock holder runs;
* queue locks: who entered first gets the lock first however tickets wrap and addresses are
  reused, and the thread whose turn it is is never the one held back;
* programs: a mutex is not initialised under its owner, each record is printed once, the benchmark ends
  with the right count, the driver runs what it was asked for and prints what was measured.

## Modules

**`LockSpec`** is what any lock here promises: `want` and `held` per thread,
`Request`, `Acquire`, `TryAcquire`, `Release`.  `FairSpec` adds deadlock freedom (a
free lock that is waited for is taken), not starvation freedom, which no
spinlock has.

**`AutolockPage`** has no state: the page as a record, the three setters, and
`DontSched`, the answer of the scheduler.  The modules about locks and
scheduling use it.

**`UserLockBase`** models `lock-base.h`; one action is one memory access.
`pc` is the place in the code: `try_load`/`try_xchg` are `trylock()`, `ms_*` are
`trylock_maybe_sched()`, `set_for`/`set_neq` the preparation of the page,
`turn_failed` the end of a turn of either retry loop with its counters,
`waiters_inc` to `waiters_dec` the futex, `ul_*` the rest of `unlock()`.  The macros of the
file are constants (`WITH_AUTOLOCK`, `WITH_YIELD`, `WITH_FUTEX`, the values of
`I_LOCKED` and `I_UNLOCKED`).  `unflushed` is the store buffer of x86 reduced to
the one store that matters, that of `unlock()`; a locked instruction and a futex
call wait until it is empty.  The kernel appears as `Runnable(t)`: it owes
processor time only to threads that `DontSched` does not hold back.
Backoff changes the length of a pause and is left out.  A thread uses one
lock at a time, as the benchmark does.

**`AutolockSetup`** models the life of a page.  One value of `Pages` stands for
everything one `auto_lock_create` allocates: frame, context, socket, file.
Creation is one action, since nothing it reads is written by others, with its failures:
before anything is left behind (`CreateFails`) and at the descriptor table
(`CreateFindsNoFd`).  The mmap is a second action, so that a thread may die between
them.  `CreateThread`, `Fork`, `Exec`, `Exit` and `PutTaskStruct` are the process
life cycle of Linux as far as it touches these resources; `Arm` and `Disarm`
stand for `lock()`.

**`PinCache`** models patch 10: what `schedule()` does to the context of a task
that leaves the processor, store by store, and what the scheduler would
find at any moment (`Read`).  A user page is an address under its mask, so small and
huge pages are one case; the kernel mapping of a frame is the frame.  `disturbed` says what this
machine does besides: kernel preemption (`PREEMPT`), a pin that sleeps (`PIN_SLEEPS`) or fails
(`PIN_FAILS`), memory mapped anew (`REMAPS`); it is one of the sets in `Machines`.

**`RunQueue`** models `pick_next_entity()` of patch 12 (`SCHED_VERSION` 6, the
one that is compiled) as the operator `Pick`, over a tree that is a sequence ordered by
vruntime.  The rest of CFS is not in the repository and is
modelled from how this function uses it: enqueueing, buddies, ticks, blocking and
waking.  The tasks use one autolock.

**`QueueLock`** is the common part of all other locks: the page and the place of every
thread, who owns the lock (`Owns`), who waits, `MutualExclusion`, and the mapping to
`LockSpec`.  Each lock module extends it with its words and one action per access.

* **`TicketLock`**: tickets that wrap at `COUNTS`; `SetMem`, `SetFor`, `SetNeq` are the separate
  stores to the page, in the order of the code: armed first.
* **`ClhLock`**: a heap node per call, appended with an exchange, freed by the successor and handed out again.
  `init` and `destroy` happen between uses.
* **`AepflLock`**: the flags, the slot modulo `MAX_THREADS`, `tail` and `head`; `trylock()` only with
  `TRYLOCKS`.
* **`CptltktLock`**: a ticket lock per socket below a partitioned one of the sockets, `socket_grant`
  and `batch_count`; a thread may answer another socket at each call.
* **`UserAutolock`**: `custom_spin_autolock` and `custom_backoff_autolock`, whose `lock()` waits with the
  page armed; with `RSEQ` the assembly of `rseq_autolock`, its restartable sequence and its
  abort handler.
* **`LockOps`**: the raw loop, the loop with yields and the futex of `lock_ops`, in the instantiations
  of `lock-decls.c`, with the store buffer.

**`CpuSet`** computes the cpus the benchmark is pinned to, from the options and the
topology table.  **`LockBench`**, which extends it, is the trial loop of `I_run` with the threads of `bench_runner`:
barriers, the unique thread that initialises and destroys, both ends of the work, the check of the count.
**`Interpose`** is one interposed mutex with the lazy initialisation, the warm-up and registration of a
thread, the stores to its record and the destructor that reads it.  **`Stats`** is what `gen_stats` computes; **`Driver`**, which uses it, goes through the
command line word by word, checks it, runs the locks the names choose and prints.

**`QueueLocks`** and **`Programs`** put these side by side: `kind` is chosen at `Init`, the variables of
the others stay as they are.  What is stated once (`HeldBackBeforeTurn`, `FirstComeFirstServed`) is then
checked, and proved, of each lock.  `bypass` of `QueueLocks` is a history variable.

The `MC*` modules give the constants small values.  The `*Proofs` modules hold the proofs.

## Runs

| Run | Instance | What it shows |
|---|---|---|
| `yield_autolock_two_locks` | 3 threads, 2 locks, TSO, yield loop of 1+1 turns, page creation may fail | `MutualExclusion`, `LockedIffOwned`, `HeldBackForARunnableHolder` |
| `futex_autolock` | 3 threads, 1 lock, yield and futex, stores in program order | `TypeOK`, `WaitersCounted`, `NoLostWakeup`, `ImplementsLock` (with deadlock freedom) |
| `futex_buffered_release` | 2 threads, 1 lock, futex, TSO | refutes `NoLostWakeup` |
| `setup_threads` | 3 tasks, 2 pages; creation and mmap may fail | `TypeOK`, `OwnPage`, `HeldBackByOwnWait` |
| `setup_teardown` | 3 tasks, 2 pages; fork, execve, destroy, failing mmap | `FreedOnce`, `NothingLeaked` |
| `setup_fork` | 2 tasks; fork | refutes `HeldBackByOwnWait` |
| `pin` | 2 tasks, 2 pages, 3 frames; any combination of pins that sleep, pins that fail and pages that are remapped | `AddressesSynced` whatever happens; `ReadsTheWatchedWord` and `PinsAccounted`, which say which disturbances they bear |
| `pick` | 3 tasks, granularity 1, lag up to 3 | `PicksQueuedTask`, `StockUnlessHeldBack`, `HolderRuns`, `RunnableRuns` |
| `queue_locks` | 3 threads on each of seven locks; one on each socket, the third on either at each call; CLH with 4 nodes; the stores of `lock_ops` buffered | `MutualExclusion`, `HeldBackBeforeTurn`, `NodesAccounted`, `OneFlagSet`, `SocketGrantIsOwned`, `BatchIsBounded`, `FirstComeFirstServed` |
| `queue_progress` | 3 threads on two sockets of the compact ticket lock, 2 on each other lock; the stores of `lock_ops` buffered | `ImplementsLock` (with deadlock freedom unless `Stuck`), `NoStarvation` |
| `programs` | 2 threads of the interposed mutex, 4 calls each; 3 bench threads, 2 trials, 7 sets of cpu options; some 500 command lines | `ExclusiveUnlessInitialisedAgain`, `EachRecordPrintedOnce`, `CountIsExpected`, `LockReadyWhenUsed`, `CpusAsAsked`, `ParsedAsWritten`, `RunsWhatWasAsked`, `StatsAgree`, `EachResultPrinted`, `BenchEnds`, `WalkEnds` |
| `half_armed_page` | 2 threads on the ticket lock | refutes `TurnIsSchedulable` |

### Bounds

* Three threads are a holder, a waiter and a third that takes the lock in
  between; two locks are enough for a page to be left over from the other one.
  `PAUSE_ITERS` and `YIELD_ITERS` (128 and 4 in the code) are 0 or 1: the counters decide only when a thread
  moves to the next way of waiting, and both outcomes of their tests occur.
  The states of the lock model are finite without a cap.
* Three tasks are a parent and two threads or children.  Two pages make a third
  creation fail, which is a failure the code has.
* `MAX_PINS` bounds the pins of a frame, as its reference count does; a pin
  beyond it fails.  Tasks meet only in the pins of a frame: two tasks and room for two
  pins have both pin the same one.  The third frame is where a page moves to.
* vruntimes are kept relative to the least one and a difference of `MAX_LAG` stands
  for all larger ones; with a granularity of 1, three are two steps beyond what is
  fair.
* In the queue locks three threads are an owner, its successor and one behind it; three tickets
  for three threads make every ticket be out at once and wrap; four CLH nodes are that of the
  lock and one per thread, so that a freed one is handed out again at the next call; `LOCAL_COUNTS` = 2
  and `COUNTS` = 4 wrap in the first batches, and `BATCH_COUNT` = 1 (100 in the code)
  has a batch that goes on and one that ends.  Starvation freedom of the
  compact ticket lock is checked with three threads: the two of one socket pass the lock between them as often as
  the batch lets them while the third waits on the other socket.  The other locks have two there, a waiter and
  an owner that comes back.  In `queue_locks` a thread migrates between the sockets, in `queue_progress` none does.
* No `trylock()` of the ticket lock sleeps through a full turn of 2^32 tickets (`NoFullTurn`):
  its compare-and-swap would then succeed on an old ticket.
* `RAW_ITERS` = 2 and `YIELD_ITERS` = 1 let each loop of `lock_ops` be left by its counter.
* `I_WARMUP_CALLS` = 1 and `MAX_CALLS` = 4 let a thread warm up, register, and be counted for two unlocks,
  each with a store to `history_idx` and one to the slot of `time_history[]`, which has `I_COOLDOWN_CALLS` = 2: a record may
  be read before its first time, between the stores of the first and of the second, and after them.  `MAX_STATE` bounds the 64-bit work counter above what the work can reach.
* The driver's integers wrap at `WIDTH` = 8 (2^32), names match by a table, and a trial lasts
  1 or 3; a csv line holds `CSV_TRIALS` = 2 trials.  The command lines are those with up to three
  words behind a working beginning, so that each option is last, is followed by a word that looks like
  an option, and comes twice.
* Threads, locks and pages are symmetric where the run has no liveness
  property; the first task of `AutolockSetup` is not interchanged.
* Deadlock is not checked where the system may stop: a process killed by
  its null pointer, tasks that have all exited.

### Fairness

`UserLockBase!FairSpec` is weak fairness of every single thread's next step, but
only while the thread is `Runnable`: a held-back thread is owed nothing, so
`ImplementsLock` shows that holding threads back cannot deadlock a lock.  A
store leaves the store buffer some time.  A thread outside a call need not make
another one, but an owner does unlock.

The queue locks have the same fairness: weak, per thread, while its page does not hold it back; for `lock_ops`
the buffered store leaves the buffer.  The page is read at every state, so a thread may lose the processor between any two
of the stores to its page, as it may in the code: neither the locks nor `auto_lock_dont_sched()` of the patch prevent it.
Three of these locks arm the page before all of it is stored, and there a thread whose turn it is may be held back for ever;
the futex of `lock_ops` may lose a wakeup.  `Stuck` names these two states.  `ImplementsLock` claims deadlock freedom of the runs that do
not end in one of them, `NoStarvation` that a thread waits for ever only if such a state comes again and again: whatever else goes
wrong is found.  The clause is narrow: a page left armed after the turn, a batch that is not counted or a hand-over to the
wrong ticket is not `Stuck`.
`NoStarvation` is only claimed of the queue locks: the spin locks promise no more than deadlock freedom.

In `Programs` the destructor, `main()` and each thread of the benchmark go on; an atomic `lock()`
of the benchmark is enabled only while the lock is free, and weak fairness suffices because `BenchEnds`
counts the work whoever does it.  Threads of the interposed program need not make another call.

`RunQueue!FairSpec` says that a pending reschedule happens and that ticks go on
as long as tasks run again and again.  Strong fairness of the tick is needed
because a task may block, or yield, just before every tick of its own; the
clock does not stop for that.

## Deviations

Three runs are kept because they refute something the repository says of itself.

* `futex_buffered_release`: `locks/lock-base.h:205-208` says that x86 orders the unlocking
  store before the load of `waiters`.  It does not: a load may pass an earlier
  store to another address.  The waiter increments `waiters` and calls
  FUTEX_WAIT after that load and before the store is seen, and sleeps on a free lock.
* `setup_fork`: after `fork()` the child has the thread-local pointer and
  the shared mapping of its parent but no context; it arms the parent's page.
* `half_armed_page`: "once the thread acquires the lock lock->cur_count will equal ticket_num so the thread will
  still be schedulable" (`simple-ticket-lock-base.h:110-113`).  `watch_mem` is stored first and `watch_for` second; switched out in between, a
  thread is judged by the ticket of an earlier wait, is passed over although its turn has come, and everybody behind it waits
  with it.  The same property is refuted of the array and the compact ticket lock (`Kinds`), and holds of the others.

The following configurations state further deviations and are refuted by TLC in seconds; they
are not part of the regular runs.

| Configuration (module) | Property | Counterexample |
|---|---|---|
| `futex_wake_result` (`MCUserLockBase`) | `UnlockReportsSuccess` | FUTEX_WAKE returns how many it woke; `unlock()` returns `I_FAILURE` |
| `create_failure` (`MCUserLockBase`) | `FailureIsReturned` | `lock()` uses the page of a failed creation |
| `setup_mmap_error` (`MCAutolockSetup`) | `ReturnsNullOrPage` | the raw system call returns `-errno`, which is compared to `MAP_FAILED` |
| `setup_exec` (`MCAutolockSetup`) | `CanRegister` | the context survives execve, its mapping does not: `-EEXIST` for ever |
| `pin_remap` (`MCPinCache`) | `TranslationFresh` | munmap does not invalidate the cache |
| `pin_blocks` (`MCPinCache`) | `NothingPinnedAtEnd` | a sleeping pin enters `schedule()`, which pins again |
| `pin_failure` (`MCPinCache`) | `PageSynced` | unpinning leaves `ctx->page`; if the pin that should replace it fails, the release unpins a second time |
| `pick_unfair` (`MCRunQueue`) | `PassesOverFairly` | the scan returns a task beyond the wakeup granularity |
| `clh_next_in_queue` (`MCQueueLocks`) | `NextInQueue` | `lock->head` is read by threads that do not own the lock: "we are next in queue" may be out of date, and a thread far behind spins without yielding |
| `rseq_not_armed` (`MCQueueLocks`) | `ArmedInBackoff` | "Arm/re-arm lock." (`rseq-autolock.h:61`) stores to the thread-local pointer, not to the page it points to |
| `interpose_exit` (`MCPrograms`) | `CallsAfterExitGoOn` | after the destructor `I_thread_stats_add()` returns NULL (`interpose-timing.h:100-106`), which `:132-135` dereference |
| `interpose_first_call` (`MCPrograms`) | `MutualExclusion` | a thread delayed after it saw the mutex uninitialised initialises it again under its owner (`pthread-spin.interpose.c:14-19` calls this "not really meant to be safe") |

Others differ from a regular run in one constant or one property.

| Run with | Property | Counterexample |
|---|---|---|
| `pin`, `Machines <- Preemptible` | `AddressesSynced` | the start of the user page is stored first, the mapping third; a kernel that preempts in between (the configuration has `PREEMPT_DYNAMIC`) runs into the `BUG()` of `__auto_lock_check_mem` |
| `setup_teardown`, `FDS_RUN_OUT = TRUE` | `NothingLeaked` | `auto_lock_create` that finds no descriptor leaves its file and its socket |
| `queue_locks`, `TRYLOCKS = TRUE` | `MutualExclusion` | `trylock()` of the array lock compares the tail with itself (`aepfl-lock-base.h:108`) and succeeds while the lock is held |
| `queue_progress`, the property `DeadlockFree` | `DeadlockFree` | half armed pages, and the lost wakeup of `futex_buffered_release` in `lock_ops` |
| `programs`, `Argvs <- Documented` and the invariant `DocumentedCommandsRun` | `DocumentedCommandsRun` | `main()` asserts `bench_total_work` (`driver.c:183-189`) and nothing sets it by default: the commands of `README.md:188`, `:193` and `:396` die, and `--bench-per-thread-work` can never run |
| `programs`, the invariant `FiguresPrinted` | `FiguresPrinted` | `timing_end_unlock()` raises `history_idx` and then stores the time (`interpose-timing.h:147`): the destructor reads the record in between and prints "No times" for a thread that has some |
| `programs`, the invariant `HeadingIsTrue` | `HeadingIsTrue` | a text of several trials has the figures of the last one (`driver.c:286`) under "Trials = %u" |
| `programs`, `Benches <- TotalWork`, `outer_iter = 3` | `BenchEnds` | `lock-bench.h` tests the work for equality (`:21`, `:163`); a critical section that adds more than one (`cs_iter` = 2) passes by, and no thread ends |
| `programs`, `CpuIds <- BytesAsWords` | `CpusAsAsked` | `topology/96-conf.h` lists bytes where `cpu_set_t` has 64-bit words: siblings are cpus that do not exist |
| `programs`, `WITH_DBG_PRINT = TRUE` and the invariant `AssertionHolds` | `AssertionHolds` | `func-decl-utils.c:89` asserts on a state it stores only at `:94` |

Smaller disagreements of text and code, found while translating: `driver.c:135` says "-1 (default) will test up to
number of CPUs" and `:178` dies unless `num_threads` is positive; `driver.c:141` offers -1 for an unsigned
option; `num_locks` tests the enumerator `BENCH_TOTAL_WORK` (`lock-bench.h:214`), so there is always
one lock, against `lock-run-params.h:23-25`; a csv line of 4096 bytes bounds the number of trials;
`thread/mutex.h:88` names `trylock` and unlocks (unused); `rseq_init()` is commented out in the
benchmark (`lock-bench.h:56`, `:131`), so its restartable sequence is never restarted there (`RSEQ_REGISTERED`).

## Proofs

TLAPS checks these for all values of the constants that satisfy the modules'
`ASSUME`s.

* `UserLockBaseProofs`: `TypeCorrect`, `MutualExclusionHolds`, `LockedIffOwnedHolds`,
  `HeldBackForARunnableHolderHolds`, `WaitersCountedHolds`, for all threads, locks,
  configurations, iteration counts, and both memory models.  The properties are not inductive: that a
  lock's word is free says nothing of who may store to it later.
  `Inductive` adds `Typed` (`TypeOK` without the claim that a count of waiters is not negative),
  `Called` (a thread inside a call, or owning a lock, has a lock as argument), `Owned` (the
  two properties with `Buffered`: an owner has nothing buffered, and a waiter no release of
  the lock it waits for) and `PageOK` (a page is armed only in the loop of `lock()`, never
  at the exchange that may acquire, and then watches the lock of the call for
  `UNLOCKED`).  From these,
  `HeldBackForARunnableHolder` follows in one state: a held-back thread watches a locked
  word, a locked word has an owner, and an owner's page is not armed.
  On x86 `NoLostWakeup` is false (see the deviations).  The lemma `NoLostWakeupInProgramOrder` shows that the store
  buffer is the only reason; it follows the one thread that is bound to wake a sleeper (`WakerMoves`, `OtherWakers`).
  `RefinesLockSpec`, `Spec => Lock!Spec`, if creation does not fail, under the mapping `want`, `held`.
* `AutolockSetupProofs`: `SetupTypeCorrect` and `FreedOnceHolds` for every configuration, fork, execve, destroy and failures
  included; `NothingLeakedHolds` if descriptors do not run out (with them it is false); all three from `Accounted`: what a
  task can be in at each point of its life (`Lifecycle`), a file has a reference for each
  descriptor table it is in and, unless descriptors run out, no other (`FilesCounted`), and whatever is allocated has a task that will free it (`NothingOrphaned`).
  `OwnPageHolds`, `HeldBackByOwnWaitHolds`, without fork and destroy
  (`execve` included), by the invariant `Private`: the page of a context is
  allocated, belongs to the context of no other task and is armed by its task only, and the thread-local
  pointer and the page in creation of a live task are those of its context.
* `PinCacheProofs`: `PinCacheTyped` for all machines; `AddressesSyncedHolds` without kernel preemption
  (`OnlyUserPreemptible`; with it the statement is false) and with every other disturbance, because the stores
  of the context run without another task looking (`StoresRun`).  `PinsAccountedHolds`: as long as pins neither sleep nor
  fail (the property says so), with preemption and remapping, and with room for a pin per task (`RoomForPins`:
  the reference count of a page is far larger than the number of tasks), by a count of the contexts that pin a
  frame (`Cached`, `Counted`).  `ReadsTheWatchedWordHolds`, from the two hypotheses, adds that
  the mapping is that of the page while nothing is remapped (`Translated`).
* `TicketLockProofs`: `TicketMutualExclusion`, `TicketsInOrder` (whoever takes the lock overtakes nobody with an
  older ticket) and `TicketRefinesLockSpec`, for up to `COUNTS` threads (`CountsAssumption`; 2^32 in the code).
  `TicketInv` says that the tickets out are those from `cur_count` up to `next_count`, each once
  (`TicketsOut`), although the two counts are equal both when none and when all are out; the case that keeps
  `trylock()` from taking an old ticket is `TriesFreeLock`.  `HeldBackBeforeTurnHolds` adds
  what the page holds at each store (`PageInv`): anything, between the stores of `watch_mem` and `watch_for`, its ticket from there on.
* `UserAutolockProofs`: `AutolockMutualExclusion`, `AutolockLockedIffOwned`, `HeldBackWhileLockedHolds` and
  `AutolockRefinesLockSpec`, with and without the restartable sequence, registered or not, for all threads.
  The page is armed last, so `PageInv` holds between any two stores and needs no assumption.
* `RunQueueProofs`, for all tasks, granularities and vruntimes: `QueueTypeCorrect` (the tree is ordered by vruntime and
  has every queued task but the running one, once), from what insertion at a place and removal do to a sequence
  (`Place`, by the least counterexample, since there is no induction); from it `PicksQueuedTaskHolds`, `StockUnlessHeldBackHolds` and
  `UnfairOnlyIfHeldBackHolds`: a pick beyond the granularity happens only in the scan for a task that is not held back.
* `QueueLocksProofs`: `Inv`, the conjunction of an inductive invariant for each of the seven locks, is the theorem `Invariant`.
  From it follow `QueueLocksExclude`, `HeldBackBeforeTheirTurn`, `ClhNodesAreAccounted`, `ArrayHasOneFlagSet`, `MarkedSocketOwns`,
  `QueuesAreFair`, `BatchesAreBounded` and `QueueLocksRefineLockSpec`.  The invariants of `TicketLockProofs` and `UserAutolockProofs` are taken over by instantiation.
  * Array lock: the slots out are those from the head to the tail, each once (`Out`), a flag is set only for the head.
    A slot that wraps onto one in use would break this; hence the hypothesis `ArrayFits`: as many slots as threads, and no
    `trylock()`.  The code has `MAX_THREADS` slots, and the benchmark, its only user, never calls `trylock()`,
    with which the statement is false.
  * CLH lock: the nodes from the tail to the owner are a chain of distinct allocated nodes, one per thread in the queue, and a thread
    watches the node of its predecessor (`ClhChain`, `ClhTurn`); a freed node is in no chain, so that malloc may hand it out again.
  * Compact ticket lock: a ticket lock among the threads of each socket and one among the sockets (`CohortLocal`, `Cohort`).
    Which socket has which global ticket is read from no variable; the invariant says that there is such an assignment
    (`CohortQueues == \E g, tickets : ...`).  The batch count keeps the owner of the global lock from being passed twice.
    `BatchesAreBounded` by `CohortBounded`: what may pass a waiting socket is the rest of the batch of the socket
    that is served and a whole batch of every socket between the two.
  * `QueueLocksRefineLockSpec`: a step moves one thread, and only to where its place leads (`Moves`, `LeadsTo`); with mutual exclusion
    such a move is a step of `LockSpec` or a stutter.
  * `lock_ops`: the word, and the one store that may be buffered, of an unlock that is over (`OpsInv`).
  * The pages: what an armed page watches at each store, and where it watches something else.  `HeldBackBeforeTheirTurn` follows, with
    the state between two stores as the only exception, which the code has (see the deviations).
* `ProgramsProofs`: a run of the composition is a run of each program (`InterposeRuns`, `BenchRuns`, `DriverRuns`).
  * `ExclusiveUnlessInitialisedAgainHolds` by `MutexInv`: before the first initialisation nobody
    is past it, afterwards the word tells whether the mutex is held, and only its owner releases it; `EachRecordPrintedOnceHolds`, if
    `I_WARMUP_CALLS > 0` (64 in the code: without a warm-up no thread registers), by `RecordsInv`: the list is a `Chain`,
    distinct records numbered from its end; what the destructor still owes has its line already or is in the rest
    of the chain from its place on; and the slot it looks at has a time unless the thread is between its two stores (`LastTimed`).
  * `CountIsExpectedHolds` and `LockReadyWhenUsedHolds` by `BenchInv`, for any number of threads, trials and iterations and both benches:
    the workers pass the stages between the barriers together (`Together`) and the last barrier chose one of
    them (`OneUnique`), so that it alone initialises and destroys; the lock says who is in the critical section (`LockTrue`),
    so that the load and the store of the counter belong together; the counter is the
    cardinality of the set of increments made (`AllMade`, `EachCounted`), which is all of them when the workers are joined,
    or the total that made every worker stop (`TotalCounted`).
  * `RunsWhatWasAskedHolds` by `ChoiceInv`, for any command line and any table of matches: what is kept of a name behind a lock
    is whether it was compiled, whether one match is enough and whether it had one before (`NamesKnown`).
  * `ParsedAsWrittenHolds` by `ParseInv`, for any command line: the words before the next one are options and their values,
    and the variables are what these make of them (`Read`); an option and its value add one value, later than all before.
  * `StatsAgreeHolds` by `FiguresInv`, for any number of trials and any integer times: each lock that ran has the figures of its
    own times (`TimesOfTrial`), and these agree (`GenStatsAgree`).  The sorted times are given by ranks: the value at a place is one that has
    as many before it (`SortedByPlace`), so that a percentile lies between two neighbouring times and is no smaller than a lower one
    (`PercentileBetween`, `PercentilesAscend`), and the 50th one meets the median (`PercentilesMeet`); sums lie between the number of trials
    times the least and the greatest value (`SumBetween`).
  * `EachResultPrintedHolds` by `ResultInv` and `FiguresInv`: what `print_stats()` writes for a lock has the name of that lock and, as csv, the
    figures of each of its trials and of all; as text, with one trial, those of all its times, which are the times of
    that trial (`TimesOfOneTrial`).
  * `CpusAsAskedHolds`, for any number of cpus, threads and trials.  Without `prefer_hyper_threads` (`PhysicalFirstAsAsked`): the cpus
    that stand for their core are as many as the cores (`CoresAre`), and the n lowest cpus of a set are n (`FirstOf`).
    With it (`SiblingGroupsAsAsked`) by `GroupsInv`, an invariant of the loop over the cpus: what is taken consists of whole cores, is
    disjoint from the last group (the assertions of `lock-runner.c:127` and `:133`), and with what is left makes the number
    asked for; the hypothesis `SiblingsAreCores` says that the table of siblings lists the cpus of a core.  It holds for
    `8-conf.h`; for the table of `96-conf.h` the statement is false (see the deviations).  The threads are spread evenly by
    `PinInv`: what is left of a round was used once less often than the rest.
  * Loops over data are recursive functions.  What holds after each of their passes is proved by `Climb`: a set of numbers that has 0
    and with each number the next has them all, by the least counterexample.

The refinement theorems of `TicketLock`, `UserAutolock` and the queue locks assume that the null pointer is not the name of the lock.

Only model-checked:

* the liveness half of `ImplementsLock`, `NoStarvation`, `HolderRuns`, `RunnableRuns`, `BenchEnds` and `WalkEnds`
  (liveness under fairness is out of the prover's reach).

* `NoLostWakeup`, in `futex_autolock`, which is about a machine without store buffer.

Every other invariant that a run checks is also a theorem, under the hypotheses named above.

## Not modelled

* The stale values of caches and reordering other than TSO: the code targets x86-64.
* Several processors in `RunQueue`, group scheduling, weights, and the older
  versions of `pick_next_entity()` that are compiled out.  With `FAIR_GROUP_SCHED`,
  which the kernel configuration sets, `task_of()` is applied to group
  entities; the model has no groups.
* How much vruntime a held-back task gains (`issue.md`): `MAX_LAG` caps it.
* Descriptors and mappings of exited threads, which a process keeps until its end.
* Automatic disarming (patch 9 disables it), kernel statistics (counters nothing depends on), tests.
* The MCS lock, which is unfinished: `unlock()` wakes the next thread without writing its word
  (`mcs-lock-base.h:130`).  The futex variant of the CLH lock under `#if 0` (`clh-lock-base.h:198`).
* `builtin-alloc/`, which nothing includes and which does not compile; the glibc patches, which only
  let condition variables call interposed mutexes.
* The benchmark's classes over pthread and third-party locks: calls into libraries outside the repository.
* Wall-clock times, help texts and wording, standard deviations and geometric means, regular expressions.
* Percentiles in floating point: an index just below an integer moves the figure by a rounding error.
* The reuse of a page's frame while a mapping of it lives (`__auto_lock_release` frees it before the file goes): in `AutolockSetup` what one creation
  allocated is free only when all of it is.
* The assertions of `lock-runner.c:127` and `:133` (`GroupsInv` shows that they hold if the table of siblings is right).
* The other order of the two stores with which the compact ticket lock gives up its global lock, which "can safely reorder".
* More waiters than slots of the array lock; the backoff of the ticket lock, which only changes pauses.
* Reading `/proc`, file utilities, colours, timers, syscall stubs.

The map covers a small part of the lines of the repository, and must: 4000 lines are a table of no-op
instructions (`asm/nops.h`), several hundred each are generated topology tables, preprocessor
iteration macros, type aliases, printing of arguments and statistics, file and option-help utilities, and the
patches repeat context lines.  None of them keeps state that another part reads concurrently
or over time.

## Plan

1. Done: `LockSpec`; `AutolockPage`, `UserLockBase` and its proofs; `AutolockSetup`, `PinCache`
   and their proofs; `RunQueue`.
2. Done: the queue locks, user autolocks and stock locks over `QueueLock`; proofs of `TicketLock` and `UserAutolock`.
3. Done: the programs, `Interpose` with proofs, `LockBench`, `CpuSet`, `Driver`, `Stats`.
4. Done: `RunQueueProofs`, `QueueLocksProofs`, `ProgramsProofs`; `PinCacheProofs` with disturbances.
   Every safety property of the runs but `NoLostWakeup` is a theorem.
5. Left: several processors and groups in `RunQueue`.
