------------------------------ MODULE PinCache ------------------------------
(***************************************************************************)
(* The translation of watch_mem the kernel caches in auto_lock_ctx: before *)
(* a task leaves the processor through schedule() it pins the user page of *)
(* watch_mem (__auto_lock_cache_phys_addr), so that the scheduler can read *)
(* the lock word later without a page fault (__auto_lock_check_mem).       *)
(*                                                                         *)
(* One process.  A user page is the part of an address under the mask, so  *)
(* usr_virt_page_start and _mask are one field, small and huge pages look  *)
(* alike, and the kernel mapping of a frame is the frame.  kmap() cannot   *)
(* fail on x86-64, which makes done_unpin unreachable.  Stores to the      *)
(* context happen in program order.                                        *)
(***************************************************************************)
EXTENDS Integers, FiniteSets

CONSTANTS
  Tasks, UserPages, Frames,
  NULL,
  MAX_PINS,  \* pins a frame can have: its reference count is bounded
  Machines   \* the sets of disturbances that may come together

ASSUME PinCacheAssumption ==
  /\ IsFiniteSet(Tasks) /\ NULL \notin UserPages \cup Frames
  /\ MAX_PINS \in Nat
  /\ Machines \subseteq SUBSET {"preempt", "pin_sleeps", "pin_fails", "remaps"}

VARIABLES
  disturbed, \* the disturbances of this machine
  mmu,   \* the frame behind a user page
  pins,  \* pins of a frame
  watch, \* the page of watch_mem
  ctx,   \* auto_lock_ctx: the user page, kernel mapping and struct page of the cache
  pc,    \* where the task is in schedule()
  addr,  \* usr_virt_addr of the running __auto_lock_cache_phys_addr()
  page,  \* its struct page
  nest,  \* a schedule() made by a blocked pin is running, or has returned
  oncpu

cache == <<mmu, pins, watch, ctx, pc, addr, page, nest, oncpu>>

vars == <<disturbed, cache>>

PREEMPT == "preempt" \in disturbed        \* an interrupt may preempt the kernel, not only user code
PIN_SLEEPS == "pin_sleeps" \in disturbed  \* pin_user_pages_fast() may block, once in a schedule()
PIN_FAILS == "pin_fails" \in disturbed    \* ... or fail
REMAPS == "remaps" \in disturbed          \* the program unmaps lock memory nobody waits on and maps it anew

EmptyCtx == [start |-> NULL, kern |-> NULL, page |-> NULL]

Pcs == {"user", "pin", "st_start", "st_kern", "st_page", "switch", "out", "gone"}

TypeOK ==
  /\ disturbed \in Machines
  /\ mmu \in [UserPages -> Frames]
  /\ pins \in [Frames -> Int]
  /\ watch \in [Tasks -> UserPages \cup {NULL}]
  /\ ctx \in [Tasks -> [start : UserPages \cup {NULL}, kern : Frames \cup {NULL},
                        page : Frames \cup {NULL}]]
  /\ pc \in [Tasks -> Pcs]
  /\ addr \in [Tasks -> UserPages \cup {NULL}]
  /\ page \in [Tasks -> Frames \cup {NULL}]
  /\ nest \in [Tasks -> {"none", "inner", "resumed"}]
  /\ oncpu \in [Tasks -> BOOLEAN]

Init ==
  /\ disturbed \in Machines
  /\ mmu \in {m \in [UserPages -> Frames] : \A p, q \in UserPages : m[p] = m[q] => p = q}
  /\ pins = [f \in Frames |-> 0]
  /\ watch = [t \in Tasks |-> NULL]
  /\ ctx = [t \in Tasks |-> EmptyCtx]
  /\ pc = [t \in Tasks |-> "user"]
  /\ addr = [t \in Tasks |-> NULL]
  /\ page = [t \in Tasks |-> NULL]
  /\ nest = [t \in Tasks |-> "none"]
  /\ oncpu = [t \in Tasks |-> FALSE]

-----------------------------------------------------------------------------
At(t, from) == oncpu[t] /\ pc[t] = from
Goto(t, to) == pc' = [pc EXCEPT ![t] = to]

\* lock() writes watch_mem, NULL or the word of the lock.
SetWatchMem(t, p) ==
  /\ At(t, "user")
  /\ watch' = [watch EXCEPT ![t] = p]
  /\ UNCHANGED <<mmu, pins, ctx, pc, addr, page, nest, oncpu>>

\* Mutant: any mapping will do.
AnythingMapped(t, p) == ctx[t].start # NULL

\* __auto_lock_usr_page_is_mapped()
IsMapped(t, p) == ctx[t].start = p

\* __auto_lock_unpin_pages() forgets the address and the mapping, not the page.
Unpinned(c) == [start |-> NULL, kern |-> NULL, page |-> c.page]

\* schedule() calls auto_lock_cache_phys_addr(): nothing to do for a task that
\* does not wait or whose page is cached ...
ScheduleCached(t) ==
  /\ At(t, "user")
  /\ watch[t] = NULL \/ IsMapped(t, watch[t])
  /\ Goto(t, "switch")
  /\ UNCHANGED <<mmu, pins, watch, ctx, addr, page, nest, oncpu>>

\* Mutant: the old page stays pinned.
RepinWithoutUnpin(t) ==
  /\ At(t, "user")
  /\ watch[t] # NULL /\ ~IsMapped(t, watch[t])
  /\ addr' = [addr EXCEPT ![t] = watch[t]]
  /\ Goto(t, "pin")
  /\ UNCHANGED <<mmu, pins, watch, ctx, page, nest, oncpu>>

\* Mutant: the address goes into the context before there is anything to it.
PublishBeforePin(t) ==
  /\ At(t, "user")
  /\ watch[t] # NULL /\ ~IsMapped(t, watch[t])
  /\ ctx' = [ctx EXCEPT ![t] = [@ EXCEPT !.start = watch[t], !.kern = NULL]]
  /\ addr' = [addr EXCEPT ![t] = watch[t]]
  /\ IF ctx[t].kern # NULL
     THEN pins' = [pins EXCEPT ![ctx[t].page] = @ - 1]
     ELSE UNCHANGED pins
  /\ Goto(t, "pin")
  /\ UNCHANGED <<mmu, watch, page, nest, oncpu>>

\* ... otherwise it gives up the page it has and pins the new one.
ScheduleRepin(t) ==
  /\ At(t, "user")
  /\ watch[t] # NULL /\ ~IsMapped(t, watch[t])
  /\ addr' = [addr EXCEPT ![t] = watch[t]]
  /\ IF ctx[t].kern # NULL
     THEN /\ pins' = [pins EXCEPT ![ctx[t].page] = @ - 1]
          /\ ctx' = [ctx EXCEPT ![t] = Unpinned(@)]
     ELSE UNCHANGED <<pins, ctx>>
  /\ Goto(t, "pin")
  /\ UNCHANGED <<mmu, watch, page, nest, oncpu>>

PinSucceeds(t) ==
  /\ At(t, "pin") /\ pins[mmu[addr[t]]] < MAX_PINS
  /\ page' = [page EXCEPT ![t] = mmu[addr[t]]]
  /\ pins' = [pins EXCEPT ![mmu[addr[t]]] = @ + 1]
  /\ Goto(t, "st_start")
  /\ UNCHANGED <<mmu, watch, ctx, addr, nest, oncpu>>

\* Mutant: a failed pin leaves the task armed, and its address in the context.
PinFailureForgotten(t) ==
  /\ At(t, "pin") /\ (PIN_FAILS \/ pins[mmu[addr[t]]] >= MAX_PINS)
  /\ ctx' = [ctx EXCEPT ![t].start = addr[t]]
  /\ Goto(t, "switch")
  /\ UNCHANGED <<mmu, pins, watch, addr, page, nest, oncpu>>

\* done_dearm
PinFails(t) ==
  /\ At(t, "pin") /\ (PIN_FAILS \/ pins[mmu[addr[t]]] >= MAX_PINS)
  /\ watch' = [watch EXCEPT ![t] = NULL]
  /\ Goto(t, "switch")
  /\ UNCHANGED <<mmu, pins, ctx, addr, page, nest, oncpu>>

\* The pin blocks, in a schedule() that itself finds watch_mem not cached.
PinBlocks(t) ==
  /\ PIN_SLEEPS /\ At(t, "pin") /\ nest[t] = "none"
  /\ nest' = [nest EXCEPT ![t] = "inner"]
  /\ UNCHANGED <<mmu, pins, watch, ctx, pc, addr, page, oncpu>>

-----------------------------------------------------------------------------
\* "Setting context": one store after the other.
StoreStart(t) ==
  /\ At(t, "st_start")
  /\ ctx' = [ctx EXCEPT ![t].start = addr[t]]
  /\ Goto(t, "st_kern")
  /\ UNCHANGED <<mmu, pins, watch, addr, page, nest, oncpu>>

StoreKern(t) ==
  /\ At(t, "st_kern")
  /\ ctx' = [ctx EXCEPT ![t].kern = page[t]]
  /\ Goto(t, "st_page")
  /\ UNCHANGED <<mmu, pins, watch, addr, page, nest, oncpu>>

StorePage(t) ==
  /\ At(t, "st_page")
  /\ ctx' = [ctx EXCEPT ![t].page = page[t]]
  /\ page' = [page EXCEPT ![t] = NULL]
  /\ Goto(t, "switch")
  /\ UNCHANGED <<mmu, pins, watch, addr, nest, oncpu>>

-----------------------------------------------------------------------------
\* __schedule(): another task gets the processor.
SwitchOut(t) ==
  /\ At(t, "switch")
  /\ Goto(t, "out")
  /\ oncpu' = [oncpu EXCEPT ![t] = FALSE]
  /\ UNCHANGED <<mmu, pins, watch, ctx, addr, page, nest>>

\* An interrupt, or a cond_resched() on the way to the page, takes the processor
\* away without a call of schedule().
Preempt(t) ==
  /\ oncpu[t] /\ (PREEMPT \/ pc[t] \in {"user", "pin"})
  /\ oncpu' = [oncpu EXCEPT ![t] = FALSE]
  /\ UNCHANGED <<mmu, pins, watch, ctx, pc, addr, page, nest>>

\* The task is picked, whatever the scheduler thinks of it, and goes on where it
\* was: in user code, or in the pin whose schedule() now returns.
SwitchIn(t) ==
  /\ ~oncpu[t] /\ pc[t] # "gone"
  /\ oncpu' = [oncpu EXCEPT ![t] = TRUE]
  /\ IF pc[t] = "out"
     THEN IF nest[t] = "inner"
          THEN Goto(t, "pin") /\ nest' = [nest EXCEPT ![t] = "resumed"] /\ UNCHANGED addr
          ELSE /\ Goto(t, "user")
               /\ nest' = [nest EXCEPT ![t] = "none"]
               /\ addr' = [addr EXCEPT ![t] = NULL]
     ELSE UNCHANGED <<pc, nest, addr>>
  /\ UNCHANGED <<mmu, pins, watch, ctx, page>>

\* __auto_lock_release() of an exited task: __auto_lock_check_unpin_pages() goes
\* by the page.
Release(t) ==
  /\ At(t, "user")
  /\ IF ctx[t].page # NULL
     THEN pins' = [pins EXCEPT ![ctx[t].page] = @ - 1]
     ELSE UNCHANGED pins
  /\ ctx' = [ctx EXCEPT ![t] = EmptyCtx]
  /\ watch' = [watch EXCEPT ![t] = NULL]
  /\ oncpu' = [oncpu EXCEPT ![t] = FALSE]
  /\ Goto(t, "gone")
  /\ UNCHANGED <<mmu, addr, page, nest>>

\* munmap() and mmap() of the memory of locks nobody uses.
Remap(p, f) ==
  /\ REMAPS
  /\ \A t \in Tasks : watch[t] # p /\ (pc[t] \in {"pin", "st_start"} => addr[t] # p)
  /\ pins[f] = 0 /\ \A q \in UserPages : mmu[q] # f
  /\ mmu' = [mmu EXCEPT ![p] = f]
  /\ UNCHANGED <<pins, watch, ctx, pc, addr, page, nest, oncpu>>

Step ==
  \/ \E t \in Tasks :
       \/ \E p \in UserPages \cup {NULL} : SetWatchMem(t, p)
       \/ ScheduleCached(t) \/ ScheduleRepin(t)
       \/ PinSucceeds(t) \/ PinFails(t) \/ PinBlocks(t)
       \/ StoreStart(t) \/ StoreKern(t) \/ StorePage(t)
       \/ SwitchOut(t) \/ Preempt(t) \/ SwitchIn(t) \/ Release(t)
  \/ \E p \in UserPages, f \in Frames : Remap(p, f)

Next == Step /\ UNCHANGED disturbed

Spec == Init /\ [][Next]_vars

-----------------------------------------------------------------------------
\* The scheduler looks at tasks that are not running; of these it reads the word
\* of the ones whose page is cached.
Read(t) == ~oncpu[t] /\ watch[t] # NULL /\ IsMapped(t, watch[t])

\* "User virtual address and kernel virtual address not synced!": the BUG() of
\* __auto_lock_check_mem() is not reached, wherever the task lost the processor.
AddressesSynced == \A t \in Tasks : Read(t) => ctx[t].kern # NULL /\ ctx[t].page # NULL

\* "We already have this mapping": the word the scheduler reads is in the frame
\* behind the page of the word the task waits for.
TranslationFresh == \A t \in Tasks : Read(t) => ctx[t].kern = mmu[watch[t]]

\* The scheduler reads the word the task waits for as long as its memory stays
\* mapped; and the frame is pinned, whatever other tasks unpin and the program
\* unmaps, as long as pins neither block nor fail.
ReadsTheWatchedWord ==
  /\ ~REMAPS => TranslationFresh
  /\ ~PIN_SLEEPS /\ ~PIN_FAILS => \A t \in Tasks : Read(t) => pins[ctx[t].kern] > 0

\* As long as pins neither block nor fail, every pin belongs to a context, or to
\* a task about to store it there: no page stays pinned for nobody and none is
\* unpinned twice.
Pinned(t, f) == IF pc[t] \in {"st_start", "st_kern"} THEN page[t] = f ELSE ctx[t].kern = f

PinsAccounted ==
  ~PIN_SLEEPS /\ ~PIN_FAILS =>
    \A f \in Frames : pins[f] = Cardinality({t \in Tasks : Pinned(t, f)})

\* "kern_virt_page and page struct unsynch!": outside the cache code the context
\* has a page exactly when it has a mapping, which is what the release goes by.
PageSynced ==
  \A t \in Tasks : pc[t] = "user" => (ctx[t].kern = NULL <=> ctx[t].page = NULL)

\* Releasing the kernel state is "automatically done on process end".
NothingPinnedAtEnd ==
  (\A t \in Tasks : pc[t] = "gone") => \A f \in Frames : pins[f] = 0
=============================================================================
