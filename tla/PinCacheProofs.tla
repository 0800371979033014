--------------------------- MODULE PinCacheProofs ---------------------------
(***************************************************************************)
(* When the cached translation of PinCache can be trusted, for any number  *)
(* of tasks, pages and frames.                                             *)
(***************************************************************************)
EXTENDS PinCache, FiniteSetTheorems, TLAPS

Storing == {"st_start", "st_kern", "st_page"}

\* The local variables of __auto_lock_cache_phys_addr() have values where they are
\* used, and a context with an address has a mapping and a page as well, but for
\* the time between the stores.
Shape ==
  \A t \in Tasks :
    /\ pc[t] \in {"pin", "st_start"} \/ nest[t] = "inner" => addr[t] \in UserPages
    /\ pc[t] \in Storing => page[t] \in Frames
    /\ pc[t] \notin {"st_kern", "st_page"} /\ ctx[t].start # NULL =>
         ctx[t].kern # NULL /\ ctx[t].page # NULL
    /\ pc[t] = "st_page" => ctx[t].kern # NULL

LEMMA ShapeInit == Init => TypeOK /\ Shape
  BY PinCacheAssumption DEF Init, TypeOK, Shape, EmptyCtx, Pcs, Storing

LEMMA ShapeNext == TypeOK /\ Shape /\ [Next]_vars => TypeOK' /\ Shape'
<1> SUFFICES ASSUME TypeOK, Shape, [Next]_vars PROVE TypeOK' /\ Shape'
  OBVIOUS
<1>0. UNCHANGED disturbed
  BY DEF Next, vars
<1> USE <1>0, PinCacheAssumption DEF TypeOK, Shape, Pcs, Storing, At, Goto
<1>1. ASSUME NEW t \in Tasks, NEW p \in UserPages \cup {NULL}, SetWatchMem(t, p)
      PROVE TypeOK' /\ Shape'
  BY <1>1 DEF SetWatchMem
<1>2. ASSUME NEW t \in Tasks, ScheduleCached(t) PROVE TypeOK' /\ Shape'
  BY <1>2 DEF ScheduleCached
<1>3. ASSUME NEW t \in Tasks, ScheduleRepin(t) PROVE TypeOK' /\ Shape'
  <2>1. CASE ctx[t].kern = NULL
    BY <1>3, <2>1 DEF ScheduleRepin
  <2>2. CASE ctx[t].kern # NULL
    <3>1. ctx' = [ctx EXCEPT ![t] = [start |-> NULL, kern |-> NULL, page |-> ctx[t].page]]
      BY <1>3, <2>2 DEF ScheduleRepin, Unpinned
    <3>2. pins' \in [Frames -> Int] /\ watch' = watch /\ pc' = [pc EXCEPT ![t] = "pin"]
          /\ addr' = [addr EXCEPT ![t] = watch[t]] /\ UNCHANGED <<mmu, page, nest, oncpu>>
          /\ watch[t] \in UserPages
      BY <1>3, <2>2 DEF ScheduleRepin
    <3>3. TypeOK'
      BY <3>1, <3>2
    <3>4. Shape'
      BY <3>1, <3>2
    <3> QED
      BY <3>3, <3>4
  <2> QED
    BY <2>1, <2>2
<1>4. ASSUME NEW t \in Tasks, PinSucceeds(t) PROVE TypeOK' /\ Shape'
  BY <1>4 DEF PinSucceeds
<1>5. ASSUME NEW t \in Tasks, PinFails(t) PROVE TypeOK' /\ Shape'
  BY <1>5 DEF PinFails
<1>6. ASSUME NEW t \in Tasks, PinBlocks(t) PROVE TypeOK' /\ Shape'
  BY <1>6 DEF PinBlocks
<1>7. ASSUME NEW t \in Tasks, StoreStart(t) PROVE TypeOK' /\ Shape'
  <2>1. /\ pc[t] = "st_start" /\ addr[t] \in UserPages /\ pc' = [pc EXCEPT ![t] = "st_kern"]
        /\ ctx' = [ctx EXCEPT ![t] = [start |-> addr[t], kern |-> ctx[t].kern, page |-> ctx[t].page]]
        /\ UNCHANGED <<mmu, pins, watch, addr, page, nest, oncpu>>
    <3>1. /\ pc[t] = "st_start" /\ pc' = [pc EXCEPT ![t] = "st_kern"] /\ ctx' = [ctx EXCEPT ![t].start = addr[t]]
          /\ UNCHANGED <<mmu, pins, watch, addr, page, nest, oncpu>>
      BY <1>7, Zenon DEF StoreStart
    <3>2. addr[t] \in UserPages
      BY <3>1
    <3>3. [ctx[t] EXCEPT !.start = addr[t]] = [start |-> addr[t], kern |-> ctx[t].kern, page |-> ctx[t].page]
      <4>1. ctx[t] \in [start : UserPages \cup {NULL}, kern : Frames \cup {NULL}, page : Frames \cup {NULL}]
        OBVIOUS
      <4> QED
        BY <4>1
    <3> QED
      BY <3>1, <3>2, <3>3, Zenon
  <2>2. TypeOK'
    BY <2>1
  <2>3. Shape'
    BY <2>1
  <2> QED
    BY <2>2, <2>3
<1>8. ASSUME NEW t \in Tasks, StoreKern(t) PROVE TypeOK' /\ Shape'
  <2>1. /\ pc[t] = "st_kern" /\ page[t] \in Frames /\ pc' = [pc EXCEPT ![t] = "st_page"]
        /\ ctx' = [ctx EXCEPT ![t] = [start |-> ctx[t].start, kern |-> page[t], page |-> ctx[t].page]]
        /\ UNCHANGED <<mmu, pins, watch, addr, page, nest, oncpu>>
    <3>1. /\ pc[t] = "st_kern" /\ pc' = [pc EXCEPT ![t] = "st_page"] /\ ctx' = [ctx EXCEPT ![t].kern = page[t]]
          /\ UNCHANGED <<mmu, pins, watch, addr, page, nest, oncpu>>
      BY <1>8, Zenon DEF StoreKern
    <3>2. page[t] \in Frames
      BY <3>1
    <3>3. [ctx[t] EXCEPT !.kern = page[t]] = [start |-> ctx[t].start, kern |-> page[t], page |-> ctx[t].page]
      <4>1. ctx[t] \in [start : UserPages \cup {NULL}, kern : Frames \cup {NULL}, page : Frames \cup {NULL}]
        OBVIOUS
      <4> QED
        BY <4>1
    <3> QED
      BY <3>1, <3>2, <3>3, Zenon
  <2>2. TypeOK'
    BY <2>1
  <2>3. Shape'
    BY <2>1
  <2> QED
    BY <2>2, <2>3
<1>9. ASSUME NEW t \in Tasks, StorePage(t) PROVE TypeOK' /\ Shape'
  BY <1>9 DEF StorePage
<1>10. ASSUME NEW t \in Tasks, SwitchOut(t) PROVE TypeOK' /\ Shape'
  BY <1>10 DEF SwitchOut
<1>11. ASSUME NEW t \in Tasks, Preempt(t) PROVE TypeOK' /\ Shape'
  BY <1>11 DEF Preempt
<1>12. ASSUME NEW t \in Tasks, SwitchIn(t) PROVE TypeOK' /\ Shape'
  <2>1. CASE pc[t] = "out" /\ nest[t] = "inner"
    BY <1>12, <2>1 DEF SwitchIn
  <2>2. CASE pc[t] = "out" /\ nest[t] # "inner"
    <3>1. /\ oncpu' = [oncpu EXCEPT ![t] = TRUE] /\ pc' = [pc EXCEPT ![t] = "user"]
          /\ nest' = [nest EXCEPT ![t] = "none"] /\ addr' = [addr EXCEPT ![t] = NULL]
          /\ UNCHANGED <<mmu, pins, watch, ctx, page>>
      BY <1>12, <2>2 DEF SwitchIn
    <3>2. TypeOK'
      BY <3>1
    <3>3. Shape'
      BY <2>2, <3>1
    <3> QED
      BY <3>2, <3>3
  <2>3. CASE pc[t] # "out"
    BY <1>12, <2>3 DEF SwitchIn
  <2> QED
    BY <2>1, <2>2, <2>3
<1>13. ASSUME NEW t \in Tasks, Release(t) PROVE TypeOK' /\ Shape'
  BY <1>13 DEF Release, EmptyCtx
<1>14. ASSUME NEW p \in UserPages, NEW f \in Frames, Remap(p, f) PROVE TypeOK' /\ Shape'
  BY <1>14 DEF Remap
<1>15. CASE UNCHANGED vars
  BY <1>15 DEF vars, cache
<1> QED
  BY <1>1, <1>2, <1>3, <1>4, <1>5, <1>6, <1>7, <1>8, <1>9, <1>10, <1>11, <1>12, <1>13,
     <1>14, <1>15 DEF Next, Step

LEMMA ShapeHolds == Spec => [](TypeOK /\ Shape)
<1> QED
  BY ShapeInit, ShapeNext, PTL DEF Spec

\* The variables of PinCache keep their types, whatever fails, blocks or preempts.
THEOREM PinCacheTyped == Spec => []TypeOK
  BY ShapeHolds, PTL

-----------------------------------------------------------------------------
\* Without kernel preemption a task does not lose the processor between the stores.
StoresRun == \A t \in Tasks : pc[t] \in Storing => oncpu[t]

LEMMA StoresRunNext == ~PREEMPT /\ TypeOK /\ StoresRun /\ [Next]_vars => StoresRun'
<1> SUFFICES ASSUME ~PREEMPT, TypeOK, StoresRun, [Next]_vars PROVE StoresRun'
  OBVIOUS
<1> USE DEF TypeOK, StoresRun, Storing, At, Goto
<1>1. ASSUME NEW t \in Tasks, NEW p \in UserPages \cup {NULL}, SetWatchMem(t, p)
      PROVE StoresRun'
  BY <1>1 DEF SetWatchMem
<1>2. ASSUME NEW t \in Tasks, ScheduleCached(t) \/ ScheduleRepin(t) \/ PinSucceeds(t)
                               \/ PinFails(t) \/ PinBlocks(t)
      PROVE StoresRun'
  BY <1>2 DEF ScheduleCached, ScheduleRepin, PinSucceeds, PinFails, PinBlocks
<1>3. ASSUME NEW t \in Tasks, StoreStart(t) \/ StoreKern(t) \/ StorePage(t) PROVE StoresRun'
  BY <1>3 DEF StoreStart, StoreKern, StorePage
<1>4. ASSUME NEW t \in Tasks, SwitchOut(t) \/ Preempt(t) \/ SwitchIn(t) \/ Release(t)
      PROVE StoresRun'
  BY <1>4 DEF SwitchOut, Preempt, SwitchIn, Release
<1>5. ASSUME NEW p \in UserPages, NEW f \in Frames, Remap(p, f) PROVE StoresRun'
  BY <1>5 DEF Remap
<1>6. CASE UNCHANGED vars
  BY <1>6 DEF vars, cache
<1> QED
  BY <1>1, <1>2, <1>3, <1>4, <1>5, <1>6 DEF Next, Step

\* A kernel that preempts only user code.
OnlyUserPreemptible == \A m \in Machines : "preempt" \notin m

LEMMA StoresRunHolds ==
  ASSUME OnlyUserPreemptible PROVE Spec => []StoresRun
<1>1. Init => StoresRun
  BY DEF Init, StoresRun, Storing
<1>2. TypeOK => ~PREEMPT
  BY DEF TypeOK, PREEMPT, OnlyUserPreemptible
<1>3. TypeOK /\ StoresRun /\ [Next]_vars => StoresRun'
  BY <1>2, StoresRunNext
<1> QED
  BY <1>1, <1>3, ShapeHolds, PTL DEF Spec

\* The BUG() of __auto_lock_check_mem() is out of reach on a kernel that preempts
\* only user code, even when pins fail or block and memory is mapped anew.
THEOREM AddressesSyncedHolds ==
  ASSUME OnlyUserPreemptible PROVE Spec => []AddressesSynced
<1>1. Shape /\ StoresRun => AddressesSynced
  BY PinCacheAssumption DEF Shape, StoresRun, Storing, AddressesSynced, Read, IsMapped
<1> QED
  BY <1>1, StoresRunHolds, ShapeHolds, PTL

-----------------------------------------------------------------------------
\* While memory stays mapped, what is cached of a page is the frame behind it, and
\* so is what a call is about to store, also when it blocked and another call
\* for the same page has come before it.
Translated ==
  \A t \in Tasks :
    /\ ctx[t].kern # NULL /\ ctx[t].start # NULL => ctx[t].kern = mmu[ctx[t].start]
    /\ (pc[t] \in {"pin", "st_start", "st_kern"} \/ nest[t] = "inner") /\ ctx[t].kern # NULL =>
         ctx[t].kern = mmu[addr[t]]
    /\ pc[t] \in Storing => page[t] = mmu[addr[t]]
    /\ pc[t] \in {"st_kern", "st_page"} => ctx[t].start = addr[t]

LEMMA TranslatedNext ==
  ASSUME ~REMAPS, TypeOK, Shape, Translated, [Next]_vars
  PROVE  Translated'
<1> USE PinCacheAssumption DEF TypeOK, Shape, Translated, Storing, At, Goto
<1>1. ASSUME NEW t \in Tasks, NEW p \in UserPages \cup {NULL}, SetWatchMem(t, p)
      PROVE Translated'
  BY <1>1 DEF SetWatchMem
<1>2. ASSUME NEW t \in Tasks, ScheduleCached(t) PROVE Translated'
  BY <1>2 DEF ScheduleCached
<1>3. ASSUME NEW t \in Tasks, ScheduleRepin(t) PROVE Translated'
  <2>1. CASE ctx[t].kern = NULL
    BY <1>3, <2>1 DEF ScheduleRepin
  <2>2. CASE ctx[t].kern # NULL
    <3>1. /\ ctx' = [ctx EXCEPT ![t] = [start |-> NULL, kern |-> NULL, page |-> ctx[t].page]]
          /\ pc' = [pc EXCEPT ![t] = "pin"] /\ UNCHANGED <<mmu, page, nest>>
          /\ \A u \in Tasks \ {t} : addr'[u] = addr[u]
      BY <1>3, <2>2 DEF ScheduleRepin, Unpinned
    <3> QED
      BY <3>1
  <2> QED
    BY <2>1, <2>2
<1>4. ASSUME NEW t \in Tasks, PinSucceeds(t) PROVE Translated'
  BY <1>4 DEF PinSucceeds
<1>5. ASSUME NEW t \in Tasks, PinFails(t) PROVE Translated'
  BY <1>5 DEF PinFails
<1>6. ASSUME NEW t \in Tasks, PinBlocks(t) PROVE Translated'
  BY <1>6 DEF PinBlocks
<1>7. ASSUME NEW t \in Tasks, StoreStart(t) PROVE Translated'
  BY <1>7 DEF StoreStart
<1>8. ASSUME NEW t \in Tasks, StoreKern(t) PROVE Translated'
  BY <1>8 DEF StoreKern
<1>9. ASSUME NEW t \in Tasks, StorePage(t) PROVE Translated'
  BY <1>9 DEF StorePage
<1>10. ASSUME NEW t \in Tasks, SwitchOut(t) PROVE Translated'
  BY <1>10 DEF SwitchOut
<1>11. ASSUME NEW t \in Tasks, Preempt(t) PROVE Translated'
  BY <1>11 DEF Preempt
<1>12. ASSUME NEW t \in Tasks, SwitchIn(t) PROVE Translated'
  <2>1. CASE pc[t] = "out"
    BY <1>12, <2>1 DEF SwitchIn
  <2>2. CASE pc[t] # "out"
    BY <1>12, <2>2 DEF SwitchIn
  <2> QED
    BY <2>1, <2>2
<1>13. ASSUME NEW t \in Tasks, Release(t) PROVE Translated'
  BY <1>13 DEF Release, EmptyCtx
<1>14. ASSUME NEW p \in UserPages, NEW f \in Frames, Remap(p, f) PROVE Translated'
  BY <1>14 DEF Remap
<1>15. CASE UNCHANGED vars
  BY <1>15 DEF vars, cache
<1> QED
  BY <1>1, <1>2, <1>3, <1>4, <1>5, <1>6, <1>7, <1>8, <1>9, <1>10, <1>11, <1>12, <1>13,
     <1>14, <1>15 DEF Next, Step

-----------------------------------------------------------------------------
\* What the code takes for granted: pins neither fail nor block.
Faultless == ~PIN_SLEEPS /\ ~PIN_FAILS

\* A frame has room for a pin of every task.
RoomForPins == Cardinality(Tasks) <= MAX_PINS

\* The context has no mapping while its page is replaced, and otherwise its
\* mapping and its page belong together.
Cached ==
  \A t \in Tasks :
    /\ nest[t] # "inner"
    /\ pc[t] \in {"pin", "st_start", "st_kern"} => ctx[t].kern = NULL
    /\ pc[t] \notin {"pin"} \cup Storing => ctx[t].kern = ctx[t].page
    /\ pc[t] = "st_page" => ctx[t].kern = page[t]

Pinners(f) == {t \in Tasks : Pinned(t, f)}
Counted == \A f \in Frames : pins[f] = Cardinality(Pinners(f))

LEMMA PinnersFinite ==
  ASSUME NEW f PROVE IsFiniteSet(Pinners(f)) /\ Cardinality(Pinners(f)) \in Nat
<1>1. IsFiniteSet(Pinners(f))
  BY PinCacheAssumption, FS_Subset DEF Pinners
<1> QED
  BY <1>1, FS_CardinalityType

\* A pin of every other task leaves room for one more, so no pin fails.
LEMMA NoPinFails ==
  ASSUME RoomForPins, Faultless, TypeOK, Shape, Cached, Counted, NEW t \in Tasks
  PROVE  ~PinFails(t)
<1> SUFFICES ASSUME At(t, "pin"), NEW f \in Frames, f = mmu[addr[t]]
             PROVE  ~(pins[f] >= MAX_PINS)
  BY DEF PinFails, Faultless, TypeOK, Shape, At
<1>1. IsFiniteSet(Tasks \ {t}) /\ Cardinality(Tasks \ {t}) = Cardinality(Tasks) - 1
  BY PinCacheAssumption, FS_RemoveElement
<1>2. Pinners(f) \in SUBSET (Tasks \ {t})
  BY PinCacheAssumption DEF Pinners, Pinned, Cached, At
<1>3. Cardinality(Pinners(f)) <= Cardinality(Tasks) - 1
  BY <1>1, <1>2, FS_Subset
<1>4. pins[f] = Cardinality(Pinners(f))
  BY DEF Counted
<1>5. Cardinality(Tasks) \in Nat
  BY PinCacheAssumption, FS_CardinalityType
<1> QED
  BY <1>3, <1>4, <1>5, PinnersFinite, PinCacheAssumption DEF RoomForPins

-----------------------------------------------------------------------------
LEMMA CachedInit == Init => Cached
  BY DEF Init, Cached, EmptyCtx, Storing

LEMMA CachedNext ==
  ASSUME RoomForPins, Faultless, TypeOK, Shape, Cached, Counted, [Next]_vars
  PROVE  Cached'
<1> USE PinCacheAssumption DEF TypeOK, Shape, Cached, Storing, At, Goto
<1>1. ASSUME NEW t \in Tasks, NEW p \in UserPages \cup {NULL}, SetWatchMem(t, p)
      PROVE Cached'
  BY <1>1 DEF SetWatchMem
<1>2. ASSUME NEW t \in Tasks, ScheduleCached(t) PROVE Cached'
  BY <1>2 DEF ScheduleCached
<1>3. ASSUME NEW t \in Tasks, ScheduleRepin(t) PROVE Cached'
  <2>1. CASE ctx[t].kern = NULL
    BY <1>3, <2>1 DEF ScheduleRepin
  <2>2. CASE ctx[t].kern # NULL
    <3>1. /\ ctx' = [ctx EXCEPT ![t] = [start |-> NULL, kern |-> NULL, page |-> ctx[t].page]]
          /\ pc' = [pc EXCEPT ![t] = "pin"] /\ UNCHANGED <<mmu, page, nest>>
          /\ \A u \in Tasks \ {t} : addr'[u] = addr[u]
      BY <1>3, <2>2 DEF ScheduleRepin, Unpinned
    <3> QED
      BY <3>1
  <2> QED
    BY <2>1, <2>2
<1>4. ASSUME NEW t \in Tasks, PinSucceeds(t) PROVE Cached'
  BY <1>4 DEF PinSucceeds
<1>5. ASSUME NEW t \in Tasks, PinFails(t) PROVE Cached'
  BY <1>5, NoPinFails
<1>6. ASSUME NEW t \in Tasks, PinBlocks(t) PROVE Cached'
  BY <1>6 DEF PinBlocks, Faultless
<1>7. ASSUME NEW t \in Tasks, StoreStart(t) PROVE Cached'
  BY <1>7 DEF StoreStart
<1>8. ASSUME NEW t \in Tasks, StoreKern(t) PROVE Cached'
  BY <1>8 DEF StoreKern
<1>9. ASSUME NEW t \in Tasks, StorePage(t) PROVE Cached'
  BY <1>9 DEF StorePage
<1>10. ASSUME NEW t \in Tasks, SwitchOut(t) PROVE Cached'
  BY <1>10 DEF SwitchOut
<1>11. ASSUME NEW t \in Tasks, Preempt(t) PROVE Cached'
  BY <1>11 DEF Preempt
<1>12. ASSUME NEW t \in Tasks, SwitchIn(t) PROVE Cached'
  <2>1. CASE pc[t] = "out"
    BY <1>12, <2>1 DEF SwitchIn
  <2>2. CASE pc[t] # "out"
    BY <1>12, <2>2 DEF SwitchIn
  <2> QED
    BY <2>1, <2>2
<1>13. ASSUME NEW t \in Tasks, Release(t) PROVE Cached'
  BY <1>13 DEF Release, EmptyCtx
<1>14. ASSUME NEW p \in UserPages, NEW f \in Frames, Remap(p, f) PROVE Cached'
  BY <1>14 DEF Remap
<1>15. CASE UNCHANGED vars
  BY <1>15 DEF vars, cache
<1> QED
  BY <1>1, <1>2, <1>3, <1>4, <1>5, <1>6, <1>7, <1>8, <1>9, <1>10, <1>11, <1>12, <1>13,
     <1>14, <1>15 DEF Next, Step

-----------------------------------------------------------------------------
\* Steps that leave the pins alone and nobody's claim to one different.
LEMMA UnpinnedStep ==
  ASSUME Counted, UNCHANGED pins,
         \A u \in Tasks, f \in Frames : Pinned(u, f)' <=> Pinned(u, f)
  PROVE  Counted'
<1>1. \A f \in Frames : Pinners(f)' = Pinners(f)
  BY DEF Pinners
<1> QED
  BY <1>1 DEF Counted

\* A pin and the claim to it come together ...
LEMMA PinStep ==
  ASSUME Counted, TypeOK, NEW t \in Tasks, NEW g \in Frames,
         pins' = [pins EXCEPT ![g] = @ + 1],
         \A u \in Tasks \ {t}, f \in Frames : Pinned(u, f)' <=> Pinned(u, f),
         \A f \in Frames : ~Pinned(t, f) /\ (Pinned(t, f)' <=> f = g)
  PROVE  Counted'
<1> SUFFICES ASSUME NEW f \in Frames PROVE pins'[f] = Cardinality(Pinners(f)')
  BY DEF Counted
<1>1. pins[f] = Cardinality(Pinners(f))
  BY DEF Counted
<1>2. CASE f = g
  <2>1. t \notin Pinners(f) /\ Pinners(f)' = Pinners(f) \cup {t}
    BY <1>2 DEF Pinners
  <2>2. Cardinality(Pinners(f)') = Cardinality(Pinners(f)) + 1
    BY <2>1, PinnersFinite, FS_AddElement
  <2> QED
    BY <1>1, <1>2, <2>2 DEF TypeOK
<1>3. CASE f # g
  <2>1. Pinners(f)' = Pinners(f)
    BY <1>3 DEF Pinners
  <2> QED
    BY <1>1, <1>3, <2>1 DEF TypeOK
<1> QED
  BY <1>2, <1>3

\* ... and go together.
LEMMA UnpinStep ==
  ASSUME Counted, TypeOK, NEW t \in Tasks, NEW g \in Frames,
         pins' = [pins EXCEPT ![g] = @ - 1],
         \A u \in Tasks \ {t}, f \in Frames : Pinned(u, f)' <=> Pinned(u, f),
         \A f \in Frames : ~(Pinned(t, f)') /\ (Pinned(t, f) <=> f = g)
  PROVE  Counted'
<1> SUFFICES ASSUME NEW f \in Frames PROVE pins'[f] = Cardinality(Pinners(f)')
  BY DEF Counted
<1>1. pins[f] = Cardinality(Pinners(f))
  BY DEF Counted
<1>2. CASE f = g
  <2>1. t \in Pinners(f) /\ Pinners(f)' = Pinners(f) \ {t}
    BY <1>2 DEF Pinners
  <2>2. Cardinality(Pinners(f)') = Cardinality(Pinners(f)) - 1
    BY <2>1, PinnersFinite, FS_RemoveElement
  <2> QED
    BY <1>1, <1>2, <2>2 DEF TypeOK
<1>3. CASE f # g
  <2>1. Pinners(f)' = Pinners(f)
    BY <1>3 DEF Pinners
  <2> QED
    BY <1>1, <1>3, <2>1 DEF TypeOK
<1> QED
  BY <1>2, <1>3

LEMMA PinsInit == Init => Counted
<1> SUFFICES ASSUME Init, NEW f \in Frames PROVE pins[f] = Cardinality(Pinners(f))
  BY DEF Counted
<1>1. Pinners(f) = {}
  BY PinCacheAssumption DEF Init, Pinners, Pinned, EmptyCtx
<1> QED
  BY <1>1, FS_EmptySet DEF Init

LEMMA PinsNext ==
  ASSUME RoomForPins, Faultless, TypeOK, Shape, Cached, Counted, [Next]_vars
  PROVE  Counted'
<1> USE DEF At, Goto
<1>1. ASSUME NEW t \in Tasks, NEW p \in UserPages \cup {NULL}, SetWatchMem(t, p)
      PROVE Counted'
  BY <1>1, UnpinnedStep DEF SetWatchMem, Pinned
<1>2. ASSUME NEW t \in Tasks, ScheduleCached(t) \/ SwitchOut(t) PROVE Counted'
  <2>1. UNCHANGED <<pins, ctx, page>> /\ pc[t] \in {"user", "switch"}
        /\ pc'[t] \in {"switch", "out"} /\ \A u \in Tasks \ {t} : pc'[u] = pc[u]
    BY <1>2 DEF ScheduleCached, SwitchOut, TypeOK
  <2> QED
    BY <2>1, UnpinnedStep DEF Pinned
<1>3. ASSUME NEW t \in Tasks, ScheduleRepin(t) PROVE Counted'
  <2>1. CASE ctx[t].kern = NULL
    <3>1. UNCHANGED <<pins, ctx, page>> /\ pc[t] = "user" /\ pc' = [pc EXCEPT ![t] = "pin"]
      BY <1>3, <2>1 DEF ScheduleRepin
    <3>2. \A u \in Tasks, f \in Frames : Pinned(u, f)' <=> Pinned(u, f)
      BY <3>1 DEF Pinned, TypeOK
    <3> QED
      BY <3>1, <3>2, UnpinnedStep
  <2>2. CASE ctx[t].kern # NULL
    <3>1. /\ ctx' = [ctx EXCEPT ![t] = [start |-> NULL, kern |-> NULL, page |-> ctx[t].page]]
          /\ pc[t] = "user" /\ pc' = [pc EXCEPT ![t] = "pin"] /\ UNCHANGED page
          /\ pins' = [pins EXCEPT ![ctx[t].page] = @ - 1]
      BY <1>3, <2>2 DEF ScheduleRepin, Unpinned
    <3>2. ctx[t].kern = ctx[t].page /\ ctx[t].page \in Frames
      BY <2>2, <3>1 DEF Cached, TypeOK, Storing
    <3>3. \A u \in Tasks \ {t}, f \in Frames : Pinned(u, f)' <=> Pinned(u, f)
      BY <3>1 DEF Pinned, TypeOK
    <3>4. \A f \in Frames : ~(Pinned(t, f)') /\ (Pinned(t, f) <=> f = ctx[t].page)
      BY <3>1, <3>2, PinCacheAssumption DEF Pinned, TypeOK
    <3> QED
      BY <3>1, <3>2, <3>3, <3>4, UnpinStep
  <2> QED
    BY <2>1, <2>2
<1>4. ASSUME NEW t \in Tasks, PinSucceeds(t) PROVE Counted'
  <2> DEFINE g == mmu[addr[t]]
  <2>1. /\ UNCHANGED ctx /\ pc[t] = "pin" /\ pc' = [pc EXCEPT ![t] = "st_start"]
        /\ page' = [page EXCEPT ![t] = g] /\ pins' = [pins EXCEPT ![g] = @ + 1]
    BY <1>4 DEF PinSucceeds
  <2>2. g \in Frames
    BY <2>1 DEF Shape, TypeOK
  <2>3. \A u \in Tasks \ {t}, f \in Frames : Pinned(u, f)' <=> Pinned(u, f)
    BY <2>1 DEF Pinned, TypeOK
  <2>4. \A f \in Frames : ~Pinned(t, f) /\ (Pinned(t, f)' <=> f = g)
    BY <2>1, PinCacheAssumption DEF Pinned, TypeOK, Cached
  <2> HIDE DEF g
  <2> QED
    BY <2>1, <2>2, <2>3, <2>4, PinStep
<1>5. ASSUME NEW t \in Tasks, PinFails(t) PROVE Counted'
  BY <1>5, NoPinFails
<1>6. ASSUME NEW t \in Tasks, PinBlocks(t) \/ Preempt(t) PROVE Counted'
  BY <1>6, UnpinnedStep DEF PinBlocks, Preempt, Pinned
<1>7. ASSUME NEW t \in Tasks, StoreStart(t) \/ StoreKern(t) PROVE Counted'
  <2>1. \A u \in Tasks, f \in Frames : Pinned(u, f)' <=> Pinned(u, f)
    BY <1>7 DEF StoreStart, StoreKern, Pinned, TypeOK
  <2> QED
    BY <1>7, <2>1, UnpinnedStep DEF StoreStart, StoreKern
<1>8. ASSUME NEW t \in Tasks, StorePage(t) PROVE Counted'
  <2>1. \A u \in Tasks, f \in Frames : Pinned(u, f)' <=> Pinned(u, f)
    BY <1>8 DEF StorePage, Pinned, TypeOK
  <2> QED
    BY <1>8, <2>1, UnpinnedStep DEF StorePage
<1>9. ASSUME NEW t \in Tasks, SwitchIn(t) PROVE Counted'
  <2>1. UNCHANGED <<pins, ctx, page>> /\ \A u \in Tasks \ {t} : pc'[u] = pc[u]
    BY <1>9 DEF SwitchIn, TypeOK
  <2>2. pc'[t] = pc[t] \/ (pc[t] = "out" /\ pc'[t] = "user")
    BY <1>9 DEF SwitchIn, TypeOK, Cached
  <2> QED
    BY <2>1, <2>2, UnpinnedStep DEF Pinned
<1>10. ASSUME NEW t \in Tasks, Release(t) PROVE Counted'
  <2>1. /\ ctx' = [ctx EXCEPT ![t] = EmptyCtx] /\ UNCHANGED page
        /\ pc[t] = "user" /\ pc' = [pc EXCEPT ![t] = "gone"] /\ ctx[t].kern = ctx[t].page
    BY <1>10 DEF Release, Cached, Storing
  <2>2. \A u \in Tasks \ {t}, f \in Frames : Pinned(u, f)' <=> Pinned(u, f)
    BY <2>1 DEF Pinned, TypeOK
  <2>3. \A f \in Frames : ~(Pinned(t, f)')
    BY <2>1, PinCacheAssumption DEF Pinned, TypeOK, EmptyCtx
  <2>4. \A f \in Frames : Pinned(t, f) <=> f = ctx[t].page
    BY <2>1, PinCacheAssumption DEF Pinned, TypeOK
  <2>5. CASE ctx[t].page = NULL
    <3>1. \A u \in Tasks, f \in Frames : Pinned(u, f)' <=> Pinned(u, f)
      BY <2>2, <2>3, <2>4, <2>5, PinCacheAssumption
    <3> QED
      BY <1>10, <2>5, <3>1, UnpinnedStep DEF Release
  <2>6. CASE ctx[t].page # NULL
    <3>1. ctx[t].page \in Frames /\ pins' = [pins EXCEPT ![ctx[t].page] = @ - 1]
      BY <1>10, <2>6 DEF Release, TypeOK
    <3> QED
      BY <2>2, <2>3, <2>4, <3>1, UnpinStep
  <2> QED
    BY <2>5, <2>6
<1>11. ASSUME NEW p \in UserPages, NEW f \in Frames, Remap(p, f) PROVE Counted'
  BY <1>11, UnpinnedStep DEF Remap, Pinned
<1>12. CASE UNCHANGED vars
  BY <1>12, UnpinnedStep DEF vars, cache, Pinned
<1> QED
  BY <1>1, <1>2, <1>3, <1>4, <1>5, <1>6, <1>7, <1>8, <1>9, <1>10, <1>11, <1>12 DEF Next, Step

-----------------------------------------------------------------------------
LEMMA TranslatedHolds == Spec => [](~REMAPS => Translated)
<1>1. Init => Translated
  BY DEF Init, Translated, EmptyCtx, Storing
<1>2. TypeOK /\ Shape /\ (~REMAPS => Translated) /\ [Next]_vars => (~REMAPS => Translated)'
  <2>1. [Next]_vars => UNCHANGED disturbed
    BY DEF Next, vars
  <2> QED
    BY <2>1, TranslatedNext DEF REMAPS
<1> QED
  BY <1>1, <1>2, ShapeHolds, PTL DEF Spec

LEMMA CachedHolds ==
  ASSUME RoomForPins PROVE Spec => [](Faultless => Cached /\ Counted)
<1>1. Init => Cached /\ Counted
  BY CachedInit, PinsInit
<1>2. TypeOK /\ Shape /\ (Faultless => Cached /\ Counted) /\ [Next]_vars
        => (Faultless => Cached /\ Counted)'
  <2>1. [Next]_vars => UNCHANGED disturbed
    BY DEF Next, vars
  <2> QED
    BY <2>1, CachedNext, PinsNext DEF Faultless, PIN_SLEEPS, PIN_FAILS
<1> QED
  BY <1>1, <1>2, ShapeHolds, PTL DEF Spec

\* Every pin has an owner who gives it back once, for any number of tasks, on a
\* preemptible kernel and with memory that is mapped anew.
THEOREM PinsAccountedHolds ==
  ASSUME RoomForPins PROVE Spec => []PinsAccounted
<1>1. (Faultless => Cached /\ Counted) => PinsAccounted
  BY DEF Faultless, Counted, Pinners, PinsAccounted
<1> QED
  BY <1>1, CachedHolds, PTL

\* The word the scheduler reads through a cached page is the one the task waits
\* for, for any number of tasks that share pages in any way, also when pins block
\* or fail; and its frame is pinned when they do not, also when memory is mapped anew.
THEOREM ReadsTheWatchedWordHolds ==
  ASSUME OnlyUserPreemptible, RoomForPins PROVE Spec => []ReadsTheWatchedWord
<1>1. ASSUME TypeOK, Shape, StoresRun, NEW t \in Tasks, Read(t)
      PROVE  /\ ctx[t].start = watch[t] /\ watch[t] # NULL /\ ctx[t].kern \in Frames /\ ctx[t].kern # NULL
             /\ pc[t] \notin Storing
  <2>1. watch[t] # NULL /\ ctx[t].start = watch[t] /\ pc[t] \notin Storing
    BY <1>1 DEF Read, IsMapped, StoresRun
  <2>2. ctx[t].kern # NULL
    BY <1>1, <2>1 DEF Shape, Storing
  <2> QED
    BY <1>1, <2>1, <2>2 DEF TypeOK
<1>2. TypeOK /\ Shape /\ StoresRun /\ (~REMAPS => Translated) => (~REMAPS => TranslationFresh)
  <2> SUFFICES ASSUME TypeOK, Shape, StoresRun, Translated, NEW t \in Tasks, Read(t)
               PROVE  ctx[t].kern = mmu[watch[t]]
    BY DEF TranslationFresh
  <2> QED
    BY <1>1 DEF Translated
<1>3. TypeOK /\ Shape /\ StoresRun /\ (Faultless => Cached /\ Counted)
        => (Faultless => \A t \in Tasks : Read(t) => pins[ctx[t].kern] > 0)
  <2> SUFFICES ASSUME TypeOK, Shape, StoresRun, Cached, Counted, NEW t \in Tasks, Read(t)
               PROVE  pins[ctx[t].kern] > 0
    OBVIOUS
  <2>1. ctx[t].kern \in Frames /\ pc[t] \notin Storing
    BY <1>1
  <2>2. t \in Pinners(ctx[t].kern)
    BY <2>1 DEF Pinners, Pinned, Storing
  <2>3. Cardinality(Pinners(ctx[t].kern)) # 0
    BY <2>2, PinnersFinite, FS_EmptySet
  <2>4. pins[ctx[t].kern] = Cardinality(Pinners(ctx[t].kern))
    BY <2>1 DEF Counted
  <2> QED
    BY <2>3, <2>4, PinnersFinite
<1>4. TypeOK /\ Shape /\ StoresRun /\ (~REMAPS => Translated) /\ (Faultless => Cached /\ Counted)
        => ReadsTheWatchedWord
  BY <1>2, <1>3 DEF ReadsTheWatchedWord, Faultless
<1> QED
  BY <1>4, ShapeHolds, StoresRunHolds, TranslatedHolds, CachedHolds, PTL
=============================================================================
