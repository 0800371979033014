------------------------- MODULE AutolockSetupProofs -------------------------
(***************************************************************************)
(* For any number of tasks and pages: the pages of AutolockSetup are       *)
(* private to their threads in a program that neither forks nor destroys   *)
(* its context (setup_fork and HeldBackByOwnWait show what a fork does),   *)
(* and every context is freed once and nothing is left behind, whatever    *)
(* the program does.                                                       *)
(***************************************************************************)
EXTENDS AutolockSetup, FiniteSetTheorems, TLAPS

\* A context has its page to itself from the allocation to the last reference of
\* the task; only its task arms it.
ContextOwnsPage ==
  \A t \in Tasks : ctx[t] # NULL =>
    /\ ctx[t] \in allocated
    /\ armed[ctx[t]] \in {t, NULL}
    /\ \A u \in Tasks \ {t} : ctx[u] # ctx[t]

\* The thread-local pointer and the page about to be mapped are the context's; a
\* task that is not born has none of them.
PointersAgree ==
  \A t \in Tasks :
    /\ life[t] = "alive" /\ tls[t] \in Pages => ctx[t] = tls[t]
    /\ life[t] = "alive" /\ creating[t] # NULL => ctx[t] = creating[t]
    /\ life[t] = "unborn" => tls[t] = NULL /\ ctx[t] = NULL /\ creating[t] = NULL

\* TypeOK without the claim that no file is dropped more often than it is held.
SetupTyped ==
  /\ life \in [Tasks -> {"unborn", "alive", "exited", "freed"}]
  /\ process \in [Tasks -> Tasks]
  /\ tls \in [Tasks -> Pages \cup {NULL, ERR}]
  /\ ctx \in [Tasks -> Pages \cup {NULL}]
  /\ armed \in [Pages -> Tasks \cup {NULL}]
  /\ creating \in [Tasks -> Pages \cup {NULL}]

Private == SetupTyped /\ ContextOwnsPage /\ PointersAgree

LEMMA PrivateInit == Init => Private
  BY SetupAssumption DEF Init, Private, SetupTyped, ContextOwnsPage, PointersAgree

LEMMA PrivateNext ==
  ASSUME ~FORKS, ~DESTROYS, Private, [Next]_vars PROVE Private'
<1> USE SetupAssumption DEF Private, SetupTyped, ContextOwnsPage, PointersAgree, Runs,
        tasks, kernel
<1>1. ASSUME NEW t \in Tasks, InitAgain(t) \/ CreateFails(t) PROVE Private'
  BY <1>1 DEF InitAgain, CreateFails
<1>2. ASSUME NEW t \in Tasks, NEW p \in Pages, Create(t, p) PROVE Private'
  BY <1>2 DEF Create, Unused
<1>3. ASSUME NEW t \in Tasks, NEW p \in Pages, CreateFindsNoFd(t, p) PROVE Private'
  BY <1>3 DEF CreateFindsNoFd
<1>4. ASSUME NEW t \in Tasks, Mmap(t) PROVE Private'
  <2>1. PICK p \in {creating[t]} \cup {NULL, ERR} : tls' = [tls EXCEPT ![t] = p]
    BY <1>4 DEF Mmap
  <2> QED
    BY <1>4, <2>1 DEF Mmap
<1>5. ASSUME NEW t \in Tasks, Arm(t) PROVE Private'
  BY <1>5 DEF Arm
<1>6. ASSUME NEW t \in Tasks, Disarm(t) PROVE Private'
  BY <1>6 DEF Disarm
<1>7. ASSUME NEW t \in Tasks, NEW c \in Tasks, CreateThread(t, c) PROVE Private'
  BY <1>7 DEF CreateThread
<1>8. ASSUME NEW t \in Tasks, NEW c \in Tasks, Fork(t, c) PROVE Private'
  BY <1>8 DEF Fork
<1>9. ASSUME NEW t \in Tasks, Exit(t) PROVE Private'
  BY <1>9 DEF Exit
<1>10. ASSUME NEW t \in Tasks, Exec(t) PROVE Private'
  BY <1>10 DEF Exec
<1>11. ASSUME NEW t \in Tasks, PutTaskStruct(t) PROVE Private'
  BY <1>11 DEF PutTaskStruct, Release
<1>12. ASSUME NEW t \in Tasks, Destroy(t) PROVE Private'
  BY <1>12 DEF Destroy
<1>13. CASE UNCHANGED vars
  BY <1>13 DEF vars
<1> QED
  BY <1>1, <1>2, <1>3, <1>4, <1>5, <1>6, <1>7, <1>8, <1>9, <1>10, <1>11, <1>12, <1>13
  DEF Next

\* The page a thread writes is the one the scheduler reads for it, it is allocated,
\* and no other thread writes it.
THEOREM OwnPageHolds ==
  ASSUME ~FORKS, ~DESTROYS PROVE Spec => []OwnPage
<1>1. Private => OwnPage
  BY SetupAssumption DEF Private, SetupTyped, ContextOwnsPage, PointersAgree, OwnPage
<1> QED
  BY <1>1, PrivateInit, PrivateNext, PTL DEF Spec

\* "kernel_lock is thread local": nobody is held back for another thread's wait,
\* through thread creation, failed mappings, exits and execs in any order.
THEOREM HeldBackByOwnWaitHolds ==
  ASSUME ~FORKS, ~DESTROYS PROVE Spec => []HeldBackByOwnWait
<1>1. Private => HeldBackByOwnWait
  BY DEF Private, ContextOwnsPage, HeldBackByOwnWait
<1> QED
  BY <1>1, PrivateInit, PrivateNext, PTL DEF Spec

-----------------------------------------------------------------------------
\* A context belongs to a task that was born and is not freed.
ContextsHeld ==
  FreedOnce /\ \A t \in Tasks : ctx[t] # NULL => life[t] \in {"alive", "exited"}

\* A task that is not born has nothing open and shares nothing.
UnbornApart ==
  \A t \in Tasks : life[t] = "unborn" =>
    fds[t] = {} /\ process[t] = t /\ \A u \in Tasks \ {t} : process[u] # t

\* A process with open descriptors has a living task.
SomebodyCloses ==
  \A q \in Tasks : fds[q] # {} => \E u \in Tasks : life[u] = "alive" /\ process[u] = q

KernelTyped ==
  /\ allocated \subseteq Pages /\ sockets \subseteq Pages
  /\ fds \in [Tasks -> SUBSET Pages]
  /\ returned \in [Tasks -> Pages \cup {NULL, ERR}]

Lifecycle == SetupTyped /\ KernelTyped /\ ContextsHeld /\ UnbornApart /\ SomebodyCloses

Holders(f, p) == {q \in Tasks : p \in f[q]}

\* A file has a reference for each descriptor table it is in, and unless descriptors
\* run out no other; then no page or socket is without a context, either.
FilesCounted ==
  /\ refs \in [Pages -> Nat]
  /\ \A p \in Pages :
       /\ refs[p] >= Cardinality(Holders(fds, p))
       /\ ~FDS_RUN_OUT => refs[p] = Cardinality(Holders(fds, p))

NothingOrphaned == ~FDS_RUN_OUT => \A p \in allocated \cup sockets : \E t \in Tasks : ctx[t] = p

Accounted == Lifecycle /\ FilesCounted /\ NothingOrphaned

LEMMA AccountedInit == Init => Accounted
<1> SUFFICES ASSUME Init PROVE Accounted
  OBVIOUS
<1>1. \A p \in Pages : Cardinality(Holders(fds, p)) = 0
  <2>1. \A p \in Pages : Holders(fds, p) = {}
    BY DEF Init, Holders
  <2> QED
    BY <2>1, FS_EmptySet
<1>2. FilesCounted
  <2>1. refs \in [Pages -> Nat] /\ \A p \in Pages : refs[p] = 0
    BY DEF Init
  <2> QED
    BY <1>1, <2>1 DEF FilesCounted
<1>3. Lifecycle
  BY SetupAssumption DEF Init, Lifecycle, SetupTyped, KernelTyped, ContextsHeld, FreedOnce, UnbornApart, SomebodyCloses
<1> QED
  BY <1>2, <1>3 DEF Init, Accounted, NothingOrphaned

LEMMA HoldersFinite == \A f, p : IsFiniteSet(Holders(f, p)) /\ Cardinality(Holders(f, p)) \in Nat
  BY SetupAssumption, FS_Subset, FS_CardinalityType DEF Holders

\* A table that closes drops the reference it held.
LEMMA ClosingDropsReferences ==
  ASSUME Accounted, NEW t \in Tasks, CloseDescriptors(t)
  PROVE  FilesCounted'
<1> SUFFICES ASSUME NEW p \in Pages
             PROVE /\ refs'[p] \in Nat /\ refs'[p] >= Cardinality(Holders(fds', p))
                   /\ ~FDS_RUN_OUT => refs'[p] = Cardinality(Holders(fds', p))
  BY DEF FilesCounted, Accounted, CloseDescriptors
<1>1. Holders(fds', p) = Holders(fds, p) \ {process[t]}
  BY DEF Holders, CloseDescriptors, Accounted, Lifecycle, KernelTyped, SetupTyped
<1>2. Cardinality(Holders(fds', p)) =
        IF process[t] \in Holders(fds, p) THEN Cardinality(Holders(fds, p)) - 1 ELSE Cardinality(Holders(fds, p))
  BY <1>1, HoldersFinite, FS_RemoveElement
<1>3. process[t] \in Holders(fds, p) <=> p \in fds[process[t]]
  BY DEF Holders, Accounted, Lifecycle, KernelTyped, SetupTyped
<1>4. Cardinality(Holders(fds', p)) \in Nat /\ Cardinality(Holders(fds, p)) \in Nat
  BY HoldersFinite
<1> QED
  BY <1>2, <1>3, <1>4 DEF CloseDescriptors, Accounted, FilesCounted

\* A file that joins the table of q gets a reference.
LEMMA InstallingAddsReference ==
  ASSUME Accounted, NEW p \in Pages, NEW q \in Tasks, Unused(p),
         fds' = [fds EXCEPT ![q] = @ \cup {p}]
  PROVE  /\ Cardinality(Holders(fds', p)) = 1
         /\ \A r \in Pages \ {p} : Holders(fds', r) = Holders(fds, r)
<1>1. Holders(fds, p) = {}
  BY HoldersFinite, FS_EmptySet DEF Unused, Accounted, FilesCounted
<1>2. Holders(fds', p) = {q}
  BY <1>1 DEF Holders, Accounted, Lifecycle, KernelTyped
<1>3. \A r \in Pages \ {p} : Holders(fds', r) = Holders(fds, r)
  BY DEF Holders, Accounted, Lifecycle, KernelTyped
<1> QED
  BY <1>2, <1>3, FS_Singleton

LEMMA LifecycleNext == Lifecycle /\ [Next]_vars => Lifecycle'
<1> SUFFICES ASSUME Lifecycle, [Next]_vars PROVE Lifecycle'
  OBVIOUS
<1> USE SetupAssumption DEF Lifecycle, SetupTyped, KernelTyped, Runs, Returns, tasks, kernel
<1>1. ASSUME NEW t \in Tasks, InitAgain(t) \/ CreateFails(t) \/ Arm(t) \/ Disarm(t) \/ Mmap(t)
      PROVE Lifecycle'
  <2>1. UNCHANGED <<life, process, ctx, allocated, sockets, fds>>
    BY <1>1 DEF InitAgain, CreateFails, Arm, Disarm, Mmap
  <2>2. SetupTyped' /\ KernelTyped'
    <3>1. CASE InitAgain(t) \/ CreateFails(t)
      BY <3>1 DEF InitAgain, CreateFails
    <3>2. CASE Arm(t) \/ Disarm(t)
      BY <3>2 DEF Arm, Disarm
    <3>3. CASE Mmap(t)
      <4>1. PICK p \in {creating[t]} \cup {NULL, ERR} : tls' = [tls EXCEPT ![t] = p] /\ Returns(t, p)
        BY <3>3 DEF Mmap
      <4> QED
        BY <3>3, <4>1 DEF Mmap
    <3> QED
      BY <1>1, <3>1, <3>2, <3>3
  <2>3. ContextsHeld' /\ UnbornApart' /\ SomebodyCloses'
    BY <2>1 DEF ContextsHeld, FreedOnce, UnbornApart, SomebodyCloses
  <2> QED
    BY <2>2, <2>3
<1>2. ASSUME NEW t \in Tasks, NEW p \in Pages, Create(t, p) PROVE Lifecycle'
  <2>1. SetupTyped' /\ KernelTyped'
    BY <1>2 DEF Create
  <2>2. ContextsHeld'
    BY <1>2 DEF Create, Unused, ContextsHeld, FreedOnce
  <2>3. UnbornApart'
    BY <1>2 DEF Create, UnbornApart
  <2>4. SomebodyCloses'
    BY <1>2 DEF Create, SomebodyCloses
  <2> QED
    BY <2>1, <2>2, <2>3, <2>4
<1>3. ASSUME NEW t \in Tasks, NEW p \in Pages, CreateFindsNoFd(t, p) PROVE Lifecycle'
  BY <1>3 DEF CreateFindsNoFd, ContextsHeld, FreedOnce, UnbornApart, SomebodyCloses
<1>4. ASSUME NEW t \in Tasks, NEW c \in Tasks, CreateThread(t, c) PROVE Lifecycle'
  <2>1. SetupTyped' /\ KernelTyped' /\ ContextsHeld'
    BY <1>4 DEF CreateThread, ContextsHeld, FreedOnce
  <2>2. UnbornApart'
    BY <1>4 DEF CreateThread, UnbornApart
  <2>3. ASSUME NEW q \in Tasks, fds'[q] # {} PROVE \E u \in Tasks : life'[u] = "alive" /\ process'[u] = q
    <3>1. PICK u \in Tasks : life[u] = "alive" /\ process[u] = q
      BY <1>4, <2>3 DEF CreateThread, SomebodyCloses
    <3> QED
      BY <1>4, <3>1 DEF CreateThread
  <2> QED
    BY <2>1, <2>2, <2>3 DEF SomebodyCloses
<1>5. ASSUME NEW t \in Tasks, NEW c \in Tasks, Fork(t, c) PROVE Lifecycle'
  <2>1. SetupTyped' /\ KernelTyped' /\ ContextsHeld'
    BY <1>5 DEF Fork, ContextsHeld, FreedOnce
  <2>2. UnbornApart'
    BY <1>5 DEF Fork, UnbornApart
  <2>3. ASSUME NEW q \in Tasks, fds'[q] # {} PROVE \E u \in Tasks : life'[u] = "alive" /\ process'[u] = q
    <3>1. CASE q = c
      BY <1>5, <3>1 DEF Fork
    <3>2. CASE q # c
      <4>1. PICK u \in Tasks : life[u] = "alive" /\ process[u] = q
        BY <1>5, <2>3, <3>2 DEF Fork, SomebodyCloses
      <4> QED
        BY <1>5, <4>1 DEF Fork
    <3> QED
      BY <3>1, <3>2
  <2> QED
    BY <2>1, <2>2, <2>3 DEF SomebodyCloses
<1>6. ASSUME NEW t \in Tasks, Exit(t) PROVE Lifecycle'
  <2>1. SetupTyped' /\ KernelTyped'
    BY <1>6 DEF Exit, CloseDescriptors
  <2>2. ContextsHeld'
    BY <1>6 DEF Exit, ContextsHeld, FreedOnce
  <2>3. UnbornApart'
    BY <1>6 DEF Exit, CloseDescriptors, UnbornApart
  <2>4. ASSUME NEW q \in Tasks, fds'[q] # {} PROVE \E u \in Tasks : life'[u] = "alive" /\ process'[u] = q
    <3>1. PICK u \in Tasks : life[u] = "alive" /\ process[u] = q
      BY <1>6, <2>4 DEF Exit, CloseDescriptors, SomebodyCloses
    <3>2. CASE q # process[t]
      BY <1>6, <3>1, <3>2 DEF Exit
    <3>3. CASE q = process[t]
      <4>1. ~Alone(t)
        BY <1>6, <2>4, <3>3 DEF Exit, CloseDescriptors
      <4>2. PICK w \in Tasks \ {t} : life[w] = "alive" /\ process[w] = q
        BY <3>3, <4>1 DEF Alone
      <4> QED
        BY <1>6, <4>2 DEF Exit
    <3> QED
      BY <3>2, <3>3
  <2> QED
    BY <2>1, <2>2, <2>3, <2>4 DEF SomebodyCloses
<1>7. ASSUME NEW t \in Tasks, Exec(t) PROVE Lifecycle'
  <2>1. SetupTyped' /\ KernelTyped'
    BY <1>7 DEF Exec, CloseDescriptors
  <2>2. ContextsHeld'
    BY <1>7 DEF Exec, ContextsHeld, FreedOnce
  <2>3. UnbornApart'
    BY <1>7 DEF Exec, CloseDescriptors, UnbornApart
  <2>4. ASSUME NEW q \in Tasks, fds'[q] # {} PROVE \E u \in Tasks : life'[u] = "alive" /\ process'[u] = q
    <3>1. q # process[t] /\ fds[q] # {}
      BY <1>7, <2>4 DEF Exec, CloseDescriptors
    <3>2. PICK u \in Tasks : life[u] = "alive" /\ process[u] = q
      BY <3>1 DEF SomebodyCloses
    <3> QED
      BY <1>7, <3>1, <3>2 DEF Exec
  <2> QED
    BY <2>1, <2>2, <2>3, <2>4 DEF SomebodyCloses
<1>8. ASSUME NEW t \in Tasks, PutTaskStruct(t) \/ Destroy(t) PROVE Lifecycle'
  <2>1. SetupTyped' /\ KernelTyped'
    BY <1>8 DEF PutTaskStruct, Destroy, Release
  <2>2. ContextsHeld'
    BY <1>8 DEF PutTaskStruct, Destroy, Release, ContextsHeld, FreedOnce
  <2>3. UnbornApart' /\ SomebodyCloses'
    BY <1>8 DEF PutTaskStruct, Destroy, Release, UnbornApart, SomebodyCloses
  <2> QED
    BY <2>1, <2>2, <2>3
<1>9. CASE UNCHANGED vars
  BY <1>9 DEF vars, ContextsHeld, FreedOnce, UnbornApart, SomebodyCloses
<1> QED
  BY <1>1, <1>2, <1>3, <1>4, <1>5, <1>6, <1>7, <1>8, <1>9 DEF Next

LEMMA FilesNext == Accounted /\ [Next]_vars => FilesCounted'
<1> SUFFICES ASSUME Accounted, [Next]_vars PROVE FilesCounted'
  OBVIOUS
<1> USE DEF Runs, tasks, kernel
<1>1. ASSUME UNCHANGED <<refs, fds>> PROVE FilesCounted'
  BY <1>1 DEF Accounted, FilesCounted, Holders
<1>2. ASSUME NEW t \in Tasks, NEW p \in Pages, Create(t, p) PROVE FilesCounted'
  <2>1. process[t] \in Tasks
    BY DEF Accounted, Lifecycle, SetupTyped
  <2>2. Cardinality(Holders(fds', p)) = 1 /\ \A r \in Pages \ {p} : Holders(fds', r) = Holders(fds, r)
    BY <1>2, <2>1, InstallingAddsReference DEF Create
  <2>3. refs' = [refs EXCEPT ![p] = 1] /\ refs \in [Pages -> Nat]
    BY <1>2 DEF Create, Accounted, FilesCounted
  <2>4. \A r \in Pages : refs'[r] \in Nat /\ (refs'[r] = IF r = p THEN 1 ELSE refs[r])
    BY <2>3
  <2>5. refs' \in [Pages -> Nat]
    BY <2>3
  <2> QED
    BY <2>2, <2>4, <2>5 DEF Accounted, FilesCounted
<1>3. ASSUME NEW t \in Tasks, NEW p \in Pages, CreateFindsNoFd(t, p) PROVE FilesCounted'
  <2>1. \A r \in Pages : Holders(fds', r) = Holders(fds, r) /\ Cardinality(Holders(fds, r)) \in Nat
    BY <1>3, HoldersFinite DEF CreateFindsNoFd
  <2> QED
    BY <1>3, <2>1 DEF CreateFindsNoFd, Unused, Accounted, FilesCounted
<1>4. ASSUME NEW t \in Tasks, NEW c \in Tasks, Fork(t, c) PROVE FilesCounted'
  <2>1. ASSUME NEW p \in Pages
        PROVE Cardinality(Holders(fds', p)) =
                Cardinality(Holders(fds, p)) + (IF p \in fds[process[t]] THEN 1 ELSE 0)
    <3>1. c \notin Holders(fds, p) /\ fds \in [Tasks -> SUBSET Pages]
      BY <1>4 DEF Fork, Accounted, Lifecycle, UnbornApart, KernelTyped, Holders
    <3>2. Holders(fds', p) = IF p \in fds[process[t]] THEN Holders(fds, p) \cup {c} ELSE Holders(fds, p)
      BY <1>4, <3>1 DEF Fork, Holders
    <3>3. /\ Cardinality(Holders(fds, p)) \in Nat
          /\ Cardinality(Holders(fds, p) \cup {c}) = Cardinality(Holders(fds, p)) + 1
      BY <3>1, HoldersFinite, FS_AddElement
    <3> QED
      BY <3>2, <3>3
  <2>2. \A p \in Pages : Cardinality(Holders(fds, p)) \in Nat
    BY HoldersFinite
  <2>3. \A p \in Pages : refs[p] \in Nat /\ refs'[p] = refs[p] + (IF p \in fds[process[t]] THEN 1 ELSE 0)
    BY <1>4 DEF Fork, Accounted, FilesCounted
  <2>4. refs' \in [Pages -> Nat]
    BY <1>4, <2>3 DEF Fork
  <2> QED
    BY <2>1, <2>2, <2>3, <2>4 DEF Accounted, FilesCounted
<1>5. ASSUME NEW t \in Tasks, CloseDescriptors(t) PROVE FilesCounted'
  BY <1>5, ClosingDropsReferences
<1> QED
  BY <1>1, <1>2, <1>3, <1>4, <1>5 DEF Next, vars, InitAgain, CreateFails, Mmap, Arm, Disarm, Exit, PutTaskStruct,
     Destroy, Release, Exec, CreateThread

LEMMA OrphansNext == Accounted /\ [Next]_vars => NothingOrphaned'
<1> SUFFICES ASSUME Accounted, [Next]_vars, ~FDS_RUN_OUT,
                    NEW p \in allocated' \cup sockets'
             PROVE  \E t \in Tasks : ctx'[t] = p
  BY DEF NothingOrphaned
<1> USE DEF Runs, tasks, kernel
<1>1. ctx \in [Tasks -> Pages \cup {NULL}]
  BY DEF Accounted, Lifecycle, SetupTyped
<1>2. ASSUME UNCHANGED <<ctx, allocated, sockets>> PROVE \E t \in Tasks : ctx'[t] = p
  BY <1>2 DEF Accounted, NothingOrphaned
<1>3. ASSUME NEW t \in Tasks, NEW r \in Pages, Create(t, r) PROVE \E u \in Tasks : ctx'[u] = p
  <2>1. CASE p = r
    BY <1>1, <1>3, <2>1 DEF Create
  <2>2. CASE p # r
    <3>1. PICK u \in Tasks : ctx[u] = p
      BY <1>3, <2>2 DEF Create, Accounted, NothingOrphaned
    <3>2. p # NULL
      BY <1>3, <2>2, SetupAssumption DEF Create, Accounted, Lifecycle, KernelTyped
    <3> QED
      BY <1>1, <1>3, <3>1, <3>2 DEF Create
  <2> QED
    BY <2>1, <2>2
<1>4. ASSUME NEW t \in Tasks, PutTaskStruct(t) \/ Destroy(t) PROVE \E u \in Tasks : ctx'[u] = p
  <2>1. Release(t)
    BY <1>4 DEF PutTaskStruct, Destroy
  <2>2. PICK u \in Tasks : ctx[u] = p
    BY <2>1 DEF Release, Accounted, NothingOrphaned
  <2> QED
    BY <1>1, <2>1, <2>2 DEF Release
<1> QED
  BY <1>2, <1>3, <1>4 DEF Next, vars, InitAgain, CreateFails, CreateFindsNoFd, Mmap, Arm, Disarm, Exit, Exec, CreateThread, Fork

LEMMA AccountedNext == Accounted /\ [Next]_vars => Accounted'
  BY LifecycleNext, FilesNext, OrphansNext DEF Accounted

\* The variables keep their types; above all no file is dropped more often than it
\* is held, through fork, exec and exit in any order.
THEOREM SetupTypeCorrect == Spec => []TypeOK
<1>1. Accounted => TypeOK
  BY DEF Accounted, Lifecycle, FilesCounted, SetupTyped, KernelTyped, TypeOK
<1> QED
  BY <1>1, AccountedInit, AccountedNext, PTL DEF Spec

\* A context is freed once and by its owner, in every program and with every failure.
THEOREM FreedOnceHolds == Spec => []FreedOnce
<1>1. Accounted => FreedOnce
  BY DEF Accounted, Lifecycle, ContextsHeld
<1> QED
  BY <1>1, AccountedInit, AccountedNext, PTL DEF Spec

\* When every task is gone, so are all pages, sockets and files, unless a creation
\* found no descriptor.
THEOREM NothingLeakedHolds ==
  ASSUME ~FDS_RUN_OUT PROVE Spec => []NothingLeaked
<1>1. ASSUME Accounted, \A t \in Tasks : life[t] \in {"unborn", "freed"}
      PROVE allocated = {} /\ sockets = {} /\ \A p \in Pages : refs[p] = 0
  <2>1. \A t \in Tasks : ctx[t] = NULL /\ fds[t] = {}
    BY <1>1 DEF Accounted, Lifecycle, SetupTyped, ContextsHeld, UnbornApart, SomebodyCloses, KernelTyped
  <2>2. \A p \in Pages : Holders(fds, p) = {}
    BY <2>1 DEF Holders
  <2>3. \A p \in Pages : refs[p] = 0
    BY <1>1, <2>2, FS_EmptySet DEF Accounted, FilesCounted
  <2>4. allocated = {} /\ sockets = {}
    BY <1>1, <2>1, SetupAssumption DEF Accounted, NothingOrphaned, Lifecycle, KernelTyped
  <2> QED
    BY <2>3, <2>4
<1>2. Accounted => NothingLeaked
  BY <1>1 DEF NothingLeaked
<1> QED
  BY <1>2, AccountedInit, AccountedNext, PTL DEF Spec
=============================================================================
