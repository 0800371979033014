---------------------------- MODULE AutolockSetup ----------------------------
(***************************************************************************)
(* The life of an autolock page: autolock_init_kernel_state() on the user  *)
(* side (autolock-kernel-api.h), auto_lock_create, the mmap of its file,   *)
(* fork and task teardown on the kernel side (kernel/auto-lock.c and       *)
(* kernel/fork.c of the patches).                                          *)
(*                                                                         *)
(* A page names everything one auto_lock_create allocates: the page frame, *)
(* the context, the socket and the file.  The context lives exactly as     *)
(* long as task_struct.auto_lock points at it.  Of a page's words only one *)
(* thing matters here: whose wait, if any, has armed it.                   *)
(***************************************************************************)
EXTENDS Naturals, FiniteSets

CONSTANTS
  Tasks, Pages,
  NULL,
  ERR,            \* -errno of a failed mmap, as a pointer
  FirstTask,      \* the task the program starts with
  FORKS,          \* threads may call fork()
  EXECS,          \* ... and execve()
  DESTROYS,       \* threads may make the auto_lock_destroy system call
  FDS_RUN_OUT,    \* get_unused_fd_flags() may fail
  MMAP_MAY_FAIL

ASSUME SetupAssumption ==
  /\ IsFiniteSet(Tasks)
  /\ FirstTask \in Tasks
  /\ NULL \notin Pages \cup Tasks \cup {ERR} /\ ERR \notin Pages
  /\ {FORKS, EXECS, DESTROYS, FDS_RUN_OUT, MMAP_MAY_FAIL} \subseteq BOOLEAN

VARIABLES
  life,      \* unborn, alive, exited (the task_struct remains), freed
  process,   \* whose descriptor table and address space a task uses
  tls,       \* I_kernel_autolock
  ctx,       \* task_struct.auto_lock
  allocated, \* page frames handed out and not freed
  sockets,   \* auto_lock_sock of these contexts exists
  refs,      \* references to the file
  fds,       \* files in the descriptor table of a process
  armed,     \* the task whose wait set watch_mem of the page
  creating,  \* the page a task has created and is about to map
  returned   \* what its last autolock_init_kernel_state() returned

vars == <<life, process, tls, ctx, allocated, sockets, refs, fds, armed, creating, returned>>
kernel == <<ctx, allocated, sockets, refs, fds>>
tasks == <<life, process>>

TypeOK ==
  /\ life \in [Tasks -> {"unborn", "alive", "exited", "freed"}]
  /\ process \in [Tasks -> Tasks]
  /\ tls \in [Tasks -> Pages \cup {NULL, ERR}]
  /\ ctx \in [Tasks -> Pages \cup {NULL}]
  /\ allocated \subseteq Pages /\ sockets \subseteq Pages
  /\ refs \in [Pages -> Nat]
  /\ fds \in [Tasks -> SUBSET Pages]
  /\ armed \in [Pages -> Tasks \cup {NULL}]
  /\ creating \in [Tasks -> Pages \cup {NULL}]
  /\ returned \in [Tasks -> Pages \cup {NULL, ERR}]

Init ==
  /\ life = [t \in Tasks |-> IF t = FirstTask THEN "alive" ELSE "unborn"]
  /\ process = [t \in Tasks |-> t]
  /\ tls = [t \in Tasks |-> NULL]
  /\ ctx = [t \in Tasks |-> NULL]
  /\ allocated = {} /\ sockets = {}
  /\ refs = [p \in Pages |-> 0]
  /\ fds = [t \in Tasks |-> {}]
  /\ armed = [p \in Pages |-> NULL]
  /\ creating = [t \in Tasks |-> NULL]
  /\ returned = [t \in Tasks |-> NULL]

-----------------------------------------------------------------------------
\* A task that is in no system call and does not wait for a lock.
Runs(t) == life[t] = "alive" /\ creating[t] = NULL /\ \A p \in Pages : armed[p] # t

Returns(t, p) == returned' = [returned EXCEPT ![t] = p]

\* The thread has a page already.
InitAgain(t) ==
  /\ Runs(t) /\ tls[t] # NULL
  /\ Returns(t, tls[t])
  /\ UNCHANGED <<tasks, tls, kernel, armed, creating>>

\* auto_lock_create of a task that has a context (-EEXIST), or for which there
\* is no memory, no socket or no file: whatever was allocated is freed again.
CreateFails(t) ==
  /\ Runs(t) /\ tls[t] = NULL
  /\ Returns(t, NULL)
  /\ UNCHANGED <<tasks, tls, kernel, armed, creating>>

\* Bound: what one creation allocated is handed out again when all of it is free.
\* The code frees the frame first, which then may be reused while it is mapped.
Unused(p) == p \notin allocated \cup sockets /\ refs[p] = 0

\* auto_lock_install_fd() finds no descriptor: done2 frees the page and the
\* context, and nothing drops the file or releases the socket.
CreateFindsNoFd(t, p) ==
  /\ FDS_RUN_OUT
  /\ Runs(t) /\ tls[t] = NULL /\ ctx[t] = NULL /\ Unused(p)
  /\ sockets' = sockets \cup {p}
  /\ refs' = [refs EXCEPT ![p] = 1]
  /\ Returns(t, NULL)
  /\ UNCHANGED <<tasks, tls, ctx, allocated, fds, armed, creating>>

\* Mutant: the test for a context the task already has is lost.
CreateOverwrites(t, p) ==
  /\ Runs(t) /\ tls[t] = NULL /\ Unused(p)
  /\ ctx' = [ctx EXCEPT ![t] = p]
  /\ allocated' = allocated \cup {p}
  /\ sockets' = sockets \cup {p}
  /\ refs' = [refs EXCEPT ![p] = 1]
  /\ fds' = [fds EXCEPT ![process[t]] = @ \cup {p}]
  /\ armed' = [armed EXCEPT ![p] = NULL]
  /\ creating' = [creating EXCEPT ![t] = p]
  /\ UNCHANGED <<tasks, tls, returned>>

Create(t, p) ==
  /\ Runs(t) /\ tls[t] = NULL /\ ctx[t] = NULL /\ Unused(p)
  /\ ctx' = [ctx EXCEPT ![t] = p]
  /\ allocated' = allocated \cup {p}
  /\ sockets' = sockets \cup {p}
  /\ refs' = [refs EXCEPT ![p] = 1]
  /\ fds' = [fds EXCEPT ![process[t]] = @ \cup {p}]
  /\ armed' = [armed EXCEPT ![p] = NULL]
  /\ creating' = [creating EXCEPT ![t] = p]
  /\ UNCHANGED <<tasks, tls, returned>>

\* The raw mmap system call: its error is -errno, and only -EPERM happens to be
\* MAP_FAILED.
Mmap(t) ==
  /\ life[t] = "alive" /\ creating[t] # NULL
  /\ \E p \in {creating[t]} \cup (IF MMAP_MAY_FAIL THEN {NULL, ERR} ELSE {}) :
       tls' = [tls EXCEPT ![t] = p] /\ Returns(t, p)
  /\ creating' = [creating EXCEPT ![t] = NULL]
  /\ UNCHANGED <<tasks, kernel, armed>>

-----------------------------------------------------------------------------
\* lock() waits: it writes watch_mem of the page its thread-local points at ...
Arm(t) ==
  /\ Runs(t) /\ tls[t] \in Pages
  /\ armed' = [armed EXCEPT ![tls[t]] = t]
  /\ UNCHANGED <<tasks, tls, kernel, creating, returned>>

\* ... and clears it when it has the lock.
Disarm(t) ==
  /\ life[t] = "alive" /\ tls[t] \in Pages /\ armed[tls[t]] = t
  /\ armed' = [armed EXCEPT ![tls[t]] = NULL]
  /\ UNCHANGED <<tasks, tls, kernel, creating, returned>>

-----------------------------------------------------------------------------
\* Mutant: copy_process() as it was before the patch that clears p->auto_lock.
ThreadInheritsContext(t, c) ==
  /\ Runs(t) /\ life[c] = "unborn"
  /\ life' = [life EXCEPT ![c] = "alive"]
  /\ process' = [process EXCEPT ![c] = process[t]]
  /\ ctx' = [ctx EXCEPT ![c] = ctx[t]]
  /\ UNCHANGED <<tls, allocated, sockets, refs, fds, armed, creating, returned>>

\* pthread_create(): the new thread has fresh thread-local storage, and
\* copy_process() clears the copied auto_lock.
CreateThread(t, c) ==
  /\ Runs(t) /\ life[c] = "unborn"
  /\ life' = [life EXCEPT ![c] = "alive"]
  /\ process' = [process EXCEPT ![c] = process[t]]
  /\ UNCHANGED <<tls, kernel, armed, creating, returned>>

\* fork(): the child keeps the thread-local pointer, the shared mapping and the
\* descriptors of its parent, but no context.
Fork(t, c) ==
  /\ FORKS /\ Runs(t) /\ life[c] = "unborn"
  /\ life' = [life EXCEPT ![c] = "alive"]
  /\ process' = [process EXCEPT ![c] = c]
  /\ tls' = [tls EXCEPT ![c] = tls[t]]
  /\ fds' = [fds EXCEPT ![c] = fds[process[t]]]
  /\ refs' = [p \in Pages |-> refs[p] + IF p \in fds[process[t]] THEN 1 ELSE 0]
  /\ UNCHANGED <<ctx, allocated, sockets, armed, creating, returned>>

Alone(t) == \A u \in Tasks \ {t} : life[u] = "alive" => process[u] # process[t]

\* auto_lock_fd_release() is a nop.
CloseDescriptors(t) ==
  /\ refs' = [p \in Pages |-> refs[p] - IF p \in fds[process[t]] THEN 1 ELSE 0]
  /\ fds' = [fds EXCEPT ![process[t]] = {}]

\* A task may exit at any time, waiting for a lock or about to map its page.  The
\* last one of a process closes the descriptors.
Exit(t) ==
  /\ life[t] = "alive"
  /\ life' = [life EXCEPT ![t] = "exited"]
  /\ IF Alone(t) THEN CloseDescriptors(t) ELSE UNCHANGED <<refs, fds>>
  /\ UNCHANGED <<process, tls, ctx, allocated, sockets, armed, creating, returned>>

\* execve(): the other threads are gone, and with them the thread-local pointers and
\* the descriptors, which are close-on-exec.  The context is the task's and stays.
Exec(t) ==
  /\ EXECS /\ Runs(t)
  /\ life' = [u \in Tasks |-> IF u # t /\ life[u] = "alive" /\ process[u] = process[t]
                              THEN "exited" ELSE life[u]]
  /\ tls' = [tls EXCEPT ![t] = NULL]
  /\ CloseDescriptors(t)
  /\ UNCHANGED <<process, ctx, allocated, sockets, armed, creating, returned>>

\* Mutant: the release also drops the file, which the descriptor table owns.
ReleasePutsFile(t) ==
  /\ ctx' = [ctx EXCEPT ![t] = NULL]
  /\ allocated' = allocated \ {ctx[t]}
  /\ sockets' = sockets \ {ctx[t]}
  /\ refs' = [p \in Pages |-> refs[p] - IF p = ctx[t] THEN 1 ELSE 0]
  /\ UNCHANGED fds

\* __auto_lock_release() of the context, if there is one.
Release(t) ==
  /\ ctx' = [ctx EXCEPT ![t] = NULL]
  /\ allocated' = allocated \ {ctx[t]}
  /\ sockets' = sockets \ {ctx[t]}
  /\ UNCHANGED <<refs, fds>>

\* __put_task_struct() runs any time after the exit.
PutTaskStruct(t) ==
  /\ life[t] = "exited"
  /\ life' = [life EXCEPT ![t] = "freed"]
  /\ Release(t)
  /\ UNCHANGED <<process, tls, armed, creating, returned>>

\* The auto_lock_destroy system call, which the library never makes: its
\* autolock_release_kernel_state() does nothing.
Destroy(t) ==
  /\ DESTROYS /\ Runs(t)
  /\ Release(t)
  /\ UNCHANGED <<tasks, tls, armed, creating, returned>>

Next ==
  \/ \E t \in Tasks :
       \/ InitAgain(t) \/ CreateFails(t) \/ Mmap(t)
       \/ Arm(t) \/ Disarm(t) \/ Exit(t) \/ PutTaskStruct(t) \/ Destroy(t) \/ Exec(t)
  \/ \E t \in Tasks, p \in Pages : Create(t, p) \/ CreateFindsNoFd(t, p)
  \/ \E t, c \in Tasks : CreateThread(t, c) \/ Fork(t, c)

Spec == Init /\ [][Next]_vars

-----------------------------------------------------------------------------
\* The page a thread writes is the one the scheduler reads for it, nobody else
\* writes it, and it is not freed under the thread: tls and task_struct.auto_lock
\* are set by different calls and outlive each other in different ways.
OwnPage ==
  \A t \in Tasks : life[t] = "alive" /\ tls[t] \in Pages =>
    /\ ctx[t] = tls[t] /\ tls[t] \in allocated
    /\ \A u \in Tasks \ {t} : life[u] = "alive" => tls[u] # tls[t]

\* "kernel_lock is thread local. There is no contention writing to it": the
\* scheduler holds a task back only for a lock the task itself waits for.
HeldBackByOwnWait ==
  \A t \in Tasks : life[t] = "alive" /\ ctx[t] # NULL => armed[ctx[t]] \in {t, NULL}

\* Releasing is a "Nop, automatically done on process end": once every task is
\* gone, so are all pages, sockets and files.
NothingLeaked ==
  (\A t \in Tasks : life[t] \in {"unborn", "freed"}) =>
    allocated = {} /\ sockets = {} /\ \A p \in Pages : refs[p] = 0

\* A context is freed once and by its owner: the page of a context is allocated,
\* its socket exists, and no second task would free them again.
FreedOnce ==
  \A t \in Tasks : ctx[t] # NULL =>
    /\ ctx[t] \in allocated \cap sockets
    /\ \A u \in Tasks \ {t} : ctx[u] # ctx[t]

\* auto_lock_create fails with "-EEXISTS if the user already registered one": a
\* program that has no page, and is not about to map one, can register one.
CanRegister ==
  \A t \in Tasks : life[t] = "alive" /\ tls[t] = NULL /\ creating[t] = NULL =>
    ctx[t] = NULL

\* autolock_init_kernel_state() returns "NULL on failure and pointer to
\* kernel_autolock_abi on success".
ReturnsNullOrPage == \A t \in Tasks : returned[t] \in Pages \cup {NULL}
=============================================================================
