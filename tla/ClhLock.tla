------------------------------ MODULE ClhLock ------------------------------
(***************************************************************************)
(* clh-lock-base.h: lock() appends a heap node to the queue and waits for  *)
(* the word in the node of its predecessor, which it then frees; unlock()  *)
(* releases the node lock->head points to.  Freed nodes are handed out     *)
(* again, as malloc does.  trylock() only returns I_FAILURE.               *)
(***************************************************************************)
EXTENDS QueueLock

CONSTANT Nodes  \* the addresses aligned_alloc() returns; it never fails here

NodesAssumption == NULL \notin Nodes

UNLOCKED == 1
LOCKED == 0

VARIABLES
  mem,         \* node->mem
  allocated,   \* the nodes between aligned_alloc() and free()
  tail, head,  \* the fields of the lock; NULL after destroy()
  node, prev   \* the locals of lock(), NULL once they are out of use

vars == <<page, pc, mem, allocated, tail, head, node, prev>>
heap == <<mem, allocated>>
fields == <<tail, head>>
locals == <<node, prev>>

Kernel == INSTANCE AutolockPage WITH Words <- Nodes, Values <- {LOCKED, UNLOCKED}

TypeOK ==
  /\ page \in [Threads -> Kernel!Page]
  /\ pc \in [Threads -> {"idle", "new", "swap", "first_load", "set_for", "set_mem", "read_head",
                         "wait_next", "wait_far", "disarm", "free", "save", "holding"}]
  /\ mem \in [Nodes -> {LOCKED, UNLOCKED}]
  /\ allocated \subseteq Nodes
  /\ tail \in Nodes \cup {NULL} /\ head \in Nodes \cup {NULL}
  /\ node \in [Threads -> Nodes \cup {NULL}] /\ prev \in [Threads -> Nodes \cup {NULL}]

\* I_clh_lock_base_node_new(): any free address, with the status given.
NodeNew(n, status) ==
  /\ n \notin allocated
  /\ allocated' = allocated \cup {n}
  /\ mem' = [mem EXCEPT ![n] = status]

Init ==
  /\ page = [t \in Threads |-> Kernel!ZeroPage]
  /\ pc = [t \in Threads |-> "idle"]
  /\ mem = [n \in Nodes |-> UNLOCKED]
  /\ \E n \in Nodes : tail = n /\ allocated = {n}
  /\ head = NULL
  /\ node = [t \in Threads |-> NULL]
  /\ prev = [t \in Threads |-> NULL]

-----------------------------------------------------------------------------
AllIdle == \A t \in Threads : pc[t] = "idle"

\* Called once nobody uses the lock.
Destroy ==
  /\ AllIdle /\ tail # NULL
  /\ allocated' = allocated \ {tail}
  /\ tail' = NULL
  /\ UNCHANGED <<page, pc, mem, head, locals>>

\* I_clh_lock_base_init() of the next lock.
InitAgain ==
  /\ AllIdle /\ tail = NULL
  /\ \E n \in Nodes : NodeNew(n, UNLOCKED) /\ tail' = n
  /\ head' = NULL
  /\ UNCHANGED <<page, pc, locals>>

CallLock(t) ==
  /\ tail # NULL
  /\ Goto(t, "idle", "new")
  /\ UNCHANGED <<page, heap, fields, locals>>

New(t) ==
  /\ Goto(t, "new", "swap")
  /\ \E n \in Nodes : NodeNew(n, LOCKED) /\ node' = [node EXCEPT ![t] = n]
  /\ UNCHANGED <<page, fields, prev>>

Swap(t) ==
  /\ Goto(t, "swap", "first_load")
  /\ prev' = [prev EXCEPT ![t] = tail]
  /\ tail' = node[t]
  /\ UNCHANGED <<page, heap, head, node>>

FirstLoad(t) ==
  /\ Goto(t, "first_load", IF mem[prev[t]] = LOCKED THEN "set_for" ELSE "free")
  /\ UNCHANGED <<page, heap, fields, locals>>

\* The page is not armed, so nobody reads it between these two stores.
SetForAndNeq(t) ==
  /\ Goto(t, "set_for", "set_mem")
  /\ page' = [page EXCEPT ![t] = Kernel!SetWatchNeq(Kernel!SetWatchFor(@, UNLOCKED), 0)]
  /\ UNCHANGED <<heap, fields, locals>>

\* The page is armed last.
SetMem(t) ==
  /\ Goto(t, "set_mem", "read_head")
  /\ page' = [page EXCEPT ![t] = Kernel!SetWatchMem(@, prev[t])]
  /\ UNCHANGED <<heap, fields, locals>>

\* lock->head decides whether the wait pauses or, after a while, yields.
ReadHead(t) ==
  /\ Goto(t, "read_head", IF head = prev[t] THEN "wait_next" ELSE "wait_far")
  /\ UNCHANGED <<page, heap, fields, locals>>

Wait(t) ==
  /\ pc[t] \in {"wait_next", "wait_far"}
  /\ Goto(t, pc[t], IF mem[prev[t]] # LOCKED THEN "disarm" ELSE pc[t])
  /\ UNCHANGED <<page, heap, fields, locals>>

\* Mutant: the page still watches the node that is freed next.
DisarmForgotten(t) ==
  /\ Goto(t, "disarm", "free")
  /\ UNCHANGED <<page, heap, fields, locals>>

Disarm(t) ==
  /\ Goto(t, "disarm", "free")
  /\ page' = [page EXCEPT ![t] = Kernel!SetWatchMem(@, NULL)]
  /\ UNCHANGED <<heap, fields, locals>>

Free(t) ==
  /\ Goto(t, "free", "save")
  /\ allocated' = allocated \ {prev[t]}
  /\ prev' = [prev EXCEPT ![t] = NULL]
  /\ UNCHANGED <<page, mem, fields, node>>

SaveHead(t) ==
  /\ Goto(t, "save", "holding")
  /\ head' = node[t]
  /\ node' = [node EXCEPT ![t] = NULL]
  /\ UNCHANGED <<page, heap, tail, prev>>

\* Only the owner changes lock->head, so its load is not a step of its own.
Unlock(t) ==
  /\ Goto(t, "holding", "idle")
  /\ mem' = [mem EXCEPT ![head] = UNLOCKED]
  /\ UNCHANGED <<page, allocated, fields, locals>>

Step(t) ==
  \/ New(t) \/ Swap(t) \/ FirstLoad(t)
  \/ SetForAndNeq(t) \/ SetMem(t) \/ ReadHead(t)
  \/ Wait(t) \/ Disarm(t) \/ Free(t) \/ SaveHead(t)
  \/ Unlock(t)

Next == Destroy \/ InitAgain \/ \E t \in Threads : CallLock(t) \/ Step(t)

Spec == Init /\ [][Next]_vars

Runnable(t) == ~Kernel!DontSched(page[t], mem)

FairSpec == Spec /\ \A t \in Threads : WF_vars(Runnable(t) /\ Step(t))

-----------------------------------------------------------------------------
QueuedPcs == {"first_load", "set_for", "set_mem", "read_head", "wait_next", "wait_far", "disarm", "free"}

\* The node whose word unlock() of t sets.
NodeOf(t) == IF Holds(t) THEN head ELSE node[t]

\* t waits for the node u released or will release.
Follows(t, u) == pc[t] \in QueuedPcs /\ prev[t] = NodeOf(u)

ItsTurn(t) == pc[t] \in QueuedPcs /\ mem[prev[t]] = UNLOCKED

\* A node is on the heap exactly from node_new() until its successor, or
\* destroy(), has freed it: nothing is freed early, twice or never, and what a
\* page or the lock points to is not handed out again meanwhile.
InUse == {tail} \cup {prev[t] : t \in Threads} \cup {NodeOf(t) : t \in Threads}

NodesAccounted ==
  /\ allocated = InUse \ {NULL}
  /\ \A t \in Threads : Kernel!IsArmed(page[t]) => page[t].watch_mem \in allocated
  /\ \A t, u \in Threads : t # u /\ prev[t] # NULL => prev[t] # prev[u]

\* "we are next in queue": a thread that waits without yielding waits for the
\* owner.
NextInQueue ==
  \A t \in Threads : pc[t] = "wait_next" => ItsTurn(t) \/ \E u \in Threads : Owns(u) /\ NodeOf(u) = prev[t]
=============================================================================
