---------------------------- MODULE CptltktLock ----------------------------
(***************************************************************************)
(* cptltkt-lock-base.h: a cohort lock.  The threads of a socket take turns *)
(* by a ticket lock of their own (requests, grant), the sockets by a       *)
(* partitioned ticket lock (request, grants[]).  unlock() passes the       *)
(* global lock on inside its socket batch_count times before it lets the   *)
(* other sockets have it.                                                  *)
(*                                                                         *)
(* get_current_socket() answers any socket the thread may run on.  The     *)
(* counts are 32-bit words that wrap: LOCAL_COUNTS and COUNTS, a multiple  *)
(* of the number of sockets, both stand for 2^32.  Words that only the     *)
(* owner of a lock uses change with the step that follows or precedes      *)
(* them.  trylock() is assert(0), so it ends the program.                  *)
(***************************************************************************)
EXTENDS QueueLock

CONSTANTS Sockets, SocketsOf, BATCH_COUNT, LOCAL_COUNTS, COUNTS

CohortAssumption ==
  /\ IsFiniteSet(Sockets) /\ Sockets # {} /\ Sockets = 0 .. Cardinality(Sockets) - 1
  /\ SocketsOf \in [Threads -> SUBSET Sockets]
  /\ BATCH_COUNT \in Nat
  /\ LOCAL_COUNTS \in Nat \ {0}
  /\ \A s \in Sockets : Cardinality({t \in Threads : s \in SocketsOf[t]}) <= LOCAL_COUNTS
  /\ COUNTS \in Nat /\ COUNTS % Cardinality(Sockets) = 0 /\ COUNTS > Cardinality(Sockets)

VARIABLES
  requests, grant,            \* the local ticket lock of each socket
  socket_grant, batch_count,  \* the global lock is passed on; how often it may still be
  owner_req_num,              \* the global ticket of the socket
  request, grants,            \* the global ticket lock
  cur_psl,                    \* the socket that owns the global lock
  socket, req_num             \* local_lock and the ticket of a thread

vars == <<page, pc, requests, grant, socket_grant, batch_count, owner_req_num, request, grants, cur_psl, socket, req_num>>
local == <<requests, grant, socket_grant, batch_count, owner_req_num>>
global == <<request, grants, cur_psl>>

Counts == 0 .. COUNTS - 1
LocalCounts == 0 .. LOCAL_COUNTS - 1
Succ(n) == (n + 1) % COUNTS
LocalSucc(n) == (n + 1) % LOCAL_COUNTS
Idx(n) == n % Cardinality(Sockets)

\* The words a page may watch: local grants and global grants.
Words == {"local", "global"} \X Sockets
Mem == [w \in Words |-> IF w[1] = "local" THEN grant[w[2]] ELSE grants[w[2]]]
Kernel == INSTANCE AutolockPage WITH Values <- Counts \cup LocalCounts

TypeOK ==
  /\ page \in [Threads -> Kernel!Page]
  /\ pc \in [Threads -> {"idle", "draw", "arm_local", "wait_local", "has_local", "disarm_local", "draw_global",
                         "set_global_for", "set_global_neq", "set_global_mem", "wait_global", "disarm_global",
                         "set_owner", "holding", "ul_batch", "ul_pass", "ul_global", "ul_local"}]
  /\ requests \in [Sockets -> LocalCounts] /\ grant \in [Sockets -> LocalCounts]
  /\ socket_grant \in [Sockets -> BOOLEAN]
  /\ batch_count \in [Sockets -> 0 .. BATCH_COUNT]
  /\ owner_req_num \in [Sockets -> Counts]
  /\ request \in Counts /\ grants \in [Sockets -> Counts]
  /\ cur_psl \in Sockets \cup {NULL}
  /\ socket \in [Threads -> Sockets] /\ req_num \in [Threads -> Counts \cup LocalCounts]

Init ==
  /\ page = [t \in Threads |-> Kernel!ZeroPage]
  /\ pc = [t \in Threads |-> "idle"]
  /\ requests = [s \in Sockets |-> 0] /\ grant = [s \in Sockets |-> 0]
  /\ socket_grant = [s \in Sockets |-> FALSE]
  /\ batch_count = [s \in Sockets |-> 0]
  /\ owner_req_num = [s \in Sockets |-> 0]
  /\ request = 0 /\ grants = [s \in Sockets |-> 0]
  /\ cur_psl = NULL
  /\ socket = [t \in Threads |-> 0] /\ req_num = [t \in Threads |-> 0]

-----------------------------------------------------------------------------
CallLock(t) ==
  /\ Goto(t, "idle", "draw")
  /\ \E s \in SocketsOf[t] : socket' = [socket EXCEPT ![t] = s]
  /\ UNCHANGED <<page, local, global, req_num>>

DrawLocal(t) ==
  /\ Goto(t, "draw", "arm_local")
  /\ req_num' = [req_num EXCEPT ![t] = requests[socket[t]]]
  /\ requests' = [requests EXCEPT ![socket[t]] = LocalSucc(@)]
  /\ UNCHANGED <<page, grant, socket_grant, batch_count, owner_req_num, global, socket>>

SetPage(t, from, to, set) ==
  /\ Goto(t, from, to)
  /\ page' = [page EXCEPT ![t] = set]
  /\ UNCHANGED <<local, global, socket, req_num>>

\* The local wait arms the page last, so nobody reads it half set.
ArmLocal(t) ==
  SetPage(t, "arm_local", "wait_local",
          [watch_mem |-> <<"local", socket[t]>>, watch_for |-> req_num[t], watch_neq |-> 0])

WaitLocal(t) ==
  /\ Goto(t, "wait_local", IF grant[socket[t]] = req_num[t] THEN "has_local" ELSE "wait_local")
  /\ UNCHANGED <<page, local, global, socket, req_num>>

\* Mutant: the socket keeps the mark that the global lock was passed on.
SocketGrantStays(t) ==
  /\ Goto(t, "has_local", IF socket_grant[socket[t]] THEN "disarm_local" ELSE "draw_global")
  /\ UNCHANGED <<page, local, global, socket, req_num>>

HasLocal(t) ==
  /\ Goto(t, "has_local", IF socket_grant[socket[t]] THEN "disarm_local" ELSE "draw_global")
  /\ socket_grant' = [socket_grant EXCEPT ![socket[t]] = FALSE]
  /\ UNCHANGED <<page, requests, grant, batch_count, owner_req_num, global, socket, req_num>>

\* watch_for and watch_neq of a page that is not armed are dead values: lock()
\* stores both before it arms the page again.
DisarmLocal(t) == SetPage(t, "disarm_local", "holding", Kernel!ZeroPage)

DrawGlobal(t) ==
  /\ Goto(t, "draw_global", "set_global_for")
  /\ req_num' = [req_num EXCEPT ![t] = request]
  /\ request' = Succ(request)
  /\ UNCHANGED <<page, local, grants, cur_psl, socket>>

\* watch_for is changed while watch_mem still names the local grant.
SetGlobalFor(t) == SetPage(t, "set_global_for", "set_global_neq", Kernel!SetWatchFor(page[t], req_num[t]))
SetGlobalNeq(t) == SetPage(t, "set_global_neq", "set_global_mem", Kernel!SetWatchNeq(page[t], 0))
SetGlobalMem(t) == SetPage(t, "set_global_mem", "wait_global", Kernel!SetWatchMem(page[t], <<"global", Idx(req_num[t])>>))

WaitGlobal(t) ==
  /\ Goto(t, "wait_global", IF grants[Idx(req_num[t])] = req_num[t] THEN "disarm_global" ELSE "wait_global")
  /\ UNCHANGED <<page, local, global, socket, req_num>>

DisarmGlobal(t) == SetPage(t, "disarm_global", "set_owner", Kernel!ZeroPage)

SetOwner(t) ==
  /\ Goto(t, "set_owner", "holding")
  /\ cur_psl' = socket[t]
  /\ owner_req_num' = [owner_req_num EXCEPT ![socket[t]] = req_num[t]]
  /\ UNCHANGED <<page, requests, grant, socket_grant, batch_count, request, grants, socket, req_num>>

-----------------------------------------------------------------------------
\* unlock() works on cur_psl; req_num is next_grant.
UnlockBegin(t, next_grant, to) ==
  /\ Goto(t, "holding", to)
  /\ socket' = [socket EXCEPT ![t] = cur_psl]
  /\ req_num' = [req_num EXCEPT ![t] = next_grant]
  /\ UNCHANGED <<page, requests, grant, socket_grant, owner_req_num, global>>

\* Mutant: the batch is not counted down, so the socket never lets go.
BatchNotCounted(t) ==
  LET next_grant == LocalSucc(grant[cur_psl])
  IN  /\ UnlockBegin(t, next_grant, IF requests[cur_psl] # next_grant THEN "ul_batch" ELSE "ul_global")
      /\ UNCHANGED batch_count

UnlockLoads(t) ==
  LET next_grant == LocalSucc(grant[cur_psl])
      followed == requests[cur_psl] # next_grant
      passes == followed /\ batch_count[cur_psl] # 0
  IN  /\ UnlockBegin(t, next_grant, IF passes THEN "ul_batch" ELSE "ul_global")
      /\ batch_count' = [batch_count EXCEPT ![cur_psl] =
                           IF passes THEN @ - 1 ELSE IF followed THEN BATCH_COUNT ELSE @]

UnlockSocketGrant(t) ==
  /\ Goto(t, "ul_batch", "ul_pass")
  /\ socket_grant' = [socket_grant EXCEPT ![socket[t]] = TRUE]
  /\ UNCHANGED <<page, requests, grant, batch_count, owner_req_num, global, socket, req_num>>

\* The locals go out of scope.
Return(t, from) ==
  /\ Goto(t, from, "idle")
  /\ socket' = [socket EXCEPT ![t] = 0]
  /\ req_num' = [req_num EXCEPT ![t] = 0]

UnlockPass(t) ==
  /\ Return(t, "ul_pass")
  /\ grant' = [grant EXCEPT ![socket[t]] = req_num[t]]
  /\ UNCHANGED <<page, requests, socket_grant, batch_count, owner_req_num, global>>

\* Mutant: the ticket after the thread's own instead of after its socket's.
UnlockGlobalOwnTicket(t) ==
  /\ Goto(t, "ul_global", "ul_local")
  /\ grants' = [grants EXCEPT ![Idx(req_num[t])] = req_num[t]]
  /\ UNCHANGED <<page, local, request, cur_psl, socket, req_num>>

\* The two stores of a hand-over "can safely reorder", by the comment of the code:
\* the model has the order of the source, which x86 keeps, and not the one that a
\* compiler may choose instead.
UnlockGlobal(t) ==
  /\ Goto(t, "ul_global", "ul_local")
  /\ LET next == Succ(owner_req_num[socket[t]])
     IN  grants' = [grants EXCEPT ![Idx(next)] = next]
  /\ UNCHANGED <<page, local, request, cur_psl, socket, req_num>>

UnlockLocal(t) ==
  /\ Return(t, "ul_local")
  /\ grant' = [grant EXCEPT ![socket[t]] = req_num[t]]
  /\ UNCHANGED <<page, requests, socket_grant, batch_count, owner_req_num, global>>

Step(t) ==
  \/ DrawLocal(t) \/ ArmLocal(t) \/ WaitLocal(t) \/ HasLocal(t) \/ DisarmLocal(t)
  \/ DrawGlobal(t) \/ SetGlobalFor(t) \/ SetGlobalNeq(t) \/ SetGlobalMem(t)
  \/ WaitGlobal(t) \/ DisarmGlobal(t) \/ SetOwner(t)
  \/ UnlockLoads(t) \/ UnlockSocketGrant(t) \/ UnlockPass(t) \/ UnlockGlobal(t) \/ UnlockLocal(t)

Next == \E t \in Threads : CallLock(t) \/ Step(t)

Spec == Init /\ [][Next]_vars

Runnable(t) == ~Kernel!DontSched(page[t], Mem)

FairSpec == Spec /\ \A t \in Threads : WF_vars(Runnable(t) /\ Step(t))

-----------------------------------------------------------------------------
WaitsForGlobal(t) == pc[t] \in {"set_global_for", "set_global_neq", "set_global_mem", "wait_global"}

\* watch_mem names the local grant, watch_for is the global ticket.
HalfArmed(t) == pc[t] \in {"set_global_neq", "set_global_mem"}

\* The word a thread waits for shows its ticket.
ItsTurn(t) ==
  \/ pc[t] \in {"arm_local", "wait_local"} /\ grant[socket[t]] = req_num[t]
  \/ pc[t] \in {"has_local", "disarm_local", "draw_global", "disarm_global", "set_owner"}
  \/ WaitsForGlobal(t) /\ grants[Idx(req_num[t])] = req_num[t]

\* A socket that is marked as owner of the global lock is the one that owns it,
\* and a waiting thread of it is about to find the mark: the global lock is not
\* lost with the mark.
SocketGrantIsOwned ==
  \A s \in Sockets : socket_grant[s] =>
    /\ cur_psl = s
    /\ \E t \in Threads : socket[t] = s /\ (pc[t] = "ul_pass" \/ ItsTurn(t))
=============================================================================
