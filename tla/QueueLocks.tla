----------------------------- MODULE QueueLocks -----------------------------
(***************************************************************************)
(* The queueing locks, the user autolocks and the stock locks side by      *)
(* side: kind chooses one at Init, and the variables of the others stay as *)
(* they are.  They share what QueueLock states of all of them.             *)
(*                                                                         *)
(* bypass is a history variable: how often another thread got the cohort   *)
(* lock since t drew its ticket for the global lock.                       *)
(***************************************************************************)
EXTENDS QueueLock

CONSTANTS
  Kinds,           \* the locks looked at
  COUNTS, TICKET_COUNTS, LOCAL_COUNTS, ARRAY_COUNTS,  \* 2^32 each
  Nodes,           \* CLH lock
  MAX_THREADS, TRYLOCKS,            \* array lock
  Sockets, SocketsOf, BATCH_COUNT,  \* compact ticket lock
  RSEQ_REGISTERED,                  \* rseq autolock
  RAW_ITERS, YIELD_ITERS, BUFFERED  \* lock_ops

VARIABLES
  kind, bypass,
  next_count, cur_count, ticket,
  mem, allocated, clh_tail, clh_head, node, prev,
  tail, head, flags, slot,
  requests, grant, socket_grant, batch_count, owner_req_num, request, grants, cur_psl, socket, req_num,
  word, tls, created, cs,
  template, waiters, unflushed, loop, iter_count

Ticket == INSTANCE TicketLock WITH COUNTS <- TICKET_COUNTS
Clh == INSTANCE ClhLock WITH tail <- clh_tail, head <- clh_head
Aepfl == INSTANCE AepflLock WITH COUNTS <- ARRAY_COUNTS
Cptltkt == INSTANCE CptltktLock
Spin == INSTANCE UserAutolock WITH RSEQ <- FALSE, mem <- word
Rseq == INSTANCE UserAutolock WITH RSEQ <- TRUE, mem <- word
Ops == INSTANCE LockOps WITH mem <- word

ASSUME QueueLocksAssumption ==
  /\ Kinds \subseteq {"ticket", "clh", "aepfl", "cptltkt", "spin", "rseq", "lock_ops"}
  /\ Ticket!CountsAssumption /\ Clh!NodesAssumption /\ Aepfl!SlotsAssumption /\ Cptltkt!CohortAssumption
  /\ Spin!AutolockAssumption /\ Ops!OpsAssumption

ticketVars == <<next_count, cur_count, ticket>>
clhVars == <<mem, allocated, clh_tail, clh_head, node, prev>>
aepflVars == <<tail, head, flags, slot>>
cptltktVars == <<requests, grant, socket_grant, batch_count, owner_req_num, request, grants, cur_psl, socket, req_num>>
autolockVars == <<tls, created, cs>>
opsVars == <<template, waiters, unflushed, loop, iter_count>>
state == <<page, pc, kind, ticketVars, clhVars, aepflVars, cptltktVars, word, autolockVars, opsVars>>
vars == <<state, bypass>>

\* A lock fresh from init(); the ticket lock also after any number of uses.
Init ==
  /\ kind \in Kinds
  /\ Ticket!Init /\ (kind # "ticket" => next_count = 0)
  /\ Clh!Init /\ clh_tail = CHOOSE n \in Nodes : TRUE
  /\ Aepfl!Init
  /\ Cptltkt!Init
  /\ Spin!Init /\ (kind \notin {"spin", "rseq"} => \A t \in Threads : ~created[t])
  /\ Ops!Init /\ (kind # "lock_ops" => template.max_raw_iter = 0)
  /\ bypass = [t \in Threads |-> 0]

Others(unused) == UNCHANGED <<kind, unused>>
OnlyTicket == kind = "ticket" /\ Others(<<clhVars, aepflVars, cptltktVars, word, autolockVars, opsVars>>)
OnlyClh == kind = "clh" /\ Others(<<ticketVars, aepflVars, cptltktVars, word, autolockVars, opsVars>>)
OnlyAepfl == kind = "aepfl" /\ Others(<<ticketVars, clhVars, cptltktVars, word, autolockVars, opsVars>>)
OnlyCptltkt == kind = "cptltkt" /\ Others(<<ticketVars, clhVars, aepflVars, word, autolockVars, opsVars>>)
OnlyAutolock(k) == kind = k /\ Others(<<ticketVars, clhVars, aepflVars, cptltktVars, opsVars>>)
OnlyOps == kind = "lock_ops" /\ Others(<<ticketVars, clhVars, aepflVars, cptltktVars, autolockVars>>)

Moves ==
  \/ OnlyTicket /\ Ticket!Next
  \/ OnlyClh /\ Clh!Next
  \/ OnlyAepfl /\ Aepfl!Next
  \/ OnlyCptltkt /\ Cptltkt!Next
  \/ OnlyAutolock("spin") /\ Spin!Next
  \/ OnlyAutolock("rseq") /\ Rseq!Next
  \/ OnlyOps /\ Ops!Next

CountBypass ==
  bypass' = [t \in Threads |->
    IF Cptltkt!WaitsForGlobal(t)
    THEN bypass[t] + Cardinality({u \in Threads : Holds(u)' /\ ~Holds(u)}) ELSE 0]

Next == Moves /\ IF kind = "cptltkt" THEN CountBypass ELSE UNCHANGED bypass

\* What the scheduler owes a thread: its next step, unless its page holds it back.
Step(t) ==
  \/ OnlyTicket /\ Ticket!Runnable(t) /\ Ticket!Step(t)
  \/ OnlyClh /\ Clh!Runnable(t) /\ Clh!Step(t)
  \/ OnlyAepfl /\ Aepfl!Runnable(t) /\ Aepfl!Step(t)
  \/ OnlyCptltkt /\ Cptltkt!Runnable(t) /\ Cptltkt!Step(t)
  \/ OnlyAutolock("spin") /\ Spin!Runnable(t) /\ Spin!Step(t)
  \/ OnlyAutolock("rseq") /\ Rseq!Runnable(t) /\ Rseq!Step(t)
  \/ OnlyOps /\ Ops!Step(t)

Spec == Init /\ [][Next]_vars

Fairness == \A t \in Threads : WF_state(Step(t)) /\ WF_state(OnlyOps /\ Ops!Drain(t))
FairSpec == Spec /\ Fairness

-----------------------------------------------------------------------------
\* The variables of the chosen lock keep their types.
TypeOK ==
  CASE kind = "ticket" -> Ticket!TypeOK
    [] kind = "clh" -> Clh!TypeOK
    [] kind = "aepfl" -> Aepfl!TypeOK
    [] kind = "cptltkt" -> Cptltkt!TypeOK
    [] kind = "spin" -> Spin!TypeOK
    [] kind = "rseq" -> Rseq!TypeOK
    [] kind = "lock_ops" -> Ops!TypeOK

Runnable(t) ==
  CASE kind = "ticket" -> Ticket!Runnable(t)
    [] kind = "clh" -> Clh!Runnable(t)
    [] kind = "aepfl" -> Aepfl!Runnable(t)
    [] kind = "cptltkt" -> Cptltkt!Runnable(t)
    [] kind = "spin" -> Spin!Runnable(t)
    [] kind = "rseq" -> Rseq!Runnable(t)
    [] kind = "lock_ops" -> TRUE

ItsTurn(t) ==
  CASE kind = "ticket" -> Ticket!ItsTurn(t)
    [] kind = "clh" -> Clh!ItsTurn(t)
    [] kind = "aepfl" -> Aepfl!ItsTurn(t)
    [] kind = "cptltkt" -> Cptltkt!ItsTurn(t)
    [] kind = "spin" -> Spin!ItsTurn(t)
    [] kind = "rseq" -> Rseq!ItsTurn(t)
    [] kind = "lock_ops" -> Ops!ItsTurn(t)

\* The page names a word, and watch_for does not belong to it yet or any more.
\* The other locks arm the page last.
HalfArmed(t) ==
  CASE kind = "ticket" -> Ticket!HalfArmed(t)
    [] kind = "aepfl" -> Aepfl!HalfArmed(t)
    [] kind = "cptltkt" -> Cptltkt!HalfArmed(t)
    [] OTHER -> FALSE

\* The comment of the ticket lock: "as once the thread acquires the lock
\* lock->cur_count will equal ticket_num so the thread will still be
\* schedulable".  A thread is never held back once the word it waits for says
\* that it is its turn, for then everybody behind it waits for ever.
TurnIsSchedulable == \A t \in Threads : ItsTurn(t) => Runnable(t)

\* A thread is held back only while it waits, and never at its turn unless it was
\* switched out where its page is half armed: CLH and the user autolocks, which
\* arm the page last, never hold back the thread that is to go on.
HeldBackBeforeTurn ==
  \A t \in Threads : ~Runnable(t) => Waits(t) /\ (ItsTurn(t) => HalfArmed(t))

\* The lock passes to nobody: the thread whose turn it is is held back with its
\* page half armed, or the waiters of the futex sleep on a free lock.
Stuck ==
  \/ \E t \in Threads : HalfArmed(t) /\ ItsTurn(t) /\ ~Runnable(t)
  \/ kind = "lock_ops" /\ Ops!Stranded

\* The locks implement LockSpec, and with its deadlock freedom although a thread
\* that its page holds back may never run: a free lock that is waited for finds an
\* owner unless it ends up stuck, and there is no other way to lose it.
ImplementsLock == Lock!Spec /\ (<>[]Stuck \/ Lock!Progress)

\* The same without exception; the code refutes it.
DeadlockFree == Lock!FairSpec

\* t entered the queue right before, or somewhere before, u.
Before(t, u) ==
  CASE kind = "ticket" -> Ticket!Before(t, u)
    [] kind = "clh" -> Clh!Follows(u, t) /\ Waits(t)
    [] kind = "aepfl" -> Aepfl!Before(t, u)
    [] OTHER -> FALSE

\* t has seen that it is its turn.
Served(t) == Owns(t) \/ pc[t] \in {"disarm", "free", "save"}

\* The ticket, CLH and array locks are FIFO, whatever the counters wrap to and
\* whichever addresses malloc reuses: nobody overtakes a thread that entered
\* the queue before.
FirstComeFirstServed ==
  [][\A t, u \in Threads : Before(t, u) /\ Waits(t)' => ~Served(u)']_vars

\* The CLH lock frees each node once and watches no freed one.
NodesAccounted == kind = "clh" => Clh!NodesAccounted

\* The array lock has one flag set.
OneFlagSet == kind = "aepfl" => Aepfl!OneFlagSet

\* The cohort lock keeps the global lock with the mark of the socket.
SocketGrantIsOwned == kind = "cptltkt" => Cptltkt!SocketGrantIsOwned

\* Whoever waits for the global lock is passed by at most one batch, and the
\* thread that ends it, of each other socket, however many threads queue there.
BatchIsBounded ==
  \A t \in Threads : bypass[t] <= (BATCH_COUNT + 1) * (Cardinality(Sockets) - 1)

\* Nobody waits for ever for a queueing lock that does not get stuck, however often
\* the threads of another socket come and go: a batch is bounded.
NoStarvation ==
  \A t \in Threads : []<>(kind \in {"spin", "rseq", "lock_ops"} \/ ~Waits(t) \/ Stuck)

\* "Arm/re-arm lock", in the assembly of the rseq autolock.
ArmedInBackoff == kind = "rseq" => Rseq!ArmedInBackoff

\* "we are next in queue", in the CLH lock.
NextInQueue == kind = "clh" => Clh!NextInQueue
=============================================================================
