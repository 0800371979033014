-------------------------- MODULE QueueLocksProofs --------------------------
(***************************************************************************)
(* What is proved of the locks of QueueLocks, for any number of threads,   *)
(* nodes, slots and sockets and any size of the counters.  Each lock has   *)
(* an inductive invariant: who is in its queue and with which ticket, slot *)
(* or node (ClhQueue, AepflQueue, CohortQueues, ...), and what an armed    *)
(* page watches (ClhPage, AepflPage, CohortPage, ...).                     *)
(*                                                                         *)
(* The ticket, array and cohort locks share one argument: the tickets out  *)
(* are those from the one served up to the next free one, each of them     *)
(* once (Out), although the counters wrap.  The cohort lock is two of      *)
(* them, one among the threads of a socket and one among the sockets.      *)
(*                                                                         *)
(* How often a thread is passed in the cohort lock is bounded by what it   *)
(* may still be passed (CohortBounded): the rest of the batch of the       *)
(* socket served, and a whole batch of every other one before its own.     *)
(***************************************************************************)
EXTENDS QueueLocks, Integers, FiniteSetTheorems, WellFoundedInduction, TLAPS

\* How tickets, slots and counters go round: 32-bit words that wrap.

\* A set of numbers has a least element.
LEMMA Least ==
  ASSUME NEW S, S \subseteq Nat, S # {}
  PROVE  \E m \in S : \A n \in S : m <= n
<1>1. PICK m \in S : \A n \in S : ~(<<n, m>> \in OpToRel(<, Nat))
  BY NatLessThanWellFounded, WFMin
<1>2. \A n \in S : ~(n < m)
  BY <1>1 DEF OpToRel
<1> QED
  BY <1>2

\* What a remainder is.
LEMMA ModTyped ==
  ASSUME NEW x \in Int, NEW M \in Nat \ {0} PROVE x % M \in 0 .. M - 1
  OBVIOUS

LEMMA ModUnique ==
  ASSUME NEW M \in Nat \ {0}, NEW q \in Int, NEW r \in 0 .. M - 1, NEW x, x = M * q + r
  PROVE  x % M = r
<1>1. (M * q + r) % M = r
  OBVIOUS
<1> QED
  BY <1>1

LEMMA ModQuotient ==
  ASSUME NEW M \in Nat \ {0}, NEW x \in Nat
  PROVE  \E q \in Nat, r \in 0 .. M - 1 : x % M = r /\ x = M * q + r
<1> DEFINE S == {q \in Nat : M * (q + 1) > x}
<1>1. x \in S
  <2>1. M * (x + 1) >= x + 1
    OBVIOUS
  <2> QED
    BY <2>1
<1>2. PICK q \in S : \A p \in S : q <= p
  BY <1>1, Least
<1>3. q \in Nat /\ M * (q + 1) > x
  BY <1>2
<1>4. M * q <= x
  <2>1. CASE q = 0
    BY <2>1
  <2>2. CASE q # 0
    <3>1. q - 1 \in Nat /\ q - 1 \notin S
      BY <1>2, <1>3, <2>2
    <3>2. ~(M * ((q - 1) + 1) > x)
      BY <3>1
    <3>3. (q - 1) + 1 = q
      BY <1>3
    <3>4. M * q \in Nat
      BY <1>3
    <3> QED
      BY <3>2, <3>3, <3>4
  <2> QED
    BY <2>1, <2>2
<1>5. M * (q + 1) = M * q + M /\ M * q \in Nat
  BY <1>3
<1> DEFINE r == x - M * q
<1>6. r \in 0 .. M - 1 /\ x = M * q + r /\ q \in Nat /\ q \in Int
  BY <1>3, <1>4, <1>5
<1> HIDE DEF r, S
<1>7. x % M = r
  BY <1>6, ModUnique, Zenon
<1> QED
  BY <1>6, <1>7

\* A counter modulo M steps along the ring.
LEMMA ModSucc ==
  ASSUME NEW M \in Nat \ {0}, NEW x \in Nat
  PROVE  (x + 1) % M = IF (x % M) + 1 = M THEN 0 ELSE (x % M) + 1
<1>1. PICK q \in Nat, r \in 0 .. M - 1 : x % M = r /\ x = M * q + r
  BY ModQuotient
<1>2. r \in 0 .. M - 1 /\ x % M = r
  BY <1>1
<1>3. x = M * q + r
  BY <1>1
<1> DEFINE y == x + 1
<1>4. CASE r + 1 = M
  <2> DEFINE p == q + 1
             s == 0
  <2>1. M * (q + 1) = M * q + M /\ M * q \in Nat
    BY <1>1
  <2>2. y = M * p + s /\ p \in Int /\ s \in 0 .. M - 1
    BY <1>2, <1>3, <1>4, <2>1
  <2> HIDE DEF p, s, y
  <2>3. y % M = s
    BY <2>2, ModUnique, Zenon
  <2> QED
    BY <1>2, <1>4, <2>3 DEF s, y
<1>5. CASE r + 1 # M
  <2> DEFINE s == r + 1
  <2>1. s \in 0 .. M - 1 /\ M * q \in Nat /\ q \in Int
    BY <1>1, <1>2, <1>5
  <2>2. y = M * q + s
    BY <1>2, <1>3, <2>1
  <2> HIDE DEF s, y
  <2>3. y % M = s
    BY <2>1, <2>2, ModUnique, Zenon
  <2> QED
    BY <1>2, <1>5, <2>3 DEF s, y
<1> QED
  BY <1>4, <1>5

RSucc(n, M) == IF n + 1 = M THEN 0 ELSE n + 1
RDist(a, b, M) == IF a <= b THEN b - a ELSE b + M - a

Out(Q, tk, cur, next, M) ==
  /\ M \in Nat \ {0} /\ cur \in 0 .. M - 1 /\ next \in 0 .. M - 1
  /\ IsFiniteSet(Q) /\ Cardinality(Q) <= M
  /\ IF Cardinality(Q) = M THEN next = cur ELSE RDist(cur, next, M) = Cardinality(Q)
  /\ \A t \in Q : tk[t] \in 0 .. M - 1 /\ RDist(cur, tk[t], M) < Cardinality(Q)
  /\ \A t, u \in Q : tk[t] = tk[u] => t = u

\* The tickets of the queue Q of a lock with M tickets: cur is served, next is free.
LEMMA OutTyped ==
  ASSUME NEW Q, NEW tk, NEW cur, NEW next, NEW M, Out(Q, tk, cur, next, M)
  PROVE  M \in Nat \ {0} /\ cur \in 0 .. M - 1 /\ next \in 0 .. M - 1 /\ IsFiniteSet(Q) /\ Cardinality(Q) \in Nat
  BY FS_CardinalityType DEF Out

\* Who joins gets the free ticket, if one is left.
LEMMA OutJoins ==
  ASSUME NEW Q, NEW tk, NEW cur, NEW next, NEW M, Out(Q, tk, cur, next, M),
         NEW t, t \notin Q, Cardinality(Q) < M,
         NEW tk2, tk2[t] = next, \A u \in Q : tk2[u] = tk[u]
  PROVE  Out(Q \cup {t}, tk2, cur, RSucc(next, M), M)
<1> DEFINE n == Cardinality(Q)
<1>1. M \in Nat \ {0} /\ cur \in 0 .. M - 1 /\ next \in 0 .. M - 1 /\ IsFiniteSet(Q) /\ n \in Nat
  BY OutTyped
<1>2. IsFiniteSet(Q \cup {t}) /\ Cardinality(Q \cup {t}) = n + 1
  BY <1>1, FS_AddElement
<1>3. n < M /\ RDist(cur, next, M) = n
  BY <1>1 DEF Out
<1>4. \A u \in Q : tk[u] \in 0 .. M - 1 /\ RDist(cur, tk[u], M) < n
  BY DEF Out
<1>5. \A u, v \in Q : tk[u] = tk[v] => u = v
  BY DEF Out
<1> HIDE DEF n
<1>6. RSucc(next, M) \in 0 .. M - 1
  BY <1>1 DEF RSucc
<1>7. IF n + 1 = M THEN RSucc(next, M) = cur ELSE RDist(cur, RSucc(next, M), M) = n + 1
  BY <1>1, <1>3 DEF RSucc, RDist
<1>8. \A u \in Q : tk[u] # next
  BY <1>1, <1>3, <1>4
<1>9. \A u \in Q \cup {t} : tk2[u] \in 0 .. M - 1 /\ RDist(cur, tk2[u], M) < n + 1
  <2>1. ASSUME NEW u \in Q PROVE tk2[u] \in 0 .. M - 1 /\ RDist(cur, tk2[u], M) < n + 1
    BY <1>1, <1>4 DEF RDist
  <2>2. tk2[t] \in 0 .. M - 1 /\ RDist(cur, tk2[t], M) < n + 1
    BY <1>1, <1>3
  <2> QED
    BY <2>1, <2>2
<1>10. \A u, v \in Q \cup {t} : tk2[u] = tk2[v] => u = v
  <2>1. SUFFICES ASSUME NEW u \in Q \cup {t}, NEW v \in Q \cup {t}, tk2[u] = tk2[v] PROVE u = v
    OBVIOUS
  <2>2. \A w \in Q : tk2[w] = tk[w] /\ tk2[w] # tk2[t]
    BY <1>8
  <2> QED
    BY <1>5, <2>1, <2>2
<1>11. n + 1 <= M
  BY <1>1, <1>3
<1> DEFINE Q2 == Q \cup {t}
           m == n + 1
           next2 == RSucc(next, M)
<1>12. IsFiniteSet(Q2) /\ Cardinality(Q2) = m /\ m <= M /\ next2 \in 0 .. M - 1
  BY <1>2, <1>6, <1>11
<1>13. IF m = M THEN next2 = cur ELSE RDist(cur, next2, M) = m
  BY <1>7
<1>14. /\ \A u \in Q2 : tk2[u] \in 0 .. M - 1 /\ RDist(cur, tk2[u], M) < m
       /\ \A u, v \in Q2 : tk2[u] = tk2[v] => u = v
  BY <1>9, <1>10
<1> HIDE DEF Q2, m, next2
<1>15. Out(Q2, tk2, cur, next2, M)
  BY <1>1, <1>12, <1>13, <1>14 DEF Out
<1> QED
  BY <1>15 DEF Q2, next2

\* Who is served leaves, and the next ticket is served.
LEMMA OutServes ==
  ASSUME NEW Q, NEW tk, NEW cur, NEW next, NEW M, Out(Q, tk, cur, next, M),
         NEW t \in Q, tk[t] = cur, NEW tk2, \A u \in Q \ {t} : tk2[u] = tk[u]
  PROVE  Out(Q \ {t}, tk2, RSucc(cur, M), next, M)
<1> DEFINE n == Cardinality(Q)
<1>1. M \in Nat \ {0} /\ cur \in 0 .. M - 1 /\ next \in 0 .. M - 1 /\ IsFiniteSet(Q) /\ n \in Nat
  BY OutTyped
<1>2. IsFiniteSet(Q \ {t}) /\ Cardinality(Q \ {t}) = n - 1
  BY <1>1, FS_RemoveElement
<1>3. n > 0 /\ n <= M /\ (IF n = M THEN next = cur ELSE RDist(cur, next, M) = n)
  BY <1>1, FS_EmptySet DEF Out
<1>4. \A u \in Q : tk[u] \in 0 .. M - 1 /\ RDist(cur, tk[u], M) < n
  BY DEF Out
<1>5. \A u, v \in Q : tk[u] = tk[v] => u = v
  BY DEF Out
<1> HIDE DEF n
<1>6. RSucc(cur, M) \in 0 .. M - 1
  BY <1>1 DEF RSucc
<1>7. RDist(RSucc(cur, M), next, M) = n - 1
  BY <1>1, <1>3 DEF RSucc, RDist
<1>8. \A u \in Q \ {t} : tk2[u] \in 0 .. M - 1 /\ RDist(RSucc(cur, M), tk2[u], M) < n - 1
  <2>1. SUFFICES ASSUME NEW u \in Q \ {t} PROVE tk2[u] \in 0 .. M - 1 /\ RDist(RSucc(cur, M), tk2[u], M) < n - 1
    OBVIOUS
  <2>2. tk2[u] = tk[u] /\ tk[u] # cur /\ tk[u] \in 0 .. M - 1 /\ RDist(cur, tk[u], M) < n
    BY <1>4, <1>5
  <2> QED
    BY <1>1, <2>2 DEF RSucc, RDist
<1>9. \A u, v \in Q \ {t} : tk2[u] = tk2[v] => u = v
  BY <1>5
<1> QED
  BY <1>1, <1>2, <1>3, <1>6, <1>7, <1>8, <1>9 DEF Out

LEMMA OutKept ==
  ASSUME NEW Q, NEW tk, NEW cur, NEW next, NEW M, Out(Q, tk, cur, next, M),
         NEW tk2, \A u \in Q : tk2[u] = tk[u]
  PROVE  Out(Q, tk2, cur, next, M)
  BY DEF Out

\* Nobody has the ticket that was served last, unless all tickets are out.
LEMMA ServedLast ==
  ASSUME NEW Q, NEW tk, NEW cur, NEW next, NEW M, Out(Q, tk, cur, next, M), Cardinality(Q) < M,
         NEW t \in Q
  PROVE  RSucc(tk[t], M) # cur
<1> DEFINE n == Cardinality(Q)
<1>1. M \in Nat \ {0} /\ cur \in 0 .. M - 1 /\ n \in Nat
  BY OutTyped
<1>2. n < M /\ tk[t] \in 0 .. M - 1 /\ RDist(cur, tk[t], M) < n
  BY DEF Out
<1> HIDE DEF n
<1> QED
  BY <1>1, <1>2 DEF RDist, RSucc

-----------------------------------------------------------------------------
\* The CLH lock.

ClhPcs == {"idle", "new", "swap", "first_load", "set_for", "set_mem", "read_head",
           "wait_next", "wait_far", "disarm", "free", "save", "holding"}
ClhArmedPcs == {"read_head", "wait_next", "wait_far", "disarm"}

\* Who waits for the node of another thread, who has a node of its own, and whom
\* the queue has let pass.
Follows(t) == pc[t] \in Clh!QueuedPcs
Has(t) == pc[t] \in Clh!QueuedPcs \cup {"swap", "save", "holding"}
Passed(t) == pc[t] \in {"save", "holding"}

\* The nodes of the queue: each thread in it waits for one, the next will.
Linked(n) == n = clh_tail \/ \E t \in Threads : prev[t] = n

ClhTyped ==
  /\ pc \in [Threads -> ClhPcs]
  /\ mem \in [Nodes -> {Clh!LOCKED, Clh!UNLOCKED}]
  /\ allocated \subseteq Nodes
  /\ clh_tail \in Nodes \cup {NULL} /\ clh_head \in Nodes \cup {NULL}
  /\ node \in [Threads -> Nodes \cup {NULL}] /\ prev \in [Threads -> Nodes \cup {NULL}]
  /\ \A t \in Threads : prev[t] # NULL <=> Follows(t)
  /\ \A t \in Threads : Clh!NodeOf(t) # NULL <=> Has(t)
  /\ \A t \in Threads : pc[t] = "holding" => node[t] = NULL

\* The queue is a chain: a node of it belongs to one thread and is waited for by
\* one, and the heap has these nodes and those on their way into the queue.
ClhChain ==
  /\ \A n \in Nodes : n \in allocated <=> Linked(n) \/ \E t \in Threads : pc[t] = "swap" /\ node[t] = n
  /\ \A t, u \in Threads : Has(t) /\ Has(u) /\ Clh!NodeOf(t) = Clh!NodeOf(u) => t = u
  /\ \A t, u \in Threads : t # u /\ Follows(t) => prev[t] # prev[u]
  /\ \A t \in Threads : Follows(t) => prev[t] # clh_tail
  /\ \A t \in Threads : Has(t) => (Linked(Clh!NodeOf(t)) <=> pc[t] # "swap")
  /\ clh_tail = NULL => \A t \in Threads : pc[t] = "idle"

\* At most one node lets a thread pass, and none while a thread has passed.
ClhTurn ==
  /\ \A t \in Threads : Has(t) => mem[Clh!NodeOf(t)] = Clh!LOCKED
  /\ \A m, n \in Nodes : Linked(m) /\ Linked(n) /\ mem[m] = Clh!UNLOCKED /\ mem[n] = Clh!UNLOCKED => m = n
  /\ \A t \in Threads, n \in Nodes : Passed(t) /\ Linked(n) => mem[n] = Clh!LOCKED
  /\ \A t, u \in Threads : Passed(t) /\ Passed(u) => t = u
  /\ \A t \in Threads : pc[t] \in {"disarm", "free"} => mem[prev[t]] = Clh!UNLOCKED

\* An armed page watches the node its thread waits for.
ClhPage ==
  /\ page \in [Threads -> [watch_mem : Nodes \cup {NULL}, watch_for : {Clh!LOCKED, Clh!UNLOCKED}, watch_neq : {0, 1}]]
  /\ \A t \in Threads : page[t].watch_mem # NULL => pc[t] \in ClhArmedPcs /\ page[t].watch_mem = prev[t]
  /\ \A t \in Threads : pc[t] \in {"set_mem"} \cup ClhArmedPcs =>
       page[t].watch_for = Clh!UNLOCKED /\ page[t].watch_neq = 0

ClhQueue == ClhTyped /\ ClhChain /\ ClhTurn
ClhInv == ClhQueue /\ ClhPage

LEMMA NullIsNoNode == NULL \notin Nodes
  BY QueueLocksAssumption DEF Clh!NodesAssumption

LEMMA ClhInit == ASSUME Clh!Init PROVE ClhInv
<1>1. PICK n \in Nodes : clh_tail = n /\ allocated = {n}
  BY DEF Clh!Init
<1>2. \A t \in Threads : pc[t] = "idle" /\ node[t] = NULL /\ prev[t] = NULL /\ ~Has(t) /\ ~Follows(t) /\ ~Passed(t)
  BY DEF Clh!Init, Has, Follows, Passed, Clh!QueuedPcs
<1>3. \A m \in Nodes : Linked(m) <=> m = n
  BY <1>1, <1>2, NullIsNoNode DEF Linked
<1>4. ClhTyped
  BY <1>1, <1>2 DEF Clh!Init, ClhTyped, ClhPcs, Clh!NodeOf, Clh!Holds
<1>5. ClhChain
  BY <1>1, <1>2, <1>3, NullIsNoNode DEF ClhChain
<1>6. ClhTurn
  BY <1>2, <1>3 DEF ClhTurn
<1>7. ClhPage
  BY <1>2 DEF Clh!Init, ClhPage, Clh!Kernel!ZeroPage, Clh!LOCKED, ClhArmedPcs
<1> QED
  BY <1>4, <1>5, <1>6, <1>7 DEF ClhInv, ClhQueue

\* A step of t that leaves the nodes and the queue alone.
LEMMA ClhMoves ==
  ASSUME ClhQueue, NEW t \in Threads, NEW to, pc' = [pc EXCEPT ![t] = to],
         UNCHANGED clhVars,
         \/ pc[t] = "idle" /\ to = "new" /\ clh_tail # NULL
         \/ /\ pc[t] \in Clh!QueuedPcs /\ to \in Clh!QueuedPcs
            /\ to \in {"disarm", "free"} => mem[prev[t]] = Clh!UNLOCKED
  PROVE  ClhQueue'
<1> USE DEF clhVars
<1>1. ClhTyped /\ ClhChain /\ ClhTurn
  BY DEF ClhQueue
<1>2. pc'[t] = to /\ \A u \in Threads \ {t} : pc'[u] = pc[u]
  BY <1>1 DEF ClhTyped
<1>3. \A u \in Threads : /\ Has(u)' <=> Has(u)
                         /\ Follows(u)' <=> Follows(u)
                         /\ Passed(u)' <=> Passed(u)
                         /\ (pc'[u] = "swap" <=> pc[u] = "swap")
                         /\ (pc'[u] = "holding" <=> pc[u] = "holding")
  BY <1>2 DEF Has, Follows, Passed, Clh!QueuedPcs
<1>4. \A u \in Threads : Clh!NodeOf(u)' = Clh!NodeOf(u)
  BY <1>3 DEF Clh!NodeOf, Clh!Holds
<1>5. \A n : Linked(n)' <=> Linked(n)
  BY DEF Linked
<1>6. ClhTyped'
  BY <1>1, <1>2, <1>3, <1>4 DEF ClhTyped, ClhPcs, Clh!QueuedPcs
<1>7. ClhChain'
  BY <1>1, <1>2, <1>3, <1>4, <1>5 DEF ClhChain, Clh!QueuedPcs
<1>8. ClhTurn'
  BY <1>1, <1>2, <1>3, <1>4, <1>5 DEF ClhTurn
<1> QED
  BY <1>6, <1>7, <1>8 DEF ClhQueue

\* node_new() of t: what it gets was not on the heap.
LEMMA ClhNew == ASSUME ClhQueue, NEW t \in Threads, Clh!New(t) PROVE ClhQueue'
<1>1. ClhTyped /\ ClhChain /\ ClhTurn
  BY DEF ClhQueue
<1>2. PICK n \in Nodes : /\ n \notin allocated /\ allocated' = allocated \cup {n}
                         /\ mem' = [mem EXCEPT ![n] = Clh!LOCKED] /\ node' = [node EXCEPT ![t] = n]
  BY DEF Clh!New, Clh!NodeNew
<1>3. /\ pc[t] = "new" /\ pc'[t] = "swap" /\ \A u \in Threads \ {t} : pc'[u] = pc[u]
      /\ UNCHANGED <<clh_tail, clh_head, prev>>
  BY <1>1 DEF Clh!New, Clh!Goto, Clh!fields, ClhTyped
<1>4. /\ Has(t)' /\ ~Has(t) /\ ~Follows(t) /\ ~Follows(t)' /\ ~Passed(t) /\ ~Passed(t)'
      /\ \A u \in Threads \ {t} : (Has(u)' <=> Has(u)) /\ (Follows(u)' <=> Follows(u)) /\ (Passed(u)' <=> Passed(u))
  BY <1>3 DEF Has, Follows, Passed, Clh!QueuedPcs
<1>5. node'[t] = n /\ Clh!NodeOf(t)' = n /\ \A u \in Threads \ {t} : Clh!NodeOf(u)' = Clh!NodeOf(u) /\ node'[u] = node[u]
  BY <1>1, <1>2, <1>3 DEF Clh!NodeOf, Clh!Holds, ClhTyped
<1>6. (\A m : Linked(m)' <=> Linked(m)) /\ ~Linked(n)
  BY <1>1, <1>2, <1>3 DEF Linked, ClhChain
<1>7. mem'[n] = Clh!LOCKED /\ \A m \in Nodes \ {n} : mem'[m] = mem[m]
  BY <1>1, <1>2 DEF ClhTyped
<1>8. \A u \in Threads : Has(u) => Clh!NodeOf(u) \in Nodes \ {n}
  <2>1. SUFFICES ASSUME NEW u \in Threads, Has(u) PROVE Clh!NodeOf(u) \in Nodes /\ Clh!NodeOf(u) # n
    OBVIOUS
  <2>2. Clh!NodeOf(u) \in Nodes
    BY <1>1, <2>1 DEF ClhTyped, Clh!NodeOf
  <2>3. CASE pc[u] = "swap"
    <3>1. node[u] = Clh!NodeOf(u)
      BY <2>3 DEF Clh!NodeOf, Clh!Holds
    <3>2. node[u] \in allocated
      BY <1>1, <2>2, <2>3, <3>1 DEF ClhChain
    <3> QED
      BY <1>2, <2>2, <3>1, <3>2
  <2>4. CASE pc[u] # "swap"
    <3>1. Linked(Clh!NodeOf(u))
      BY <1>1, <2>1, <2>4 DEF ClhChain
    <3>2. Clh!NodeOf(u) \in allocated
      BY <1>1, <2>2, <3>1 DEF ClhChain
    <3> QED
      BY <1>2, <2>2, <3>2
  <2> QED
    BY <2>2, <2>3, <2>4
<1>9. n # NULL
  BY NullIsNoNode
<1>10. ClhTyped'
  BY <1>1, <1>2, <1>3, <1>4, <1>5, <1>9 DEF ClhTyped, ClhPcs, Clh!New, Clh!Goto
<1>11. \A u \in Threads : prev'[u] = prev[u] /\ (Follows(u) => prev[u] \in Nodes)
  BY <1>1, <1>3 DEF ClhTyped
<1>12. ClhChain'
  <2>1. \A m \in Nodes : m \in allocated' <=> Linked(m)' \/ \E u \in Threads : pc'[u] = "swap" /\ node'[u] = m
    BY <1>1, <1>2, <1>3, <1>5, <1>6 DEF ClhChain
  <2>2. \A u, v \in Threads : Has(u)' /\ Has(v)' /\ Clh!NodeOf(u)' = Clh!NodeOf(v)' => u = v
    BY <1>1, <1>4, <1>5, <1>8 DEF ClhChain
  <2>3. \A u \in Threads : Has(u)' => (Linked(Clh!NodeOf(u))' <=> pc'[u] # "swap")
    BY <1>1, <1>3, <1>4, <1>5, <1>6, <1>8 DEF ClhChain
  <2>4. /\ \A u, v \in Threads : u # v /\ Follows(u)' => prev'[u] # prev'[v]
        /\ \A u \in Threads : Follows(u)' => prev'[u] # clh_tail'
        /\ clh_tail' = NULL => \A u \in Threads : pc'[u] = "idle"
    BY <1>1, <1>3, <1>4 DEF ClhChain
  <2> QED
    BY <2>1, <2>2, <2>3, <2>4 DEF ClhChain
<1>13. ClhTurn'
  <2>1. \A u \in Threads : Has(u)' => mem'[Clh!NodeOf(u)'] = Clh!LOCKED
    BY <1>1, <1>4, <1>5, <1>7, <1>8 DEF ClhTurn
  <2>2. \A m \in Nodes : Linked(m)' => Linked(m) /\ mem'[m] = mem[m]
    BY <1>6, <1>7
  <2>3. \A u \in Threads : Follows(u) => Linked(prev[u]) /\ prev[u] \in Nodes
    BY <1>11 DEF Linked
  <2>4. \A u \in Threads : pc'[u] \in {"disarm", "free"} => mem'[prev'[u]] = Clh!UNLOCKED
    BY <1>1, <1>3, <1>6, <1>7, <1>11, <2>3 DEF ClhTurn, Follows, Clh!QueuedPcs
  <2> QED
    BY <1>1, <1>4, <2>1, <2>2, <2>4 DEF ClhTurn
<1> QED
  BY <1>10, <1>12, <1>13 DEF ClhQueue

\* The exchange puts the node of t at the end of the queue.
LEMMA ClhSwap == ASSUME ClhQueue, NEW t \in Threads, Clh!Swap(t) PROVE ClhQueue'
<1> DEFINE n == node[t]
           p == clh_tail
<1>1. ClhTyped /\ ClhChain /\ ClhTurn
  BY DEF ClhQueue
<1>2. /\ pc[t] = "swap" /\ pc'[t] = "first_load" /\ \A u \in Threads \ {t} : pc'[u] = pc[u]
      /\ prev'[t] = p /\ \A u \in Threads \ {t} : prev'[u] = prev[u]
      /\ clh_tail' = n /\ UNCHANGED <<mem, allocated, clh_head, node>>
  BY <1>1 DEF Clh!Swap, Clh!Goto, Clh!heap, ClhTyped
<1>3. /\ Has(t) /\ Has(t)' /\ ~Follows(t) /\ Follows(t)' /\ ~Passed(t) /\ ~Passed(t)'
      /\ \A u \in Threads \ {t} : (Has(u)' <=> Has(u)) /\ (Follows(u)' <=> Follows(u)) /\ (Passed(u)' <=> Passed(u))
  BY <1>2 DEF Has, Follows, Passed, Clh!QueuedPcs
<1>4. Clh!NodeOf(t) = n /\ \A u \in Threads : Clh!NodeOf(u)' = Clh!NodeOf(u)
  BY <1>2 DEF Clh!NodeOf, Clh!Holds
<1>5. n \in Nodes /\ ~Linked(n) /\ n # p /\ mem[n] = Clh!LOCKED
  BY <1>1, <1>2, <1>3, <1>4 DEF ClhTyped, ClhChain, ClhTurn, Linked
<1>6. p \in Nodes /\ prev[t] = NULL
  BY <1>1, <1>2, <1>3 DEF ClhTyped, ClhChain
<1>7. n # NULL /\ p # NULL
  BY <1>5, <1>6, NullIsNoNode
<1> HIDE DEF n, p
<1>8. \A m \in Nodes : Linked(m)' <=> Linked(m) \/ m = n
  <2>1. SUFFICES ASSUME NEW m \in Nodes PROVE Linked(m)' <=> Linked(m) \/ m = n
    OBVIOUS
  <2>2. prev[t] # m
    BY <1>6, NullIsNoNode
  <2> QED
    BY <1>2, <2>2 DEF Linked, p
<1>9. ClhTyped'
  BY <1>1, <1>2, <1>3, <1>4, <1>5, <1>6, <1>7 DEF ClhTyped, ClhPcs, Clh!Swap, Clh!Goto, p
<1>10. ClhChain'
  <2>1. \A m \in Nodes : m \in allocated' <=> Linked(m)' \/ \E u \in Threads : pc'[u] = "swap" /\ node'[u] = m
    <3>1. SUFFICES ASSUME NEW m \in Nodes
                   PROVE  m \in allocated' <=> Linked(m)' \/ \E u \in Threads : pc'[u] = "swap" /\ node'[u] = m
      OBVIOUS
    <3>2. (\E u \in Threads : pc[u] = "swap" /\ node[u] = m)
            <=> (\E u \in Threads : pc'[u] = "swap" /\ node'[u] = m) \/ m = n
      BY <1>2 DEF n
    <3> QED
      BY <1>1, <1>2, <1>8, <3>2 DEF ClhChain
  <2>2. \A u, v \in Threads : Has(u)' /\ Has(v)' /\ Clh!NodeOf(u)' = Clh!NodeOf(v)' => u = v
    BY <1>1, <1>3, <1>4 DEF ClhChain
  <2>3. \A u \in Threads : Follows(u) => prev[u] \in Nodes /\ prev[u] # p /\ prev[u] # n
    <3>1. SUFFICES ASSUME NEW u \in Threads, Follows(u) PROVE prev[u] \in Nodes /\ prev[u] # p /\ prev[u] # n
      OBVIOUS
    <3>2. prev[u] \in Nodes /\ prev[u] # p
      BY <1>1, <3>1 DEF ClhTyped, ClhChain, p
    <3>3. Linked(prev[u])
      BY DEF Linked
    <3> QED
      BY <1>5, <3>2, <3>3
  <2>4. \A u, v \in Threads : u # v /\ Follows(u)' => prev'[u] # prev'[v]
    <3>1. SUFFICES ASSUME NEW u \in Threads, NEW v \in Threads, u # v, Follows(u)' PROVE prev'[u] # prev'[v]
      OBVIOUS
    <3>2. CASE u = t
      <4>1. v # t /\ prev'[v] = prev[v] /\ prev'[u] = p
        BY <1>2, <3>1, <3>2
      <4>2. prev[v] # p
        <5>1. CASE Follows(v)
          BY <2>3, <5>1
        <5>2. CASE ~Follows(v)
          BY <1>1, <1>7, <5>2 DEF ClhTyped
        <5> QED
          BY <5>1, <5>2
      <4> QED
        BY <4>1, <4>2
    <3>3. CASE v = t
      BY <1>2, <1>3, <2>3, <3>1, <3>3
    <3>4. CASE u # t /\ v # t
      BY <1>1, <1>2, <1>3, <3>1, <3>4 DEF ClhChain
    <3> QED
      BY <3>2, <3>3, <3>4
  <2>5. \A u \in Threads : Follows(u)' => prev'[u] # clh_tail'
    BY <1>2, <1>3, <1>5, <2>3
  <2>6. \A u \in Threads : Has(u)' => (Linked(Clh!NodeOf(u))' <=> pc'[u] # "swap")
    <3>1. SUFFICES ASSUME NEW u \in Threads, Has(u)' PROVE Linked(Clh!NodeOf(u))' <=> pc'[u] # "swap"
      OBVIOUS
    <3>2. Has(u) /\ Clh!NodeOf(u) \in Nodes
      BY <1>1, <1>3, <3>1 DEF ClhTyped, Clh!NodeOf
    <3>3. Clh!NodeOf(u)' \in Nodes /\ Clh!NodeOf(u)' = Clh!NodeOf(u)
      BY <1>4, <3>2
    <3>4. Linked(Clh!NodeOf(u))' <=> Linked(Clh!NodeOf(u)) \/ Clh!NodeOf(u) = n
      <4> DEFINE m == Clh!NodeOf(u)
      <4>1. m \in Nodes /\ m' = m
        BY <3>2, <3>3
      <4>2. Linked(m)' <=> clh_tail' = m' \/ \E v \in Threads : prev'[v] = m'
        BY DEF Linked
      <4>3. Linked(m) <=> clh_tail = m \/ \E v \in Threads : prev[v] = m
        BY DEF Linked
      <4> HIDE DEF m
      <4>4. prev[t] # m
        BY <1>6, <4>1, NullIsNoNode
      <4>5. Linked(m)' <=> Linked(m) \/ m = n
        BY <1>2, <4>1, <4>2, <4>3, <4>4 DEF p
      <4> QED
        BY <4>5 DEF m
    <3> QED
      BY <1>1, <1>2, <1>3, <1>4, <3>2, <3>4 DEF ClhChain
  <2> QED
    BY <1>2, <1>7, <2>1, <2>2, <2>4, <2>5, <2>6 DEF ClhChain
<1>11. ClhTurn'
  <2>1. \A u \in Threads : Has(u)' => mem'[Clh!NodeOf(u)'] = Clh!LOCKED
    BY <1>1, <1>2, <1>3, <1>4 DEF ClhTurn
  <2>2. \A m \in Nodes : Linked(m)' /\ mem'[m] = Clh!UNLOCKED => Linked(m) /\ mem[m] = Clh!UNLOCKED
    BY <1>2, <1>5, <1>8 DEF Clh!LOCKED, Clh!UNLOCKED
  <2>3. \A u \in Threads, m \in Nodes : Passed(u)' /\ Linked(m)' => mem'[m] = Clh!LOCKED
    BY <1>1, <1>2, <1>3, <1>5, <1>8 DEF ClhTurn
  <2>4. \A u \in Threads : pc'[u] \in {"disarm", "free"} => mem'[prev'[u]] = Clh!UNLOCKED
    BY <1>1, <1>2 DEF ClhTurn
  <2> QED
    BY <1>1, <1>3, <2>1, <2>2, <2>3, <2>4 DEF ClhTurn
<1> QED
  BY <1>9, <1>10, <1>11 DEF ClhQueue

\* t frees the node of its predecessor: the one that let it pass, the only one.
LEMMA ClhFree == ASSUME ClhQueue, NEW t \in Threads, Clh!Free(t) PROVE ClhQueue'
<1> DEFINE p == prev[t]
<1>1. ClhTyped /\ ClhChain /\ ClhTurn
  BY DEF ClhQueue
<1>2. /\ pc[t] = "free" /\ pc'[t] = "save" /\ \A u \in Threads \ {t} : pc'[u] = pc[u]
      /\ prev'[t] = NULL /\ \A u \in Threads \ {t} : prev'[u] = prev[u]
      /\ allocated' = allocated \ {p} /\ UNCHANGED <<mem, clh_tail, clh_head, node>>
  BY <1>1 DEF Clh!Free, Clh!Goto, Clh!fields, ClhTyped
<1>3. /\ Has(t) /\ Has(t)' /\ Follows(t) /\ ~Follows(t)' /\ ~Passed(t) /\ Passed(t)'
      /\ \A u \in Threads \ {t} : (Has(u)' <=> Has(u)) /\ (Follows(u)' <=> Follows(u)) /\ (Passed(u)' <=> Passed(u))
  BY <1>2 DEF Has, Follows, Passed, Clh!QueuedPcs
<1>4. \A u \in Threads : Clh!NodeOf(u)' = Clh!NodeOf(u)
  BY <1>2 DEF Clh!NodeOf, Clh!Holds
<1>5. p \in Nodes /\ Linked(p) /\ p # clh_tail /\ mem[p] = Clh!UNLOCKED
  BY <1>1, <1>2, <1>3 DEF ClhTyped, ClhChain, ClhTurn, Linked
<1>6. p # NULL
  BY <1>5, NullIsNoNode
<1>7. \A u \in Threads \ {t} : prev[u] # p
  BY <1>1, <1>3 DEF ClhChain
<1> HIDE DEF p
<1>8. \A m \in Nodes : Linked(m)' <=> Linked(m) /\ m # p
  <2>1. SUFFICES ASSUME NEW m \in Nodes PROVE Linked(m)' <=> Linked(m) /\ m # p
    OBVIOUS
  <2>2. m # NULL
    BY NullIsNoNode
  <2> QED
    BY <1>2, <1>5, <1>7, <2>2 DEF Linked, p
<1>9. \A u \in Threads : Has(u) => Clh!NodeOf(u) \in Nodes /\ Clh!NodeOf(u) # p
  <2>1. SUFFICES ASSUME NEW u \in Threads, Has(u) PROVE Clh!NodeOf(u) \in Nodes /\ Clh!NodeOf(u) # p
    OBVIOUS
  <2>2. Clh!NodeOf(u) \in Nodes /\ mem[Clh!NodeOf(u)] = Clh!LOCKED
    BY <1>1, <2>1 DEF ClhTyped, ClhTurn, Clh!NodeOf
  <2> QED
    BY <1>5, <2>2 DEF Clh!LOCKED, Clh!UNLOCKED
<1>10. ClhTyped'
  BY <1>1, <1>2, <1>3, <1>4 DEF ClhTyped, ClhPcs, Clh!Free, Clh!Goto
<1>11. ClhChain'
  <2>1. \A m \in Nodes : m \in allocated' <=> Linked(m)' \/ \E u \in Threads : pc'[u] = "swap" /\ node'[u] = m
    <3>1. SUFFICES ASSUME NEW m \in Nodes
                   PROVE  m \in allocated' <=> Linked(m)' \/ \E u \in Threads : pc'[u] = "swap" /\ node'[u] = m
      OBVIOUS
    <3>2. ASSUME NEW u \in Threads, pc[u] = "swap" PROVE node[u] # p
      BY <1>9, <3>2 DEF Has, Clh!NodeOf, Clh!Holds
    <3> QED
      BY <1>1, <1>2, <1>8, <3>2 DEF ClhChain
  <2>2. \A u, v \in Threads : Has(u)' /\ Has(v)' /\ Clh!NodeOf(u)' = Clh!NodeOf(v)' => u = v
    BY <1>1, <1>3, <1>4 DEF ClhChain
  <2>3. \A u, v \in Threads : u # v /\ Follows(u)' => prev'[u] # prev'[v]
    BY <1>1, <1>2, <1>3 DEF ClhChain, ClhTyped
  <2>4. \A u \in Threads : Follows(u)' => prev'[u] # clh_tail'
    BY <1>1, <1>2, <1>3 DEF ClhChain
  <2>5. \A u \in Threads : Has(u)' => (Linked(Clh!NodeOf(u))' <=> pc'[u] # "swap")
    <3>1. SUFFICES ASSUME NEW u \in Threads, Has(u)' PROVE Linked(Clh!NodeOf(u))' <=> pc'[u] # "swap"
      OBVIOUS
    <3> DEFINE m == Clh!NodeOf(u)
    <3>2. Has(u) /\ m \in Nodes /\ m # p /\ m' = m
      BY <1>3, <1>4, <1>9, <3>1
    <3>3. (Linked(m)' <=> clh_tail' = m' \/ \E v \in Threads : prev'[v] = m')
          /\ (Linked(m) <=> clh_tail = m \/ \E v \in Threads : prev[v] = m)
      BY DEF Linked
    <3>4. Linked(m) <=> pc[u] # "swap"
      BY <1>1, <3>2 DEF ClhChain
    <3> HIDE DEF m
    <3>5. m # NULL
      BY <3>2, NullIsNoNode
    <3>6. Linked(m)' <=> Linked(m)
      BY <1>2, <3>2, <3>3, <3>5 DEF p
    <3> QED
      BY <1>2, <3>4, <3>6 DEF m
  <2> QED
    BY <1>1, <1>2, <2>1, <2>2, <2>3, <2>4, <2>5 DEF ClhChain
<1>12. ClhTurn'
  <2>1. \A u \in Threads : Has(u)' => mem'[Clh!NodeOf(u)'] = Clh!LOCKED
    BY <1>1, <1>2, <1>3, <1>4 DEF ClhTurn
  <2>2. \A m \in Nodes : Linked(m)' => mem'[m] = Clh!LOCKED
    BY <1>1, <1>2, <1>5, <1>8 DEF ClhTurn, ClhTyped
  <2>3. \A u \in Threads : Passed(u) => FALSE
    BY <1>1, <1>5 DEF ClhTurn, Clh!LOCKED, Clh!UNLOCKED
  <2>4. \A u \in Threads : pc'[u] \in {"disarm", "free"} => mem'[prev'[u]] = Clh!UNLOCKED
    BY <1>1, <1>2 DEF ClhTurn
  <2> QED
    BY <1>3, <2>1, <2>2, <2>3, <2>4 DEF ClhTurn, Clh!LOCKED, Clh!UNLOCKED
<1> QED
  BY <1>10, <1>11, <1>12 DEF ClhQueue

\* The owner writes its node down, for unlock().
LEMMA ClhSaveHead == ASSUME ClhQueue, NEW t \in Threads, Clh!SaveHead(t) PROVE ClhQueue'
<1>1. ClhTyped /\ ClhChain /\ ClhTurn
  BY DEF ClhQueue
<1>2. /\ pc[t] = "save" /\ pc'[t] = "holding" /\ \A u \in Threads \ {t} : pc'[u] = pc[u]
      /\ clh_head' = node[t] /\ node'[t] = NULL /\ \A u \in Threads \ {t} : node'[u] = node[u]
      /\ UNCHANGED <<mem, allocated, clh_tail, prev>>
  BY <1>1 DEF Clh!SaveHead, Clh!Goto, Clh!heap, ClhTyped
<1>3. /\ Passed(t) /\ \A u \in Threads : (Has(u)' <=> Has(u)) /\ (Follows(u)' <=> Follows(u)) /\ (Passed(u)' <=> Passed(u))
  BY <1>2 DEF Has, Follows, Passed, Clh!QueuedPcs
<1>4. \A u \in Threads \ {t} : pc[u] # "holding"
  BY <1>1, <1>3 DEF ClhTurn, Passed
<1>5. \A u \in Threads : Clh!NodeOf(u)' = Clh!NodeOf(u)
  BY <1>2, <1>4 DEF Clh!NodeOf, Clh!Holds
<1>6. \A n : Linked(n)' <=> Linked(n)
  BY <1>2 DEF Linked
<1>7. \A u \in Threads : (pc'[u] = "swap" <=> pc[u] = "swap") /\ (pc[u] = "swap" => node'[u] = node[u])
  BY <1>2
<1>8. ClhTyped'
  BY <1>1, <1>2, <1>3, <1>4, <1>5 DEF ClhTyped, ClhPcs, Clh!SaveHead, Clh!Goto
<1>9. ClhChain'
  <2>1. \A u \in Threads : Has(u)' => (Linked(Clh!NodeOf(u))' <=> pc'[u] # "swap")
    BY <1>1, <1>2, <1>3, <1>5, <1>7 DEF ClhChain, Linked
  <2> QED
    BY <1>1, <1>2, <1>3, <1>5, <1>6, <1>7, <2>1 DEF ClhChain
<1>10. ClhTurn'
  BY <1>1, <1>2, <1>3, <1>5, <1>6 DEF ClhTurn
<1> QED
  BY <1>8, <1>9, <1>10 DEF ClhQueue

\* The word of the owner's node is the only one that lets a thread pass then.
LEMMA ClhUnlock == ASSUME ClhQueue, NEW t \in Threads, Clh!Unlock(t) PROVE ClhQueue'
<1> DEFINE h == clh_head
<1>1. ClhTyped /\ ClhChain /\ ClhTurn
  BY DEF ClhQueue
<1>2. /\ pc[t] = "holding" /\ pc'[t] = "idle" /\ \A u \in Threads \ {t} : pc'[u] = pc[u]
      /\ mem' = [mem EXCEPT ![h] = Clh!UNLOCKED] /\ UNCHANGED <<allocated, clh_tail, clh_head, node, prev>>
  BY <1>1 DEF Clh!Unlock, Clh!Goto, Clh!fields, Clh!locals, ClhTyped
<1>3. /\ Has(t) /\ ~Has(t)' /\ ~Follows(t) /\ ~Follows(t)' /\ Passed(t) /\ ~Passed(t)'
      /\ \A u \in Threads \ {t} : (Has(u)' <=> Has(u)) /\ (Follows(u)' <=> Follows(u)) /\ (Passed(u)' <=> Passed(u))
  BY <1>2 DEF Has, Follows, Passed, Clh!QueuedPcs
<1>4. \A u \in Threads \ {t} : ~Passed(u)
  BY <1>1, <1>3 DEF ClhTurn
<1>5. Clh!NodeOf(t) = h /\ \A u \in Threads \ {t} : Clh!NodeOf(u)' = Clh!NodeOf(u)
  BY <1>2, <1>4 DEF Clh!NodeOf, Clh!Holds, Passed
<1>6. h \in Nodes /\ Linked(h) /\ node[t] = NULL
  BY <1>1, <1>2, <1>3, <1>5 DEF ClhTyped, ClhChain
<1>7. mem'[h] = Clh!UNLOCKED /\ \A m \in Nodes \ {h} : mem'[m] = mem[m]
  BY <1>1, <1>2, <1>6 DEF ClhTyped
<1>8. \A m : Linked(m)' <=> Linked(m)
  BY <1>2 DEF Linked
<1>9. \A u \in Threads \ {t} : Has(u) => Clh!NodeOf(u) \in Nodes \ {h}
  <2>1. SUFFICES ASSUME NEW u \in Threads \ {t}, Has(u) PROVE Clh!NodeOf(u) \in Nodes /\ Clh!NodeOf(u) # h
    OBVIOUS
  <2>2. Clh!NodeOf(u) \in Nodes
    BY <1>1, <2>1 DEF ClhTyped, Clh!NodeOf
  <2>3. Clh!NodeOf(u) # Clh!NodeOf(t)
    BY <1>1, <1>3, <2>1 DEF ClhChain
  <2> QED
    BY <1>5, <2>2, <2>3
<1>10. Clh!NodeOf(t)' = NULL
  BY <1>2, <1>6 DEF Clh!NodeOf, Clh!Holds
<1> HIDE DEF h
<1>11. ClhTyped'
  <2>1. mem' \in [Nodes -> {Clh!LOCKED, Clh!UNLOCKED}]
    BY <1>1, <1>2 DEF ClhTyped
  <2>2. \A u \in Threads : Clh!NodeOf(u)' # NULL <=> Has(u)'
    BY <1>1, <1>3, <1>5, <1>10 DEF ClhTyped
  <2> QED
    BY <1>1, <1>2, <1>3, <2>1, <2>2 DEF ClhTyped, ClhPcs, Clh!Unlock, Clh!Goto
<1>12. ClhChain'
  <2>1. \A u \in Threads : Has(u)' => (Linked(Clh!NodeOf(u))' <=> pc'[u] # "swap")
    BY <1>1, <1>2, <1>3, <1>5 DEF ClhChain, Linked
  <2>2. \A n \in Nodes : n \in allocated' <=> Linked(n)' \/ \E u \in Threads : pc'[u] = "swap" /\ node'[u] = n
    BY <1>1, <1>2, <1>8 DEF ClhChain
  <2>3. clh_tail' # NULL
    BY <1>1, <1>2 DEF ClhChain
  <2> QED
    BY <1>1, <1>2, <1>3, <1>5, <2>1, <2>2, <2>3 DEF ClhChain
<1>13. ClhTurn'
  <2>1. \A u \in Threads : Has(u)' => mem'[Clh!NodeOf(u)'] = Clh!LOCKED
    BY <1>1, <1>3, <1>5, <1>7, <1>9 DEF ClhTurn
  <2>2. \A m \in Nodes : Linked(m)' /\ mem'[m] = Clh!UNLOCKED => m = h
    BY <1>1, <1>3, <1>7, <1>8 DEF ClhTurn, Clh!LOCKED, Clh!UNLOCKED
  <2>3. \A u \in Threads : ~Passed(u)'
    BY <1>3, <1>4
  <2>4. \A u \in Threads : pc'[u] \in {"disarm", "free"} => mem'[prev'[u]] = Clh!UNLOCKED
    BY <1>1, <1>2, <1>7 DEF ClhTurn, ClhTyped, Follows, Clh!QueuedPcs
  <2> QED
    BY <2>1, <2>2, <2>3, <2>4 DEF ClhTurn
<1> QED
  BY <1>11, <1>12, <1>13 DEF ClhQueue

\* While everybody is out of the queue the lock is torn down and set up again.
LEMMA ClhAgain == ASSUME ClhQueue, Clh!Destroy \/ Clh!InitAgain PROVE ClhQueue'
<1>1. ClhTyped /\ ClhChain /\ ClhTurn
  BY DEF ClhQueue
<1>2. /\ \A t \in Threads : pc[t] = "idle" /\ pc'[t] = "idle"
      /\ UNCHANGED <<page, pc, node, prev>>
      /\ clh_head' \in Nodes \cup {NULL} /\ mem' \in [Nodes -> {Clh!LOCKED, Clh!UNLOCKED}]
      /\ allocated' \subseteq Nodes /\ clh_tail' \in Nodes \cup {NULL}
  BY <1>1 DEF Clh!Destroy, Clh!InitAgain, Clh!AllIdle, Clh!NodeNew, Clh!locals, ClhTyped, Clh!UNLOCKED
<1>3. \A t \in Threads : ~Has(t) /\ ~Has(t)' /\ ~Follows(t) /\ ~Follows(t)' /\ ~Passed(t) /\ ~Passed(t)'
  BY <1>2 DEF Has, Follows, Passed, Clh!QueuedPcs
<1>4. \A t \in Threads : prev[t] = NULL /\ prev'[t] = NULL /\ Clh!NodeOf(t) = node[t] /\ Clh!NodeOf(t)' = node'[t]
  BY <1>1, <1>2, <1>3 DEF ClhTyped, Clh!NodeOf, Clh!Holds
<1>5. \A n \in Nodes : (Linked(n) <=> n = clh_tail) /\ (Linked(n)' <=> n = clh_tail')
  BY <1>4, NullIsNoNode DEF Linked
<1>6. ClhTyped'
  BY <1>1, <1>2, <1>3, <1>4 DEF ClhTyped, ClhPcs
<1>7. \A n \in Nodes : n \in allocated' <=> n = clh_tail'
  <2>1. \A n \in Nodes : n \in allocated <=> n = clh_tail
    BY <1>1, <1>2, <1>5 DEF ClhChain
  <2>2. CASE Clh!Destroy
    BY <2>1, <2>2, NullIsNoNode DEF Clh!Destroy
  <2>3. CASE Clh!InitAgain
    BY <2>1, <2>3, NullIsNoNode DEF Clh!InitAgain, Clh!NodeNew
  <2> QED
    BY <2>2, <2>3
<1>8. ClhChain'
  BY <1>2, <1>3, <1>5, <1>7 DEF ClhChain
<1>9. ClhTurn'
  BY <1>2, <1>3, <1>5 DEF ClhTurn
<1> QED
  BY <1>6, <1>8, <1>9 DEF ClhQueue

\* Each step keeps the queue, then each keeps the pages.
LEMMA ClhQueueNext == ASSUME ClhQueue, Clh!Next PROVE ClhQueue'
<1> USE DEF Clh!Goto, Clh!heap, Clh!fields, Clh!locals, clhVars
<1>1. ASSUME NEW t \in Threads, Clh!CallLock(t) PROVE ClhQueue'
  BY <1>1, ClhMoves DEF Clh!CallLock
<1>2. ASSUME NEW t \in Threads, Clh!FirstLoad(t) PROVE ClhQueue'
  <2>1. mem[prev[t]] \in {Clh!LOCKED, Clh!UNLOCKED}
    BY <1>2 DEF Clh!FirstLoad, ClhQueue, ClhTyped, Follows, Clh!QueuedPcs
  <2> QED
    BY <1>2, <2>1, ClhMoves DEF Clh!FirstLoad, Clh!QueuedPcs
<1>3. ASSUME NEW t \in Threads, Clh!SetForAndNeq(t) \/ Clh!SetMem(t) \/ Clh!ReadHead(t) PROVE ClhQueue'
  BY <1>3, ClhMoves DEF Clh!SetForAndNeq, Clh!SetMem, Clh!ReadHead, Clh!QueuedPcs
<1>4. ASSUME NEW t \in Threads, Clh!Wait(t) PROVE ClhQueue'
  <2>1. mem[prev[t]] \in {Clh!LOCKED, Clh!UNLOCKED}
    BY <1>4 DEF Clh!Wait, ClhQueue, ClhTyped, Follows, Clh!QueuedPcs
  <2> QED
    BY <1>4, <2>1, ClhMoves DEF Clh!Wait, Clh!QueuedPcs
<1>5. ASSUME NEW t \in Threads, Clh!Disarm(t) PROVE ClhQueue'
  BY <1>5, ClhMoves DEF Clh!Disarm, Clh!QueuedPcs, ClhQueue, ClhTurn
<1> QED
  BY <1>1, <1>2, <1>3, <1>4, <1>5, ClhNew, ClhSwap, ClhFree, ClhSaveHead, ClhUnlock, ClhAgain DEF Clh!Next, Clh!Step

\* A step of t that leaves its page alone.
LEMMA ClhPageKept ==
  ASSUME ClhTyped, ClhPage, NEW t \in Threads, NEW to, pc' = [pc EXCEPT ![t] = to], UNCHANGED page,
         \A u \in Threads \ {t} : prev'[u] = prev[u],
         \/ pc[t] \notin {"set_mem"} \cup ClhArmedPcs /\ to \notin {"set_mem"} \cup ClhArmedPcs
         \/ pc[t] \in ClhArmedPcs /\ to \in ClhArmedPcs /\ prev'[t] = prev[t]
  PROVE  ClhPage'
<1>1. pc'[t] = to /\ \A u \in Threads \ {t} : pc'[u] = pc[u]
  BY DEF ClhTyped
<1> QED
  BY <1>1 DEF ClhPage, ClhArmedPcs

LEMMA ClhPageNext == ASSUME ClhTyped, ClhPage, Clh!Next PROVE ClhPage'
<1> USE DEF Clh!Goto, Clh!heap, Clh!fields, Clh!locals
<1>1. CASE Clh!Destroy \/ Clh!InitAgain
  BY <1>1 DEF Clh!Destroy, Clh!InitAgain, ClhPage
<1>2. ASSUME NEW t \in Threads,
             Clh!CallLock(t) \/ Clh!New(t) \/ Clh!Swap(t) \/ Clh!Free(t) \/ Clh!SaveHead(t) \/ Clh!Unlock(t)
      PROVE  ClhPage'
  <2>1. UNCHANGED page /\ \A u \in Threads \ {t} : prev'[u] = prev[u]
    BY <1>2 DEF Clh!CallLock, Clh!New, Clh!Swap, Clh!Free, Clh!SaveHead, Clh!Unlock, ClhTyped
  <2>2. PICK to : /\ pc' = [pc EXCEPT ![t] = to]
                  /\ pc[t] \notin {"set_mem"} \cup ClhArmedPcs /\ to \notin {"set_mem"} \cup ClhArmedPcs
    BY <1>2 DEF Clh!CallLock, Clh!New, Clh!Swap, Clh!Free, Clh!SaveHead, Clh!Unlock, ClhArmedPcs
  <2> QED
    BY <2>1, <2>2, ClhPageKept, Zenon
<1>3. ASSUME NEW t \in Threads, Clh!FirstLoad(t) \/ Clh!ReadHead(t) \/ Clh!Wait(t) PROVE ClhPage'
  <2>1. UNCHANGED page /\ \A u \in Threads : prev'[u] = prev[u]
    BY <1>3 DEF Clh!FirstLoad, Clh!ReadHead, Clh!Wait
  <2>2. PICK to : /\ pc' = [pc EXCEPT ![t] = to]
                  /\ \/ pc[t] \notin {"set_mem"} \cup ClhArmedPcs /\ to \notin {"set_mem"} \cup ClhArmedPcs
                     \/ pc[t] \in ClhArmedPcs /\ to \in ClhArmedPcs
    <3>1. CASE Clh!FirstLoad(t)
      <4>1. pc[t] = "first_load" /\ \E to \in {"set_for", "free"} : pc' = [pc EXCEPT ![t] = to]
        BY <3>1 DEF Clh!FirstLoad
      <4>2. \A to \in {"first_load", "set_for", "free"} : to \notin {"set_mem"} \cup ClhArmedPcs
        BY DEF ClhArmedPcs
      <4> QED
        BY <4>1, <4>2
    <3>2. CASE Clh!ReadHead(t)
      BY <3>2 DEF Clh!ReadHead, ClhArmedPcs
    <3>3. CASE Clh!Wait(t)
      BY <3>3 DEF Clh!Wait, ClhArmedPcs
    <3> QED
      BY <1>3, <3>1, <3>2, <3>3, Zenon
  <2> QED
    <3>1. prev'[t] = prev[t] /\ UNCHANGED page /\ \A u \in Threads \ {t} : prev'[u] = prev[u]
      BY <2>1
    <3> QED
      BY <2>2, <3>1, ClhPageKept, Zenon
<1>4. ASSUME NEW t \in Threads, Clh!SetForAndNeq(t) PROVE ClhPage'
  <2>1. /\ pc[t] = "set_for" /\ pc' = [pc EXCEPT ![t] = "set_mem"] /\ prev' = prev
        /\ page' = [page EXCEPT ![t] = [@ EXCEPT !.watch_for = Clh!UNLOCKED, !.watch_neq = 0]]
    BY <1>4 DEF Clh!SetForAndNeq, Clh!Kernel!SetWatchFor, Clh!Kernel!SetWatchNeq
  <2>2. /\ page \in [Threads -> [watch_mem : Nodes \cup {NULL}, watch_for : {Clh!LOCKED, Clh!UNLOCKED}, watch_neq : {0, 1}]]
        /\ pc'[t] = "set_mem" /\ \A u \in Threads \ {t} : pc'[u] = pc[u]
    BY <2>1 DEF ClhPage, ClhTyped
  <2>3. /\ page'[t] = [watch_mem |-> page[t].watch_mem, watch_for |-> Clh!UNLOCKED, watch_neq |-> 0]
        /\ \A u \in Threads \ {t} : page'[u] = page[u]
    BY <2>1, <2>2
  <2>4. page[t].watch_mem = NULL
    BY <2>1 DEF ClhPage, ClhArmedPcs
  <2>5. page' \in [Threads -> [watch_mem : Nodes \cup {NULL}, watch_for : {Clh!LOCKED, Clh!UNLOCKED}, watch_neq : {0, 1}]]
    BY <2>1, <2>2
  <2> QED
    BY <2>1, <2>2, <2>3, <2>4, <2>5 DEF ClhPage
<1>5. ASSUME NEW t \in Threads, Clh!SetMem(t) PROVE ClhPage'
  BY <1>5 DEF Clh!SetMem, ClhPage, ClhTyped, ClhArmedPcs, Clh!Kernel!SetWatchMem
<1>6. ASSUME NEW t \in Threads, Clh!Disarm(t) PROVE ClhPage'
  BY <1>6 DEF Clh!Disarm, ClhPage, ClhTyped, ClhArmedPcs, Clh!Kernel!SetWatchMem
<1> QED
  BY <1>1, <1>2, <1>3, <1>4, <1>5, <1>6 DEF Clh!Next, Clh!Step

LEMMA ClhStutters == ASSUME ClhInv, UNCHANGED <<page, pc, clhVars>> PROVE ClhInv'
<1>1. /\ \A n : Linked(n)' <=> Linked(n)
      /\ \A t \in Threads : (Has(t)' <=> Has(t)) /\ (Follows(t)' <=> Follows(t)) /\ (Passed(t)' <=> Passed(t))
                            /\ Clh!NodeOf(t)' = Clh!NodeOf(t)
  BY DEF clhVars, Linked, Has, Follows, Passed, Clh!NodeOf, Clh!Holds
<1> QED
  BY <1>1 DEF ClhInv, ClhQueue, ClhTyped, ClhChain, ClhTurn, ClhPage, clhVars

LEMMA ClhNext == ASSUME ClhInv, Clh!Next \/ UNCHANGED <<page, pc, clhVars>> PROVE ClhInv'
  BY ClhQueueNext, ClhPageNext, ClhStutters DEF ClhInv, ClhQueue

\* What the runs check of the lock.
LEMMA ClhNodesAccounted == ClhInv => Clh!NodesAccounted
<1> SUFFICES ASSUME ClhInv PROVE Clh!NodesAccounted
  OBVIOUS
<1>1. ClhTyped /\ ClhChain /\ ClhPage
  BY DEF ClhInv, ClhQueue
<1>2. \A t \in Threads : Clh!NodeOf(t) # NULL => Clh!NodeOf(t) \in Nodes
  BY <1>1 DEF ClhTyped, Clh!NodeOf
<1>3. \A t \in Threads : pc[t] = "swap" => Clh!NodeOf(t) = node[t]
  BY DEF Clh!NodeOf, Clh!Holds
<1>4. ASSUME NEW n \in Nodes PROVE n \in allocated <=> n \in Clh!InUse
  <2>1. CASE Linked(n)
    BY <1>1, <1>4, <2>1 DEF ClhChain, Clh!InUse, Linked
  <2>2. CASE ~Linked(n)
    <3>1. n \in allocated <=> \E t \in Threads : pc[t] = "swap" /\ node[t] = n
      BY <1>1, <1>4, <2>2 DEF ClhChain
    <3>2. n \in Clh!InUse <=> \E t \in Threads : Clh!NodeOf(t) = n
      BY <2>2 DEF Clh!InUse, Linked
    <3>3. ASSUME NEW t \in Threads, Clh!NodeOf(t) = n PROVE pc[t] = "swap" /\ node[t] = n
      <4>1. Has(t)
        BY <1>1, <3>3, NullIsNoNode DEF ClhTyped
      <4>2. pc[t] = "swap"
        BY <1>1, <2>2, <3>3, <4>1 DEF ClhChain
      <4> QED
        BY <1>3, <3>3, <4>2
    <3> QED
      BY <1>3, <3>1, <3>2, <3>3
  <2> QED
    BY <2>1, <2>2
<1>5. Clh!InUse \ {NULL} \subseteq Nodes /\ NULL \notin allocated /\ allocated \subseteq Nodes
  BY <1>1, <1>2, NullIsNoNode DEF ClhTyped, Clh!InUse
<1>6. allocated = Clh!InUse \ {NULL}
  BY <1>4, <1>5
<1>7. ASSUME NEW t \in Threads, Clh!Kernel!IsArmed(page[t]) PROVE page[t].watch_mem \in allocated
  <2>1. page[t].watch_mem = prev[t] /\ prev[t] \in Nodes
    BY <1>1, <1>7 DEF ClhPage, ClhTyped, Clh!Kernel!IsArmed
  <2>2. Linked(prev[t])
    BY DEF Linked
  <2> QED
    BY <1>1, <2>1, <2>2 DEF ClhChain
<1>8. \A t, u \in Threads : t # u /\ prev[t] # NULL => prev[t] # prev[u]
  BY <1>1 DEF ClhTyped, ClhChain
<1> QED
  BY <1>6, <1>7, <1>8 DEF Clh!NodesAccounted

LEMMA ClhExcludes == ClhInv => MutualExclusion
  BY DEF ClhInv, ClhQueue, ClhTyped, ClhTurn, ClhPcs, Passed, MutualExclusion, Owns, Holds, OwnerUnlockPcs

LEMMA ClhTurnIsSchedulable ==
  ASSUME ClhInv PROVE \A t \in Threads : ~Clh!Runnable(t) => Waits(t) /\ ~Clh!ItsTurn(t)
  BY DEF ClhInv, ClhQueue, ClhTyped, ClhPage, ClhArmedPcs, Clh!Runnable, Clh!ItsTurn, Waits, TryPcs, OwnerUnlockPcs,
         LateUnlockPcs, Clh!Kernel!DontSched, Clh!Kernel!IsArmed, Clh!Kernel!CheckMem

-----------------------------------------------------------------------------
\* The array lock.

AepflPcs == {"idle", "take", "first_load", "set_mem", "set_for", "set_neq", "wait", "disarm", "holding", "ul_own", "ul_next"}
SlotPcs == {"first_load", "set_mem", "set_for", "set_neq", "wait", "disarm", "holding"}
ArraySlots == 0 .. MAX_THREADS - 1

\* The threads whose slot is taken and not yet given up.
SlotQueue == {t \in Threads : pc[t] \in SlotPcs}
HeadSlot == head % MAX_THREADS
TailSlot == tail % MAX_THREADS
InSlot(t) == pc[t] \in {"disarm", "holding"}
Releases(t) == pc[t] \in {"ul_own", "ul_next"}
SetFlags == {s \in ArraySlots : flags[s] = Aepfl!UNLOCKED}

AepflTyped ==
  /\ pc \in [Threads -> AepflPcs]
  /\ tail \in 0 .. ARRAY_COUNTS - 1 /\ head \in 0 .. ARRAY_COUNTS - 1
  /\ flags \in [ArraySlots -> {Aepfl!LOCKED, Aepfl!UNLOCKED}]
  /\ slot \in [Threads -> ArraySlots]

\* The slots out are those from the head up to the tail; who has passed has the
\* first, who hands over the one before.
AepflSlots ==
  /\ Out(SlotQueue, slot, HeadSlot, TailSlot, MAX_THREADS)
  /\ \A t \in Threads : InSlot(t) => slot[t] = HeadSlot
  /\ \A t \in Threads : Releases(t) => RSucc(slot[t], MAX_THREADS) = HeadSlot
  /\ \A t, u \in Threads : (InSlot(t) \/ Releases(t)) /\ Releases(u) => t = u

\* The flag set is that of the head, but for the hand-over.
AepflFlags ==
  /\ (\A t \in Threads : ~Releases(t)) => SetFlags = {HeadSlot}
  /\ \A t \in Threads : pc[t] = "ul_own" => SetFlags = {slot[t]}
  /\ \A t \in Threads : pc[t] = "ul_next" => SetFlags = {}

AepflPage ==
  /\ page \in [Threads -> [watch_mem : ArraySlots \cup {NULL}, watch_for : {Aepfl!LOCKED, Aepfl!UNLOCKED}, watch_neq : {0}]]
  /\ \A t \in Threads : page[t].watch_mem # NULL =>
       pc[t] \in {"set_for", "set_neq", "wait", "disarm"} /\ page[t].watch_mem = slot[t]
  /\ \A t \in Threads : pc[t] \in {"set_neq", "wait", "disarm"} => page[t].watch_for = Aepfl!UNLOCKED

AepflQueue == AepflTyped /\ AepflSlots /\ AepflFlags
AepflInv == AepflQueue /\ AepflPage

\* "There is one slot for each thread in a fixed-size array", and the benchmark
\* never calls trylock().
SlotForEach == Cardinality(Threads) <= MAX_THREADS /\ ~TRYLOCKS

LEMMA ArrayTyped ==
  /\ MAX_THREADS \in Nat \ {0} /\ ARRAY_COUNTS \in Nat \ {0} /\ ARRAY_COUNTS % MAX_THREADS = 0
  /\ 0 \in ArraySlots
<1>1. MAX_THREADS \in Nat \ {0} /\ ARRAY_COUNTS \in Nat \ {0} /\ ARRAY_COUNTS % MAX_THREADS = 0
  BY QueueLocksAssumption DEF Aepfl!SlotsAssumption
<1> QED
  BY <1>1 DEF ArraySlots

\* A counter of the array wraps where a slot does.
LEMMA CounterSlot ==
  ASSUME NEW n \in 0 .. ARRAY_COUNTS - 1
  PROVE  /\ Aepfl!Inc(n) \in 0 .. ARRAY_COUNTS - 1
         /\ n % MAX_THREADS \in ArraySlots
         /\ Aepfl!Inc(n) % MAX_THREADS = RSucc(n % MAX_THREADS, MAX_THREADS)
<1> DEFINE C == ARRAY_COUNTS
           M == MAX_THREADS
           y == n + 1
<1>1. M \in Nat \ {0} /\ C \in Nat \ {0} /\ C % M = 0 /\ n \in Nat /\ y \in Nat /\ n < C
  BY ArrayTyped
<1>2. n % M \in 0 .. M - 1
  BY <1>1, ModTyped
<1>3. y % M = RSucc(n % M, M)
  BY <1>1, ModSucc DEF RSucc
<1>4. Aepfl!Inc(n) = y % C
  BY DEF Aepfl!Inc
<1> HIDE DEF C, M
<1>5. n % C = n
  BY <1>1
<1>6. y % C = IF y = C THEN 0 ELSE y
  <2>1. y % C = IF (n % C) + 1 = C THEN 0 ELSE (n % C) + 1
    BY <1>1, ModSucc
  <2> QED
    BY <1>5, <2>1
<1>7. CASE y = C
  <2>1. 0 % M = 0 /\ 0 \in 0 .. C - 1
    BY <1>1
  <2> QED
    BY <1>1, <1>2, <1>3, <1>4, <1>6, <1>7, <2>1 DEF C, M, ArraySlots
<1>8. CASE y # C
  <2>1. y \in 0 .. C - 1
    BY <1>1, <1>8
  <2> QED
    BY <1>2, <1>3, <1>4, <1>6, <1>8, <2>1 DEF C, M, ArraySlots
<1> QED
  BY <1>7, <1>8

LEMMA SlotSucc ==
  ASSUME NEW s \in ArraySlots
  PROVE  Aepfl!NextSlot(s) = RSucc(s, MAX_THREADS) /\ RSucc(s, MAX_THREADS) \in ArraySlots
<1>1. s % MAX_THREADS = s
  BY ArrayTyped DEF ArraySlots
<1>2. (s + 1) % MAX_THREADS = RSucc(s, MAX_THREADS)
  <2>1. s \in Nat /\ MAX_THREADS \in Nat \ {0}
    BY ArrayTyped DEF ArraySlots
  <2>2. (s + 1) % MAX_THREADS = RSucc(s % MAX_THREADS, MAX_THREADS)
    BY <2>1, ModSucc DEF RSucc
  <2> QED
    BY <1>1, <2>2
<1> QED
  BY <1>2, ArrayTyped DEF ArraySlots, RSucc, Aepfl!NextSlot

LEMMA SlotQueueFinite ==
  /\ IsFiniteSet(SlotQueue) /\ Cardinality(SlotQueue) \in Nat
  /\ \A t \in Threads : SlotForEach /\ t \notin SlotQueue => Cardinality(SlotQueue) < MAX_THREADS
<1>1. IsFiniteSet(Threads) /\ Cardinality(Threads) \in Nat
  BY QueueLockAssumption, FS_CardinalityType
<1>2. IsFiniteSet(SlotQueue) /\ Cardinality(SlotQueue) \in Nat
  BY <1>1, FS_Subset, FS_CardinalityType DEF SlotQueue
<1>3. ASSUME NEW t \in Threads, SlotForEach, t \notin SlotQueue PROVE Cardinality(SlotQueue) < MAX_THREADS
  <2>1. SlotQueue \cup {t} \subseteq Threads
    BY DEF SlotQueue
  <2>2. Cardinality(SlotQueue \cup {t}) = Cardinality(SlotQueue) + 1
    BY <1>2, <1>3, FS_AddElement
  <2>3. Cardinality(SlotQueue \cup {t}) <= Cardinality(Threads)
    BY <1>1, <2>1, FS_Subset
  <2> QED
    BY <1>1, <1>2, <1>3, <2>2, <2>3, ArrayTyped DEF SlotForEach
<1> QED
  BY <1>2, <1>3

LEMMA AepflInit == ASSUME Aepfl!Init, SlotForEach PROVE AepflInv
<1>1. \A t \in Threads : pc[t] = "idle" /\ slot[t] = 0
  BY DEF Aepfl!Init
<1>2. SlotQueue = {}
  BY <1>1 DEF SlotQueue, SlotPcs
<1>3. HeadSlot = 0 /\ TailSlot = 0
  BY ArrayTyped DEF Aepfl!Init, HeadSlot, TailSlot
<1>4. AepflTyped
  BY ArrayTyped DEF Aepfl!Init, AepflTyped, AepflPcs, ArraySlots, Aepfl!Slots, Aepfl!LOCKED, Aepfl!UNLOCKED
<1>5. Out({}, slot, 0, 0, MAX_THREADS)
  BY ArrayTyped, FS_EmptySet DEF Out, RDist
<1>6. AepflSlots
  BY <1>1, <1>2, <1>3, <1>5 DEF AepflSlots, InSlot, Releases
<1>7. SetFlags = {0}
  BY ArrayTyped DEF Aepfl!Init, SetFlags, ArraySlots, Aepfl!Slots, Aepfl!LOCKED, Aepfl!UNLOCKED
<1>8. AepflFlags
  BY <1>1, <1>3, <1>7 DEF AepflFlags
<1>9. AepflPage
  BY <1>1 DEF Aepfl!Init, AepflPage, Aepfl!Kernel!ZeroPage, Aepfl!LOCKED
<1> QED
  BY <1>4, <1>6, <1>8, <1>9 DEF AepflInv, AepflQueue

\* A thread that finds its flag set has the first slot, and nobody hands over.
LEMMA FlagMeansTurn ==
  ASSUME AepflQueue, SlotForEach, NEW t \in SlotQueue, flags[slot[t]] # Aepfl!LOCKED
  PROVE  slot[t] = HeadSlot /\ \A u \in Threads : ~Releases(u)
<1>1. AepflTyped /\ AepflSlots /\ AepflFlags /\ t \in Threads
  BY DEF AepflQueue, SlotQueue
<1>2. slot[t] \in SetFlags
  BY <1>1 DEF AepflTyped, SetFlags
<1>3. ASSUME NEW u \in Threads, Releases(u) PROVE FALSE
  <2>1. slot[t] = slot[u] /\ RSucc(slot[u], MAX_THREADS) = HeadSlot
    BY <1>1, <1>2, <1>3 DEF AepflFlags, AepflSlots, Releases
  <2>2. u \notin SlotQueue
    BY <1>3 DEF SlotQueue, SlotPcs, Releases
  <2>3. Cardinality(SlotQueue) < MAX_THREADS
    BY <2>2, SlotQueueFinite
  <2>4. RSucc(slot[t], MAX_THREADS) # HeadSlot
    BY <1>1, <2>3, ServedLast DEF AepflSlots
  <2> QED
    BY <2>1, <2>4
<1> QED
  BY <1>1, <1>2, <1>3 DEF AepflFlags

\* A step of t that leaves the words of the lock alone.
LEMMA AepflMoves ==
  ASSUME AepflQueue, NEW t \in Threads, NEW to, pc' = [pc EXCEPT ![t] = to], UNCHANGED aepflVars,
         \/ pc[t] = "idle" /\ to = "take"
         \/ /\ pc[t] \in SlotPcs /\ to \in SlotPcs
            /\ to \in {"disarm", "holding"} => slot[t] = HeadSlot /\ \A u \in Threads : ~Releases(u)
  PROVE  AepflQueue'
<1> USE DEF aepflVars
<1>1. AepflTyped /\ AepflSlots /\ AepflFlags
  BY DEF AepflQueue
<1>2. pc'[t] = to /\ \A u \in Threads \ {t} : pc'[u] = pc[u]
  BY <1>1 DEF AepflTyped
<1>3. SlotQueue' = SlotQueue /\ HeadSlot' = HeadSlot /\ TailSlot' = TailSlot /\ SetFlags' = SetFlags
  BY <1>2 DEF SlotQueue, SlotPcs, HeadSlot, TailSlot, SetFlags
<1>4. \A u \in Threads : (Releases(u)' <=> Releases(u)) /\ ((pc'[u] = "ul_own") <=> (pc[u] = "ul_own"))
                         /\ ((pc'[u] = "ul_next") <=> (pc[u] = "ul_next"))
  BY <1>2 DEF Releases, SlotPcs
<1>5. \A u \in Threads : InSlot(u)' => InSlot(u) \/ (slot[u] = HeadSlot /\ \A v \in Threads : ~Releases(v))
  <2>1. SUFFICES ASSUME NEW u \in Threads, InSlot(u)', ~InSlot(u)
                 PROVE  slot[u] = HeadSlot /\ \A v \in Threads : ~Releases(v)
    OBVIOUS
  <2>2. pc'[u] \in {"disarm", "holding"}
    BY <2>1 DEF InSlot
  <2>3. u = t
    BY <1>2, <2>1, <2>2 DEF InSlot
  <2>4. to \in {"disarm", "holding"}
    BY <1>2, <2>2, <2>3
  <2> QED
    BY <2>3, <2>4
<1>6. AepflTyped'
  BY <1>1, <1>2 DEF AepflTyped, AepflPcs, SlotPcs
<1>7. AepflSlots'
  <2>1. Out(SlotQueue', slot', HeadSlot', TailSlot', MAX_THREADS)
    BY <1>1, <1>3 DEF AepflSlots
  <2> QED
    BY <1>1, <1>3, <1>4, <1>5, <2>1 DEF AepflSlots
<1>8. AepflFlags'
  BY <1>1, <1>3, <1>4 DEF AepflFlags
<1> QED
  BY <1>6, <1>7, <1>8 DEF AepflQueue

\* The steps that move a counter or a flag.
LEMMA AepflTakeSlot == ASSUME AepflQueue, SlotForEach, NEW t \in Threads, Aepfl!TakeSlot(t) PROVE AepflQueue'
<1>1. AepflTyped /\ AepflSlots /\ AepflFlags
  BY DEF AepflQueue
<1>2. /\ pc[t] = "take" /\ pc'[t] = "first_load" /\ \A u \in Threads \ {t} : pc'[u] = pc[u]
      /\ slot'[t] = TailSlot /\ \A u \in Threads \ {t} : slot'[u] = slot[u]
      /\ tail' = Aepfl!Inc(tail) /\ UNCHANGED <<head, flags>>
  BY <1>1 DEF Aepfl!TakeSlot, Aepfl!Goto, AepflTyped, TailSlot
<1>3. t \notin SlotQueue /\ SlotQueue' = SlotQueue \cup {t}
  BY <1>2 DEF SlotQueue, SlotPcs
<1>4. HeadSlot' = HeadSlot /\ SetFlags' = SetFlags
  BY <1>2 DEF HeadSlot, SetFlags
<1>5. tail' \in 0 .. ARRAY_COUNTS - 1 /\ TailSlot \in ArraySlots /\ TailSlot' = RSucc(TailSlot, MAX_THREADS)
  BY <1>1, <1>2, CounterSlot DEF AepflTyped, TailSlot
<1>6. \A u \in Threads : /\ (Releases(u)' <=> Releases(u)) /\ (InSlot(u)' <=> InSlot(u))
                         /\ ((pc'[u] = "ul_own") <=> (pc[u] = "ul_own"))
                         /\ ((pc'[u] = "ul_next") <=> (pc[u] = "ul_next"))
                         /\ InSlot(u) \/ Releases(u) => slot'[u] = slot[u]
  BY <1>2 DEF Releases, InSlot
<1>7. AepflTyped'
  <2>1. pc' \in [Threads -> AepflPcs] /\ slot' \in [Threads -> ArraySlots]
    BY <1>1, <1>2, <1>5 DEF AepflTyped, AepflPcs, Aepfl!TakeSlot, Aepfl!Goto, TailSlot
  <2> QED
    BY <1>1, <1>2, <1>5, <2>1 DEF AepflTyped
<1>8. AepflSlots'
  <2>1. Out(SlotQueue, slot, HeadSlot, TailSlot, MAX_THREADS)
    BY <1>1 DEF AepflSlots
  <2>2. Cardinality(SlotQueue) < MAX_THREADS /\ \A u \in SlotQueue : slot'[u] = slot[u]
    BY <1>2, <1>3, SlotQueueFinite DEF SlotQueue
  <2>3. Out(SlotQueue \cup {t}, slot', HeadSlot, RSucc(TailSlot, MAX_THREADS), MAX_THREADS)
    BY <1>2, <1>3, <2>1, <2>2, OutJoins
  <2>4. Out(SlotQueue', slot', HeadSlot', TailSlot', MAX_THREADS)
    BY <1>3, <1>4, <1>5, <2>3
  <2> QED
    BY <1>1, <1>4, <1>6, <2>4 DEF AepflSlots
<1>9. AepflFlags'
  BY <1>1, <1>4, <1>6 DEF AepflFlags, Releases
<1> QED
  BY <1>7, <1>8, <1>9 DEF AepflQueue

LEMMA AepflTakeHead == ASSUME AepflQueue, NEW t \in Threads, Aepfl!UnlockTakeHead(t) PROVE AepflQueue'
<1>1. AepflTyped /\ AepflSlots /\ AepflFlags
  BY DEF AepflQueue
<1>2. /\ pc[t] = "holding" /\ pc'[t] = "ul_own" /\ \A u \in Threads \ {t} : pc'[u] = pc[u]
      /\ slot'[t] = HeadSlot /\ \A u \in Threads \ {t} : slot'[u] = slot[u]
      /\ head' = Aepfl!Inc(head) /\ UNCHANGED <<tail, flags>>
  BY <1>1 DEF Aepfl!UnlockTakeHead, Aepfl!Goto, AepflTyped, HeadSlot
<1>3. t \in SlotQueue /\ SlotQueue' = SlotQueue \ {t} /\ InSlot(t) /\ slot[t] = HeadSlot
  BY <1>1, <1>2 DEF SlotQueue, SlotPcs, InSlot, AepflSlots
<1>4. TailSlot' = TailSlot /\ SetFlags' = SetFlags
  BY <1>2 DEF TailSlot, SetFlags
<1>5. head' \in 0 .. ARRAY_COUNTS - 1 /\ HeadSlot \in ArraySlots /\ HeadSlot' = RSucc(HeadSlot, MAX_THREADS)
  BY <1>1, <1>2, CounterSlot DEF AepflTyped, HeadSlot
<1>6. \A u \in Threads : ~Releases(u)
  BY <1>1, <1>2, <1>3 DEF AepflSlots, Releases
<1>7. \A u \in Threads \ {t} : ~InSlot(u)
  BY <1>1, <1>3 DEF AepflSlots, InSlot, SlotQueue, SlotPcs, Out
<1>8. /\ Releases(t)' /\ ~InSlot(t)' /\ \A u \in Threads \ {t} : ~Releases(u)' /\ ~InSlot(u)'
  BY <1>2, <1>6, <1>7 DEF Releases, InSlot
<1>9. AepflTyped'
  <2>1. pc' \in [Threads -> AepflPcs] /\ slot' \in [Threads -> ArraySlots]
    BY <1>1, <1>2, <1>5 DEF AepflTyped, AepflPcs, Aepfl!UnlockTakeHead, Aepfl!Goto, HeadSlot
  <2> QED
    BY <1>1, <1>2, <1>5, <2>1 DEF AepflTyped
<1>10. AepflSlots'
  <2>1. Out(SlotQueue, slot, HeadSlot, TailSlot, MAX_THREADS)
    BY <1>1 DEF AepflSlots
  <2>2. \A u \in SlotQueue \ {t} : slot'[u] = slot[u]
    BY <1>2 DEF SlotQueue
  <2>3. Out(SlotQueue \ {t}, slot', RSucc(HeadSlot, MAX_THREADS), TailSlot, MAX_THREADS)
    BY <1>3, <2>1, <2>2, OutServes
  <2>4. Out(SlotQueue', slot', HeadSlot', TailSlot', MAX_THREADS)
    BY <1>3, <1>4, <1>5, <2>3
  <2> QED
    BY <1>2, <1>5, <1>8, <2>4 DEF AepflSlots
<1>11. AepflFlags'
  <2>1. SetFlags' = {slot'[t]}
    BY <1>1, <1>2, <1>4, <1>6 DEF AepflFlags
  <2>2. \A u \in Threads : u # t => pc'[u] \notin {"ul_own", "ul_next"}
    BY <1>8 DEF Releases
  <2> QED
    BY <1>2, <1>8, <2>1, <2>2 DEF AepflFlags
<1> QED
  BY <1>9, <1>10, <1>11 DEF AepflQueue

LEMMA AepflOwnFlag == ASSUME AepflQueue, NEW t \in Threads, Aepfl!UnlockOwnFlag(t) PROVE AepflQueue'
<1>1. AepflTyped /\ AepflSlots /\ AepflFlags
  BY DEF AepflQueue
<1>2. /\ pc[t] = "ul_own" /\ pc'[t] = "ul_next" /\ \A u \in Threads \ {t} : pc'[u] = pc[u]
      /\ flags' = [flags EXCEPT ![slot[t]] = Aepfl!LOCKED] /\ UNCHANGED <<tail, head, slot>>
  BY <1>1 DEF Aepfl!UnlockOwnFlag, Aepfl!Goto, AepflTyped
<1>3. SlotQueue' = SlotQueue /\ HeadSlot' = HeadSlot /\ TailSlot' = TailSlot
  BY <1>2 DEF SlotQueue, SlotPcs, HeadSlot, TailSlot
<1>4. \A u \in Threads : (Releases(u)' <=> Releases(u)) /\ (InSlot(u)' <=> InSlot(u))
  BY <1>2 DEF Releases, InSlot
<1>5. Releases(t) /\ \A u \in Threads \ {t} : ~Releases(u)
  BY <1>1, <1>2 DEF AepflSlots, Releases
<1>6. SetFlags' = {}
  <2>1. SetFlags = {slot[t]}
    BY <1>1, <1>2 DEF AepflFlags
  <2>2. \A s \in ArraySlots : flags'[s] = IF s = slot[t] THEN Aepfl!LOCKED ELSE flags[s]
    BY <1>1, <1>2 DEF AepflTyped
  <2> QED
    BY <2>1, <2>2 DEF SetFlags, Aepfl!LOCKED, Aepfl!UNLOCKED
<1>7. AepflTyped'
  <2>1. pc' \in [Threads -> AepflPcs]
    BY <1>1, <1>2 DEF AepflTyped, AepflPcs, Aepfl!UnlockOwnFlag, Aepfl!Goto
  <2> QED
    BY <1>1, <1>2, <2>1 DEF AepflTyped
<1>8. AepflSlots'
  <2>1. Out(SlotQueue', slot', HeadSlot', TailSlot', MAX_THREADS)
    BY <1>1, <1>2, <1>3 DEF AepflSlots
  <2> QED
    BY <1>1, <1>2, <1>3, <1>4, <2>1 DEF AepflSlots
<1>9. AepflFlags'
  BY <1>2, <1>4, <1>5, <1>6 DEF AepflFlags, Releases
<1> QED
  BY <1>7, <1>8, <1>9 DEF AepflQueue

LEMMA AepflNextFlag == ASSUME AepflQueue, NEW t \in Threads, Aepfl!UnlockNextFlag(t) PROVE AepflQueue'
<1>1. AepflTyped /\ AepflSlots /\ AepflFlags
  BY DEF AepflQueue
<1>2. /\ pc[t] = "ul_next" /\ pc'[t] = "idle" /\ \A u \in Threads \ {t} : pc'[u] = pc[u]
      /\ flags' = [flags EXCEPT ![Aepfl!NextSlot(slot[t])] = Aepfl!UNLOCKED]
      /\ \A u \in Threads \ {t} : slot'[u] = slot[u]
      /\ UNCHANGED <<tail, head>>
  BY <1>1 DEF Aepfl!UnlockNextFlag, Aepfl!Goto, AepflTyped
<1>3. /\ t \notin SlotQueue /\ SlotQueue' = SlotQueue /\ HeadSlot' = HeadSlot /\ TailSlot' = TailSlot
      /\ \A u \in SlotQueue : slot'[u] = slot[u]
  BY <1>2 DEF SlotQueue, SlotPcs, HeadSlot, TailSlot
<1>4. Releases(t) /\ \A u \in Threads \ {t} : ~Releases(u) /\ ~InSlot(u)
  BY <1>1, <1>2 DEF AepflSlots, Releases
<1>5. \A u \in Threads : ~Releases(u)' /\ ~InSlot(u)'
  BY <1>2, <1>4 DEF Releases, InSlot
<1>6. Aepfl!NextSlot(slot[t]) = HeadSlot /\ HeadSlot \in ArraySlots
  BY <1>1, <1>4, SlotSucc DEF AepflTyped, AepflSlots
<1>7. SetFlags' = {HeadSlot}
  <2>1. SetFlags = {}
    BY <1>1, <1>2 DEF AepflFlags
  <2>2. \A s \in ArraySlots : flags'[s] = IF s = HeadSlot THEN Aepfl!UNLOCKED ELSE flags[s]
    BY <1>1, <1>2, <1>6 DEF AepflTyped
  <2> QED
    BY <1>6, <2>1, <2>2 DEF SetFlags
<1>8. AepflTyped'
  <2>1. pc' \in [Threads -> AepflPcs] /\ slot' \in [Threads -> ArraySlots]
    BY <1>1, ArrayTyped DEF AepflTyped, AepflPcs, Aepfl!UnlockNextFlag, Aepfl!Goto
  <2>2. flags' \in [ArraySlots -> {Aepfl!LOCKED, Aepfl!UNLOCKED}]
    BY <1>1, <1>2 DEF AepflTyped
  <2> QED
    BY <1>1, <1>2, <2>1, <2>2 DEF AepflTyped
<1>9. AepflSlots'
  <2>1. Out(SlotQueue, slot, HeadSlot, TailSlot, MAX_THREADS)
    BY <1>1 DEF AepflSlots
  <2>2. Out(SlotQueue, slot', HeadSlot, TailSlot, MAX_THREADS)
    BY <1>3, <2>1, OutKept
  <2>3. Out(SlotQueue', slot', HeadSlot', TailSlot', MAX_THREADS)
    BY <1>3, <2>2
  <2> QED
    BY <1>5, <2>3 DEF AepflSlots
<1>10. AepflFlags'
  BY <1>3, <1>5, <1>7 DEF AepflFlags, Releases
<1> QED
  BY <1>8, <1>9, <1>10 DEF AepflQueue

\* Each step keeps the queue, then each keeps the pages.
LEMMA AepflQueueNext == ASSUME AepflQueue, SlotForEach, Aepfl!Next PROVE AepflQueue'
<1> USE DEF Aepfl!Goto, aepflVars
<1>1. ASSUME NEW t \in Threads, Aepfl!CallLock(t) PROVE AepflQueue'
  BY <1>1, AepflMoves DEF Aepfl!CallLock
<1>2. ASSUME NEW t \in Threads, Aepfl!TryLoadTail(t) \/ Aepfl!TryLoadHead(t) \/ Aepfl!TryCas(t) PROVE AepflQueue'
  BY <1>2 DEF SlotForEach, Aepfl!TryLoadTail, Aepfl!TryLoadHead, Aepfl!TryCas, AepflQueue, AepflTyped, AepflPcs
<1>3. ASSUME NEW t \in Threads, Aepfl!FirstLoad(t) \/ Aepfl!Wait(t) PROVE AepflQueue'
  <2>1. t \in SlotQueue
    BY <1>3 DEF Aepfl!FirstLoad, Aepfl!Wait, SlotQueue, SlotPcs
  <2>2. CASE flags[slot[t]] # Aepfl!LOCKED
    <3>1. slot[t] = HeadSlot /\ \A u \in Threads : ~Releases(u)
      BY <2>1, <2>2, FlagMeansTurn
    <3>2. CASE Aepfl!FirstLoad(t)
      BY <2>2, <3>1, <3>2, AepflMoves DEF Aepfl!FirstLoad, SlotPcs
    <3>3. CASE Aepfl!Wait(t)
      BY <2>2, <3>1, <3>3, AepflMoves DEF Aepfl!Wait, SlotPcs
    <3> QED
      BY <1>3, <3>2, <3>3
  <2>3. CASE flags[slot[t]] = Aepfl!LOCKED
    <3>2. CASE Aepfl!FirstLoad(t)
      BY <2>3, <3>2, AepflMoves DEF Aepfl!FirstLoad, SlotPcs
    <3>3. CASE Aepfl!Wait(t)
      BY <2>3, <3>3, AepflMoves DEF Aepfl!Wait, SlotPcs
    <3> QED
      BY <1>3, <3>2, <3>3
  <2> QED
    BY <2>2, <2>3
<1>4. ASSUME NEW t \in Threads, Aepfl!SetMem(t) \/ Aepfl!SetFor(t) \/ Aepfl!SetNeq(t) PROVE AepflQueue'
  BY <1>4, AepflMoves DEF Aepfl!SetMem, Aepfl!SetFor, Aepfl!SetNeq, SlotPcs
<1>5. ASSUME NEW t \in Threads, Aepfl!Disarm(t) PROVE AepflQueue'
  <2>1. pc[t] = "disarm" /\ InSlot(t)
    BY <1>5 DEF Aepfl!Disarm, InSlot
  <2>2. slot[t] = HeadSlot /\ \A u \in Threads : ~Releases(u)
    BY <2>1 DEF AepflQueue, AepflSlots, Releases
  <2> QED
    BY <1>5, <2>1, <2>2, AepflMoves DEF Aepfl!Disarm, SlotPcs
<1> QED
  BY <1>1, <1>2, <1>3, <1>4, <1>5, AepflTakeSlot, AepflTakeHead, AepflOwnFlag, AepflNextFlag DEF Aepfl!Next,
     Aepfl!Step

\* A step of t that leaves its page alone.
LEMMA AepflPageKept ==
  ASSUME AepflTyped, AepflPage, NEW t \in Threads, NEW to, pc' = [pc EXCEPT ![t] = to], UNCHANGED page,
         \A u \in Threads \ {t} : slot'[u] = slot[u],
         \/ /\ pc[t] \notin {"set_for", "set_neq", "wait", "disarm"}
            /\ to \notin {"set_neq", "wait", "disarm"}
         \/ pc[t] = "wait" /\ to \in {"wait", "disarm"} /\ slot'[t] = slot[t]
  PROVE  AepflPage'
<1>1. pc'[t] = to /\ \A u \in Threads \ {t} : pc'[u] = pc[u]
  BY DEF AepflTyped
<1> QED
  BY <1>1 DEF AepflPage

LEMMA AepflPageNext == ASSUME AepflTyped, AepflPage, Aepfl!Next PROVE AepflPage'
<1> USE DEF Aepfl!Goto
<1>1. ASSUME NEW t \in Threads,
             \/ Aepfl!CallLock(t) \/ Aepfl!TakeSlot(t) \/ Aepfl!FirstLoad(t) \/ Aepfl!UnlockTakeHead(t)
             \/ Aepfl!UnlockOwnFlag(t) \/ Aepfl!UnlockNextFlag(t)
      PROVE  AepflPage'
  <2>1. UNCHANGED page /\ \A u \in Threads \ {t} : slot'[u] = slot[u]
    BY <1>1 DEF Aepfl!CallLock, Aepfl!TakeSlot, Aepfl!FirstLoad, Aepfl!UnlockTakeHead, Aepfl!UnlockOwnFlag,
                Aepfl!UnlockNextFlag, AepflTyped
  <2>2. PICK to : /\ pc' = [pc EXCEPT ![t] = to]
                  /\ pc[t] \notin {"set_for", "set_neq", "wait", "disarm"} /\ to \notin {"set_neq", "wait", "disarm"}
    <3>1. CASE Aepfl!CallLock(t) \/ Aepfl!TakeSlot(t) \/ Aepfl!FirstLoad(t)
      BY <3>1 DEF Aepfl!CallLock, Aepfl!TakeSlot, Aepfl!FirstLoad
    <3>2. CASE Aepfl!UnlockTakeHead(t) \/ Aepfl!UnlockOwnFlag(t) \/ Aepfl!UnlockNextFlag(t)
      BY <3>2 DEF Aepfl!UnlockTakeHead, Aepfl!UnlockOwnFlag, Aepfl!UnlockNextFlag
    <3> QED
      BY <1>1, <3>1, <3>2, Zenon
  <2> QED
    BY <2>1, <2>2, AepflPageKept, Zenon
<1>2. ASSUME NEW t \in Threads, Aepfl!TryLoadTail(t) \/ Aepfl!TryLoadHead(t) \/ Aepfl!TryCas(t) PROVE AepflPage'
  <2>1. UNCHANGED page /\ \A u \in Threads \ {t} : slot'[u] = slot[u]
    BY <1>2 DEF Aepfl!TryLoadTail, Aepfl!TryLoadHead, Aepfl!TryCas, AepflTyped
  <2>2. PICK to : /\ pc' = [pc EXCEPT ![t] = to]
                  /\ pc[t] \notin {"set_for", "set_neq", "wait", "disarm"} /\ to \notin {"set_neq", "wait", "disarm"}
    BY <1>2 DEF Aepfl!TryLoadTail, Aepfl!TryLoadHead, Aepfl!TryCas
  <2> QED
    BY <2>1, <2>2, AepflPageKept, Zenon
<1>3. ASSUME NEW t \in Threads, Aepfl!Wait(t) PROVE AepflPage'
  BY <1>3, AepflPageKept DEF Aepfl!Wait
<1>4. ASSUME NEW t \in Threads, Aepfl!SetMem(t) PROVE AepflPage'
  BY <1>4 DEF Aepfl!SetMem, AepflPage, AepflTyped, Aepfl!Kernel!SetWatchMem
<1>5. ASSUME NEW t \in Threads, Aepfl!SetFor(t) PROVE AepflPage'
  BY <1>5 DEF Aepfl!SetFor, AepflPage, AepflTyped, Aepfl!Kernel!SetWatchFor
<1>6. ASSUME NEW t \in Threads, Aepfl!SetNeq(t) PROVE AepflPage'
  BY <1>6 DEF Aepfl!SetNeq, AepflPage, AepflTyped, Aepfl!Kernel!SetWatchNeq
<1>7. ASSUME NEW t \in Threads, Aepfl!Disarm(t) PROVE AepflPage'
  BY <1>7 DEF Aepfl!Disarm, AepflPage, AepflTyped, Aepfl!Kernel!SetWatchMem
<1> QED
  BY <1>1, <1>2, <1>3, <1>4, <1>5, <1>6, <1>7 DEF Aepfl!Next, Aepfl!Step

LEMMA AepflStutters == ASSUME AepflInv, UNCHANGED <<page, pc, aepflVars>> PROVE AepflInv'
<1>1. /\ SlotQueue' = SlotQueue /\ HeadSlot' = HeadSlot /\ TailSlot' = TailSlot /\ SetFlags' = SetFlags
      /\ \A t \in Threads : (InSlot(t)' <=> InSlot(t)) /\ (Releases(t)' <=> Releases(t))
  BY DEF aepflVars, SlotQueue, HeadSlot, TailSlot, SetFlags, InSlot, Releases
<1>2. AepflSlots'
  <2>1. Out(SlotQueue', slot', HeadSlot', TailSlot', MAX_THREADS)
    BY <1>1 DEF AepflInv, AepflQueue, AepflSlots, aepflVars
  <2> QED
    BY <1>1, <2>1 DEF AepflInv, AepflQueue, AepflSlots, aepflVars
<1> QED
  BY <1>1, <1>2 DEF AepflInv, AepflQueue, AepflTyped, AepflFlags, AepflPage, aepflVars

LEMMA AepflNext == ASSUME AepflInv, SlotForEach, Aepfl!Next \/ UNCHANGED <<page, pc, aepflVars>> PROVE AepflInv'
  BY AepflQueueNext, AepflPageNext, AepflStutters DEF AepflInv, AepflQueue

\* What the runs check of the lock.
LEMMA AepflOneFlagSet == AepflInv => Aepfl!OneFlagSet
<1> SUFFICES ASSUME AepflInv PROVE Aepfl!OneFlagSet
  OBVIOUS
<1>1. AepflTyped /\ AepflSlots /\ AepflFlags
  BY DEF AepflInv, AepflQueue
<1>2. {s \in Aepfl!Slots : flags[s] = Aepfl!UNLOCKED} = SetFlags
  BY DEF SetFlags, ArraySlots, Aepfl!Slots
<1>3. CASE \E t \in Threads : pc[t] = "ul_next"
  BY <1>1, <1>2, <1>3 DEF AepflFlags, Aepfl!OneFlagSet
<1>4. CASE ~ \E t \in Threads : pc[t] = "ul_next"
  <2>1. \E s \in Aepfl!Slots : SetFlags = {s}
    BY <1>1, <1>4 DEF AepflFlags, Releases, SetFlags, ArraySlots, Aepfl!Slots
  <2> QED
    BY <1>2, <1>4, <2>1 DEF Aepfl!OneFlagSet
<1> QED
  BY <1>3, <1>4

LEMMA AepflExcludes == AepflInv => MutualExclusion
<1> SUFFICES ASSUME AepflInv, NEW t \in Threads, NEW u \in Threads, Owns(t), Owns(u) PROVE t = u
  BY DEF MutualExclusion
<1>1. AepflTyped /\ AepflSlots
  BY DEF AepflInv, AepflQueue
<1>2. (pc[t] = "holding" \/ Releases(t)) /\ (pc[u] = "holding" \/ Releases(u))
  BY <1>1 DEF AepflTyped, AepflPcs, Owns, Holds, OwnerUnlockPcs, Releases
<1>3. CASE pc[t] = "holding" /\ pc[u] = "holding"
  <2>1. t \in SlotQueue /\ u \in SlotQueue /\ slot[t] = slot[u]
    BY <1>1, <1>3 DEF SlotQueue, SlotPcs, AepflSlots, InSlot
  <2> QED
    BY <1>1, <2>1 DEF AepflSlots, Out
<1>4. CASE Releases(t) \/ Releases(u)
  BY <1>1, <1>2, <1>4 DEF AepflSlots, InSlot
<1> QED
  BY <1>2, <1>3, <1>4

LEMMA AepflTurnIsSchedulable ==
  ASSUME AepflInv, SlotForEach
  PROVE  \A t \in Threads : ~Aepfl!Runnable(t) => Waits(t) /\ (Aepfl!ItsTurn(t) => Aepfl!HalfArmed(t))
<1> SUFFICES ASSUME NEW t \in Threads, ~Aepfl!Runnable(t)
             PROVE  Waits(t) /\ (Aepfl!ItsTurn(t) => Aepfl!HalfArmed(t))
  OBVIOUS
<1>1. AepflTyped /\ AepflPage
  BY DEF AepflInv, AepflQueue
<1>2. page[t].watch_mem # NULL /\ pc[t] \in {"set_for", "set_neq", "wait", "disarm"}
  BY <1>1 DEF AepflPage, Aepfl!Runnable, Aepfl!Kernel!DontSched, Aepfl!Kernel!IsArmed
<1>3. CASE pc[t] \in {"set_neq", "wait", "disarm"}
  <2>1. flags[slot[t]] # Aepfl!UNLOCKED
    BY <1>1, <1>2, <1>3 DEF AepflPage, Aepfl!Runnable, Aepfl!Kernel!DontSched, Aepfl!Kernel!CheckMem
  <2> QED
    BY <1>3, <2>1 DEF Waits, TryPcs, OwnerUnlockPcs, LateUnlockPcs, Aepfl!ItsTurn
<1>4. CASE pc[t] = "set_for"
  BY <1>4 DEF Waits, TryPcs, OwnerUnlockPcs, LateUnlockPcs, Aepfl!HalfArmed
<1> QED
  BY <1>2, <1>3, <1>4

-----------------------------------------------------------------------------
\* Both queues are served in order.

\* Who waits for the node of a waiting thread does not pass.
LEMMA ClhInOrder ==
  ASSUME ClhInv, Clh!Next, NEW t \in Threads, NEW u \in Threads, Clh!Follows(u, t), Waits(t)
  PROVE  ~Served(u)'
<1>1. ClhTyped /\ ClhTurn
  BY DEF ClhInv, ClhQueue
<1>2. pc[u] \in Clh!QueuedPcs /\ prev[u] = Clh!NodeOf(t) /\ prev[u] \in Nodes
  BY <1>1, NullIsNoNode DEF Clh!Follows, ClhTyped, Follows
<1>3. Has(t) /\ mem[prev[u]] = Clh!LOCKED
  BY <1>1, <1>2, NullIsNoNode DEF ClhTyped, ClhTurn
<1>4. pc[u] \in {"first_load", "set_for", "set_mem", "read_head", "wait_next", "wait_far"}
  BY <1>1, <1>2, <1>3 DEF ClhTurn, Clh!QueuedPcs, Clh!LOCKED, Clh!UNLOCKED
<1>5. pc'[u] \in {"first_load", "set_for", "set_mem", "read_head", "wait_next", "wait_far"}
  <2> USE DEF Clh!Goto
  <2>1. CASE Clh!Destroy \/ Clh!InitAgain
    BY <1>4, <2>1 DEF Clh!Destroy, Clh!InitAgain
  <2>2. ASSUME NEW w \in Threads, Clh!CallLock(w) \/ Clh!New(w) \/ Clh!Swap(w) \/ Clh!Disarm(w) \/ Clh!Free(w)
               \/ Clh!SaveHead(w) \/ Clh!Unlock(w)
        PROVE  pc'[u] = pc[u] \/ pc'[u] = "first_load"
    BY <1>1, <1>4, <2>2 DEF Clh!CallLock, Clh!New, Clh!Swap, Clh!Disarm, Clh!Free, Clh!SaveHead, Clh!Unlock, ClhTyped
  <2>3. ASSUME NEW w \in Threads, Clh!SetForAndNeq(w) \/ Clh!SetMem(w) \/ Clh!ReadHead(w)
        PROVE  pc'[u] = pc[u] \/ pc'[u] \in {"set_mem", "read_head", "wait_next", "wait_far"}
    BY <1>1, <1>4, <2>3 DEF Clh!SetForAndNeq, Clh!SetMem, Clh!ReadHead, ClhTyped
  <2>4. ASSUME NEW w \in Threads, Clh!FirstLoad(w) \/ Clh!Wait(w)
        PROVE  pc'[u] = pc[u] \/ pc'[u] = "set_for"
    BY <1>1, <1>3, <1>4, <2>4 DEF Clh!FirstLoad, Clh!Wait, ClhTyped
  <2> QED
    BY <1>4, <2>1, <2>2, <2>3, <2>4 DEF Clh!Next, Clh!Step
<1> QED
  BY <1>5 DEF Served, Owns, Holds, OwnerUnlockPcs

\* The head is no slot behind itself.
LEMMA HeadDistance ==
  ASSUME AepflTyped, NEW t \in Threads
  PROVE  /\ Aepfl!Distance(t) \in Nat
         /\ slot[t] = HeadSlot => Aepfl!Distance(t) = 0
<1> DEFINE C == ARRAY_COUNTS
           M == MAX_THREADS
           s == slot[t]
           x == (s + C) - head
<1>1. M \in Nat \ {0} /\ C \in Nat \ {0} /\ C % M = 0 /\ head \in Nat /\ head < C /\ s \in 0 .. M - 1
  BY ArrayTyped DEF AepflTyped, ArraySlots
<1>2. Aepfl!Distance(t) = x % M
  BY DEF Aepfl!Distance
<1>3. HeadSlot = head % M
  BY DEF HeadSlot
<1> HIDE DEF C, M, s
<1>4. x \in Int
  BY <1>1
<1>5. PICK k \in Nat, z \in 0 .. M - 1 : C % M = z /\ C = M * k + z
  <2>1. M \in Nat \ {0} /\ C \in Nat
    BY <1>1
  <2> QED
    BY <2>1, ModQuotient, Zenon
<1>6. PICK q \in Nat, r \in 0 .. M - 1 : head % M = r /\ head = M * q + r
  <2>1. M \in Nat \ {0} /\ head \in Nat
    BY <1>1
  <2> QED
    BY <2>1, ModQuotient, Zenon
<1>7. ASSUME s = HeadSlot PROVE x % M = 0
  <2>1. M * (k - q) = M * k - M * q /\ M * k \in Nat /\ M * q \in Nat
    BY <1>1, <1>5, <1>6
  <2> DEFINE p == k - q
             o == 0
  <2>2. x = M * p + o /\ p \in Int /\ o \in 0 .. M - 1
    BY <1>1, <1>3, <1>5, <1>6, <1>7, <2>1
  <2> HIDE DEF p, o, x
  <2>3. M \in Nat \ {0}
    BY <1>1
  <2>4. x % M = o
    BY <2>2, <2>3, ModUnique, Zenon
  <2> QED
    BY <2>4 DEF o
<1>8. x % M \in Nat
  <2> HIDE DEF x
  <2> QED
    BY <1>1, <1>4, ModTyped
<1> QED
  BY <1>2, <1>7, <1>8 DEF s

\* Who took its slot after somebody who still waits does not pass.
LEMMA AepflInOrder ==
  ASSUME AepflInv, SlotForEach, Aepfl!Next, NEW t \in Threads, NEW u \in Threads, Aepfl!Before(t, u)
  PROVE  ~Served(u)'
<1>1. AepflTyped /\ AepflSlots /\ AepflFlags
  BY DEF AepflInv, AepflQueue
<1>2. slot[u] # HeadSlot
  BY <1>1, HeadDistance DEF Aepfl!Before
<1>3. pc[u] \in {"first_load", "set_mem", "set_for", "set_neq", "wait"}
  BY <1>1, <1>2 DEF Aepfl!Before, Aepfl!InLine, Aepfl!Waits, Aepfl!TryPcs, Aepfl!OwnerUnlockPcs, AepflTyped, AepflPcs,
     AepflSlots, InSlot
<1>4. flags[slot[u]] = Aepfl!LOCKED
  BY <1>2, <1>3, FlagMeansTurn DEF SlotPcs, SlotQueue, AepflInv
<1>5. pc'[u] \in {"first_load", "set_mem", "set_for", "set_neq", "wait"}
  <2> USE DEF Aepfl!Goto
  <2>1. ASSUME NEW w \in Threads, Aepfl!CallLock(w) \/ Aepfl!TakeSlot(w) \/ Aepfl!Disarm(w)
               \/ Aepfl!UnlockTakeHead(w) \/ Aepfl!UnlockOwnFlag(w) \/ Aepfl!UnlockNextFlag(w)
        PROVE  pc'[u] = pc[u] \/ pc'[u] = "first_load"
    BY <1>1, <1>3, <2>1 DEF Aepfl!CallLock, Aepfl!TakeSlot, Aepfl!Disarm, Aepfl!UnlockTakeHead, Aepfl!UnlockOwnFlag,
       Aepfl!UnlockNextFlag, AepflTyped
  <2>2. ASSUME NEW w \in Threads, Aepfl!SetMem(w) \/ Aepfl!SetFor(w) \/ Aepfl!SetNeq(w)
        PROVE  pc'[u] = pc[u] \/ pc'[u] \in {"set_for", "set_neq", "wait"}
    BY <1>1, <1>3, <2>2 DEF Aepfl!SetMem, Aepfl!SetFor, Aepfl!SetNeq, AepflTyped
  <2>3. ASSUME NEW w \in Threads, Aepfl!FirstLoad(w) \/ Aepfl!Wait(w)
        PROVE  pc'[u] = pc[u] \/ pc'[u] \in {"set_mem", "wait"}
    BY <1>1, <1>3, <1>4, <2>3 DEF Aepfl!FirstLoad, Aepfl!Wait, AepflTyped
  <2>4. ASSUME NEW w \in Threads, Aepfl!TryLoadTail(w) \/ Aepfl!TryLoadHead(w) \/ Aepfl!TryCas(w) PROVE FALSE
    BY <1>1, <2>4 DEF Aepfl!TryLoadTail, Aepfl!TryLoadHead, Aepfl!TryCas, AepflTyped, AepflPcs, SlotForEach
  <2> QED
    BY <1>3, <2>1, <2>2, <2>3, <2>4 DEF Aepfl!Next, Aepfl!Step
<1> QED
  BY <1>5 DEF Served, Owns, Holds, OwnerUnlockPcs

-----------------------------------------------------------------------------
\* The ticket lock and the user autolocks.

TicketP == INSTANCE TicketLockProofs WITH COUNTS <- TICKET_COUNTS

\* The ticket lock is proved in a module of its own: its results are taken over.
LEMMA TicketAssumptions ==
  /\ TicketP!IsFiniteSet(Threads)
  /\ TicketP!CountsAssumption
  BY QueueLockAssumption, QueueLocksAssumption
  DEF Ticket!CountsAssumption, TicketP!CountsAssumption, TicketP!Cardinality, Ticket!Cardinality,
      TicketP!IsFiniteSet, IsFiniteSet

LEMMA TicketSame == ASSUME Ticket!Next PROVE TicketP!Next
<1> USE DEF Ticket!Goto, TicketP!Goto, Ticket!Return, TicketP!Return, Ticket!Succ, TicketP!Succ,
            Ticket!NoFullTurn, TicketP!NoFullTurn
<1>1. ASSUME NEW t \in Threads, Ticket!CallTrylock(t) PROVE TicketP!CallTrylock(t)
  BY <1>1 DEF Ticket!CallTrylock, TicketP!CallTrylock
<1>2. ASSUME NEW t \in Threads, Ticket!CallLock(t) PROVE TicketP!CallLock(t)
  BY <1>2 DEF Ticket!CallLock, TicketP!CallLock
<1>3. ASSUME NEW t \in Threads, Ticket!TryLoadNext(t) PROVE TicketP!TryLoadNext(t)
  BY <1>3 DEF Ticket!TryLoadNext, TicketP!TryLoadNext
<1>4. ASSUME NEW t \in Threads, Ticket!TryLoadCur(t) PROVE TicketP!TryLoadCur(t)
  BY <1>4 DEF Ticket!TryLoadCur, TicketP!TryLoadCur
<1>5. ASSUME NEW t \in Threads, Ticket!TryCas(t) PROVE TicketP!TryCas(t)
  BY <1>5 DEF Ticket!TryCas, TicketP!TryCas
<1>6. ASSUME NEW t \in Threads, Ticket!Draw(t) PROVE TicketP!Draw(t)
  BY <1>6 DEF Ticket!Draw, TicketP!Draw
<1>7. ASSUME NEW t \in Threads, Ticket!FirstLoad(t) PROVE TicketP!FirstLoad(t)
  BY <1>7 DEF Ticket!FirstLoad, TicketP!FirstLoad
<1>8. ASSUME NEW t \in Threads, Ticket!SetMem(t) PROVE TicketP!SetMem(t)
  BY <1>8 DEF Ticket!SetMem, TicketP!SetMem, Ticket!Kernel!SetWatchMem, TicketP!Kernel!SetWatchMem
<1>9. ASSUME NEW t \in Threads, Ticket!SetFor(t) PROVE TicketP!SetFor(t)
  BY <1>9 DEF Ticket!SetFor, TicketP!SetFor, Ticket!Kernel!SetWatchFor, TicketP!Kernel!SetWatchFor
<1>10. ASSUME NEW t \in Threads, Ticket!SetNeq(t) PROVE TicketP!SetNeq(t)
  BY <1>10 DEF Ticket!SetNeq, TicketP!SetNeq, Ticket!Kernel!SetWatchNeq, TicketP!Kernel!SetWatchNeq
<1>11. ASSUME NEW t \in Threads, Ticket!Wait(t) PROVE TicketP!Wait(t)
  BY <1>11 DEF Ticket!Wait, TicketP!Wait
<1>12. ASSUME NEW t \in Threads, Ticket!Disarm(t) PROVE TicketP!Disarm(t)
  BY <1>12 DEF Ticket!Disarm, TicketP!Disarm, Ticket!Kernel!SetWatchMem, TicketP!Kernel!SetWatchMem
<1>13. ASSUME NEW t \in Threads, Ticket!Unlock(t) PROVE TicketP!Unlock(t)
  BY <1>13 DEF Ticket!Unlock, TicketP!Unlock
<1>14. ASSUME NEW t \in Threads, Ticket!Step(t) PROVE TicketP!Step(t)
  BY <1>3, <1>4, <1>5, <1>6, <1>7, <1>8, <1>9, <1>10, <1>11, <1>12, <1>13, <1>14 DEF Ticket!Step, TicketP!Step
<1> QED
  BY <1>1, <1>2, <1>14 DEF Ticket!Next, TicketP!Next

LEMMA TicketNext ==
  ASSUME TicketP!TicketInv, TicketP!PageInv, Ticket!Next \/ UNCHANGED <<page, pc, ticketVars>>
  PROVE  TicketP!TicketInv' /\ TicketP!PageInv'
<1>1. [TicketP!Next]_TicketP!vars
  BY TicketSame DEF TicketP!vars, ticketVars
<1> QED
  BY <1>1, TicketAssumptions, TicketP!TicketNext, TicketP!PageNext

LEMMA TicketInit == ASSUME Ticket!Init PROVE TicketP!TicketInv /\ TicketP!PageInv
<1>1. TicketP!Init
  BY DEF Ticket!Init, TicketP!Init, Ticket!Kernel!ZeroPage, TicketP!Kernel!ZeroPage, Ticket!Counts, TicketP!Counts
<1>2. TicketP!TicketInv
  BY <1>1, TicketAssumptions, TicketP!TicketInit
<1>3. TicketP!PageInv
  BY <1>1, TicketAssumptions DEF TicketP!Init, TicketP!PageInv, TicketP!Kernel!ZeroPage,
     TicketP!CountsAssumption, TicketP!Counts
<1> QED
  BY <1>2, <1>3

LEMMA TicketExcludes == ASSUME TicketP!TicketInv PROVE MutualExclusion
<1>1. TicketP!MutualExclusion
  BY TicketAssumptions, TicketP!InvExcludes
<1> QED
  BY <1>1 DEF MutualExclusion, Owns, Holds, OwnerUnlockPcs,
     TicketP!MutualExclusion, TicketP!Owns, TicketP!Holds, TicketP!OwnerUnlockPcs

\* A page is compared with the ticket it waits for.
LEMMA TicketTurnIsSchedulable ==
  ASSUME TicketP!TicketInv, TicketP!PageInv
  PROVE  \A t \in Threads : ~Ticket!Runnable(t) => Waits(t) /\ (Ticket!ItsTurn(t) => Ticket!HalfArmed(t))
  BY DEF TicketP!TicketInv, TicketP!TicketTyped, TicketP!Served, TicketP!PageInv, Ticket!Runnable,
     Ticket!HalfArmed, Waits, TryPcs, OwnerUnlockPcs, LateUnlockPcs, Ticket!ItsTurn, Ticket!Mem, Ticket!Kernel!DontSched,
     Ticket!Kernel!IsArmed, Ticket!Kernel!CheckMem

\* Somebody whose ticket is not the least does not take the lock.
LEMMA TicketInOrder ==
  ASSUME TicketP!TicketInv, TicketP!TicketInv', Ticket!Next,
         NEW t \in Threads, NEW u \in Threads, Ticket!Before(t, u)
  PROVE  ~Served(u)'
<1> SUFFICES ASSUME Served(u)' PROVE FALSE
  OBVIOUS
<1>1. /\ pc \in [Threads -> TicketP!QueuePcs \cup TicketP!OtherPcs]
      /\ pc' \in [Threads -> TicketP!QueuePcs \cup TicketP!OtherPcs]
      /\ cur_count \in 0 .. TICKET_COUNTS - 1
      /\ \A w \in Threads : ticket[w] \in 0 .. TICKET_COUNTS - 1
      /\ \A w \in Threads : pc[w] \in {"disarm", "holding"} => ticket[w] = cur_count
      /\ \A w \in Threads : pc'[w] \in {"disarm", "holding"} => ticket'[w] = cur_count'
  BY DEF TicketP!TicketInv, TicketP!TicketTyped, TicketP!Served, TicketP!Counts
<1>2. pc[u] \in {"first_load", "set_mem", "set_for", "set_neq", "wait", "disarm"}
  BY <1>1 DEF Ticket!Before, Ticket!InLine, Ticket!Waits, Ticket!TryPcs, TicketP!QueuePcs, TicketP!OtherPcs
<1>3. pc'[u] \in {"disarm", "holding"}
  BY <1>1 DEF Served, Owns, Holds, OwnerUnlockPcs, TicketP!QueuePcs, TicketP!OtherPcs
<1>4. ticket[u] # cur_count
  <2>1. TICKET_COUNTS \in Nat
    BY TicketAssumptions DEF TicketP!CountsAssumption
  <2>2. Ticket!Dist(cur_count, ticket[t]) < Ticket!Dist(cur_count, ticket[u])
    BY DEF Ticket!Before
  <2> QED
    BY <1>1, <2>1, <2>2 DEF Ticket!Dist
<1>5. ticket'[u] = ticket[u] /\ (cur_count' = cur_count \/ pc'[u] = pc[u])
  <2> USE DEF Ticket!Goto, Ticket!Return
  <2>1. ASSUME NEW w \in Threads, Ticket!CallTrylock(w) \/ Ticket!CallLock(w) \/ Ticket!TryLoadNext(w)
               \/ Ticket!TryLoadCur(w) \/ Ticket!TryCas(w) \/ Ticket!Draw(w) \/ Ticket!Unlock(w)
        PROVE  ticket'[u] = ticket[u] /\ (cur_count' = cur_count \/ pc'[u] = pc[u])
    <3>1. u # w
      BY <1>2, <2>1 DEF Ticket!CallTrylock, Ticket!CallLock, Ticket!TryLoadNext, Ticket!TryLoadCur, Ticket!TryCas,
         Ticket!Draw, Ticket!Unlock
    <3> QED
      BY <1>1, <2>1, <3>1, TicketAssumptions DEF Ticket!CallTrylock, Ticket!CallLock, Ticket!TryLoadNext,
         Ticket!TryLoadCur, Ticket!TryCas, Ticket!Draw, Ticket!Unlock, TicketP!TicketInv, TicketP!TicketTyped
  <2>2. ASSUME NEW w \in Threads, Ticket!FirstLoad(w) \/ Ticket!SetMem(w) \/ Ticket!SetFor(w) \/ Ticket!SetNeq(w)
               \/ Ticket!Wait(w) \/ Ticket!Disarm(w)
        PROVE  ticket'[u] = ticket[u] /\ cur_count' = cur_count
    BY <2>2 DEF Ticket!FirstLoad, Ticket!SetMem, Ticket!SetFor, Ticket!SetNeq, Ticket!Wait, Ticket!Disarm
  <2> QED
    BY <2>1, <2>2 DEF Ticket!Next, Ticket!Step
<1> QED
  BY <1>1, <1>3, <1>4, <1>5

SpinP == INSTANCE UserAutolockProofs WITH RSEQ <- FALSE, mem <- word
RseqP == INSTANCE UserAutolockProofs WITH RSEQ <- TRUE, mem <- word

\* The two user autolocks are one module, proved for both values of RSEQ.
LEMMA SpinAssumptions == SpinP!IsFiniteSet(Threads)
  BY QueueLockAssumption DEF SpinP!IsFiniteSet, IsFiniteSet

LEMMA SpinSame == ASSUME Spin!Next PROVE SpinP!Next
<1> USE DEF Spin!Goto, SpinP!Goto,
            Spin!LoadMem, SpinP!LoadMem,
            Spin!Xchg, SpinP!Xchg,
            Spin!SetPage, SpinP!SetPage,
            Spin!SetTls, SpinP!SetTls,
            Spin!UNLOCKED, SpinP!UNLOCKED,
            Spin!LOCKED, SpinP!LOCKED
<1>1. ASSUME NEW t \in Threads, Spin!CallTrylock(t) PROVE SpinP!CallTrylock(t)
  BY <1>1 DEF Spin!CallTrylock, SpinP!CallTrylock
<1>2. ASSUME NEW t \in Threads, Spin!CallLock(t) PROVE SpinP!CallLock(t)
  BY <1>2 DEF Spin!CallLock, SpinP!CallLock
<1>3. ASSUME NEW t \in Threads, Spin!Trylock(t) PROVE SpinP!Trylock(t)
  BY <1>3 DEF Spin!Trylock, SpinP!Trylock
<1>4. ASSUME NEW t \in Threads, Spin!InitKernelState(t) PROVE SpinP!InitKernelState(t)
  BY <1>4 DEF Spin!InitKernelState, SpinP!InitKernelState
<1>5. ASSUME NEW t \in Threads, Spin!WatchForUnlocked(t) PROVE SpinP!WatchForUnlocked(t)
  BY <1>5 DEF Spin!WatchForUnlocked, SpinP!WatchForUnlocked, Spin!Kernel!SetWatchFor, SpinP!Kernel!SetWatchFor
<1>6. ASSUME NEW t \in Threads, Spin!ScheduleWhenEqual(t) PROVE SpinP!ScheduleWhenEqual(t)
  BY <1>6 DEF Spin!ScheduleWhenEqual, SpinP!ScheduleWhenEqual, Spin!Kernel!SetWatchNeq, SpinP!Kernel!SetWatchNeq
<1>7. ASSUME NEW t \in Threads, Spin!MaybeSched(t) PROVE SpinP!MaybeSched(t)
  BY <1>7 DEF Spin!MaybeSched, SpinP!MaybeSched
<1>8. ASSUME NEW t \in Threads, Spin!Disarm(t) PROVE SpinP!Disarm(t)
  BY <1>8 DEF Spin!Disarm, SpinP!Disarm, Spin!Kernel!SetWatchMem, SpinP!Kernel!SetWatchMem
<1>9. ASSUME NEW t \in Threads, Spin!Arm(t) PROVE SpinP!Arm(t)
  BY <1>9 DEF Spin!Arm, SpinP!Arm, Spin!Kernel!SetWatchMem, SpinP!Kernel!SetWatchMem
<1>10. ASSUME NEW t \in Threads, Spin!RseqBegin(t) PROVE SpinP!RseqBegin(t)
  BY <1>10 DEF Spin!RseqBegin, SpinP!RseqBegin
<1>11. ASSUME NEW t \in Threads, Spin!RseqArm(t) PROVE SpinP!RseqArm(t)
  BY <1>11 DEF Spin!RseqArm, SpinP!RseqArm
<1>12. ASSUME NEW t \in Threads, Spin!RseqBackoff(t) PROVE SpinP!RseqBackoff(t)
  BY <1>12 DEF Spin!RseqBackoff, SpinP!RseqBackoff
<1>13. ASSUME NEW t \in Threads, Spin!RseqTry(t) PROVE SpinP!RseqTry(t)
  BY <1>13 DEF Spin!RseqTry, SpinP!RseqTry
<1>14. ASSUME NEW t \in Threads, Spin!RseqAbort(t) PROVE SpinP!RseqAbort(t)
  BY <1>14 DEF Spin!RseqAbort, SpinP!RseqAbort
<1>15. ASSUME NEW t \in Threads, Spin!AbortHandler(t) PROVE SpinP!AbortHandler(t)
  BY <1>15 DEF Spin!AbortHandler, SpinP!AbortHandler
<1>16. ASSUME NEW t \in Threads, Spin!Unlock(t) PROVE SpinP!Unlock(t)
  BY <1>16 DEF Spin!Unlock, SpinP!Unlock
<1>17. ASSUME NEW t \in Threads, Spin!Step(t) PROVE SpinP!Step(t)
  BY <1>3, <1>4, <1>5, <1>6, <1>7, <1>8, <1>9, <1>10, <1>11, <1>12, <1>13, <1>15, <1>16, <1>17
  DEF Spin!Step, SpinP!Step
<1> QED
  BY <1>1, <1>2, <1>14, <1>17 DEF Spin!Next, SpinP!Next

LEMMA SpinNext == ASSUME SpinP!Inv, Spin!Next \/ UNCHANGED <<page, pc, word, autolockVars>> PROVE SpinP!Inv'
<1>1. [SpinP!Next]_SpinP!vars
  BY SpinSame DEF SpinP!vars, autolockVars
<1> QED
  BY <1>1, SpinAssumptions, SpinP!OwnedNext, SpinP!PageNext DEF SpinP!Inv

LEMMA SpinInit == ASSUME Spin!Init PROVE SpinP!Inv
  BY DEF Spin!Init, SpinP!Inv, SpinP!Typed, SpinP!Owned, SpinP!PageInv, SpinP!OtherPcs, SpinP!LOCKED, SpinP!UNLOCKED,
     Spin!UNLOCKED, Spin!Kernel!ZeroPage

LEMMA SpinExcludes == ASSUME SpinP!Inv PROVE MutualExclusion
<1>1. SpinP!MutualExclusion
  BY SpinAssumptions, SpinP!InvExcludes
<1> QED
  BY <1>1 DEF MutualExclusion, Owns, Holds, OwnerUnlockPcs, SpinP!MutualExclusion, SpinP!Owns, SpinP!Holds,
     SpinP!OwnerUnlockPcs

LEMMA SpinTurnIsSchedulable ==
  ASSUME SpinP!Inv PROVE \A t \in Threads : ~Spin!Runnable(t) => Waits(t) /\ ~Spin!ItsTurn(t)
  BY DEF SpinP!Inv, SpinP!Typed, SpinP!PageInv, SpinP!LOCKED, SpinP!UNLOCKED, Spin!Runnable, Spin!Mem,
     Spin!ItsTurn, Spin!UNLOCKED,
     Waits, TryPcs, OwnerUnlockPcs, LateUnlockPcs, Spin!Kernel!DontSched, Spin!Kernel!IsArmed, Spin!Kernel!CheckMem

LEMMA RseqAssumptions == RseqP!IsFiniteSet(Threads)
  BY QueueLockAssumption DEF RseqP!IsFiniteSet, IsFiniteSet

LEMMA RseqSame == ASSUME Rseq!Next PROVE RseqP!Next
<1> USE DEF Rseq!Goto, RseqP!Goto,
            Rseq!LoadMem, RseqP!LoadMem,
            Rseq!Xchg, RseqP!Xchg,
            Rseq!SetPage, RseqP!SetPage,
            Rseq!SetTls, RseqP!SetTls,
            Rseq!UNLOCKED, RseqP!UNLOCKED,
            Rseq!LOCKED, RseqP!LOCKED
<1>1. ASSUME NEW t \in Threads, Rseq!CallTrylock(t) PROVE RseqP!CallTrylock(t)
  BY <1>1 DEF Rseq!CallTrylock, RseqP!CallTrylock
<1>2. ASSUME NEW t \in Threads, Rseq!CallLock(t) PROVE RseqP!CallLock(t)
  BY <1>2 DEF Rseq!CallLock, RseqP!CallLock
<1>3. ASSUME NEW t \in Threads, Rseq!Trylock(t) PROVE RseqP!Trylock(t)
  BY <1>3 DEF Rseq!Trylock, RseqP!Trylock
<1>4. ASSUME NEW t \in Threads, Rseq!InitKernelState(t) PROVE RseqP!InitKernelState(t)
  BY <1>4 DEF Rseq!InitKernelState, RseqP!InitKernelState
<1>5. ASSUME NEW t \in Threads, Rseq!WatchForUnlocked(t) PROVE RseqP!WatchForUnlocked(t)
  BY <1>5 DEF Rseq!WatchForUnlocked, RseqP!WatchForUnlocked, Rseq!Kernel!SetWatchFor, RseqP!Kernel!SetWatchFor
<1>6. ASSUME NEW t \in Threads, Rseq!ScheduleWhenEqual(t) PROVE RseqP!ScheduleWhenEqual(t)
  BY <1>6 DEF Rseq!ScheduleWhenEqual, RseqP!ScheduleWhenEqual, Rseq!Kernel!SetWatchNeq, RseqP!Kernel!SetWatchNeq
<1>7. ASSUME NEW t \in Threads, Rseq!MaybeSched(t) PROVE RseqP!MaybeSched(t)
  BY <1>7 DEF Rseq!MaybeSched, RseqP!MaybeSched
<1>8. ASSUME NEW t \in Threads, Rseq!Disarm(t) PROVE RseqP!Disarm(t)
  BY <1>8 DEF Rseq!Disarm, RseqP!Disarm, Rseq!Kernel!SetWatchMem, RseqP!Kernel!SetWatchMem
<1>9. ASSUME NEW t \in Threads, Rseq!Arm(t) PROVE RseqP!Arm(t)
  BY <1>9 DEF Rseq!Arm, RseqP!Arm, Rseq!Kernel!SetWatchMem, RseqP!Kernel!SetWatchMem
<1>10. ASSUME NEW t \in Threads, Rseq!RseqBegin(t) PROVE RseqP!RseqBegin(t)
  BY <1>10 DEF Rseq!RseqBegin, RseqP!RseqBegin
<1>11. ASSUME NEW t \in Threads, Rseq!RseqArm(t) PROVE RseqP!RseqArm(t)
  BY <1>11 DEF Rseq!RseqArm, RseqP!RseqArm
<1>12. ASSUME NEW t \in Threads, Rseq!RseqBackoff(t) PROVE RseqP!RseqBackoff(t)
  BY <1>12 DEF Rseq!RseqBackoff, RseqP!RseqBackoff
<1>13. ASSUME NEW t \in Threads, Rseq!RseqTry(t) PROVE RseqP!RseqTry(t)
  BY <1>13 DEF Rseq!RseqTry, RseqP!RseqTry
<1>14. ASSUME NEW t \in Threads, Rseq!RseqAbort(t) PROVE RseqP!RseqAbort(t)
  BY <1>14 DEF Rseq!RseqAbort, RseqP!RseqAbort
<1>15. ASSUME NEW t \in Threads, Rseq!AbortHandler(t) PROVE RseqP!AbortHandler(t)
  BY <1>15 DEF Rseq!AbortHandler, RseqP!AbortHandler
<1>16. ASSUME NEW t \in Threads, Rseq!Unlock(t) PROVE RseqP!Unlock(t)
  BY <1>16 DEF Rseq!Unlock, RseqP!Unlock
<1>17. ASSUME NEW t \in Threads, Rseq!Step(t) PROVE RseqP!Step(t)
  BY <1>3, <1>4, <1>5, <1>6, <1>7, <1>8, <1>9, <1>10, <1>11, <1>12, <1>13, <1>15, <1>16, <1>17
  DEF Rseq!Step, RseqP!Step
<1> QED
  BY <1>1, <1>2, <1>14, <1>17 DEF Rseq!Next, RseqP!Next

LEMMA RseqNext == ASSUME RseqP!Inv, Rseq!Next \/ UNCHANGED <<page, pc, word, autolockVars>> PROVE RseqP!Inv'
<1>1. [RseqP!Next]_RseqP!vars
  BY RseqSame DEF RseqP!vars, autolockVars
<1> QED
  BY <1>1, RseqAssumptions, RseqP!OwnedNext, RseqP!PageNext DEF RseqP!Inv

LEMMA RseqInit == ASSUME Spin!Init PROVE RseqP!Inv
  BY DEF Spin!Init, RseqP!Inv, RseqP!Typed, RseqP!Owned, RseqP!PageInv, RseqP!OtherPcs, RseqP!LOCKED, RseqP!UNLOCKED,
     Spin!UNLOCKED, Spin!Kernel!ZeroPage

LEMMA RseqExcludes == ASSUME RseqP!Inv PROVE MutualExclusion
<1>1. RseqP!MutualExclusion
  BY RseqAssumptions, RseqP!InvExcludes
<1> QED
  BY <1>1 DEF MutualExclusion, Owns, Holds, OwnerUnlockPcs, RseqP!MutualExclusion, RseqP!Owns, RseqP!Holds,
     RseqP!OwnerUnlockPcs

LEMMA RseqTurnIsSchedulable ==
  ASSUME RseqP!Inv PROVE \A t \in Threads : ~Rseq!Runnable(t) => Waits(t) /\ ~Rseq!ItsTurn(t)
  BY DEF RseqP!Inv, RseqP!Typed, RseqP!PageInv, RseqP!LOCKED, RseqP!UNLOCKED, Rseq!Runnable, Rseq!Mem,
     Rseq!ItsTurn, Rseq!UNLOCKED,
     Waits, TryPcs, OwnerUnlockPcs, LateUnlockPcs, Rseq!Kernel!DontSched, Rseq!Kernel!IsArmed, Rseq!Kernel!CheckMem

-----------------------------------------------------------------------------
\* The stock locks of the benchmark.

OpsPcs ==
  {"idle", "try_first", "try_second", "load", "xchg", "failed", "waiters_inc", "futex_wait", "asleep", "waiters_dec",
   "holding", "ul_check", "ul_wake"}

\* The lock is taken from the exchange up to the moment the release is seen.
Keeps(t) == pc[t] = "holding" \/ unflushed[t]

OpsInv ==
  /\ pc \in [Threads -> OpsPcs]
  /\ word \in {Ops!kLOCKED, Ops!kUNLOCKED} /\ unflushed \in [Threads -> BOOLEAN]
  /\ word = Ops!kLOCKED <=> \E t \in Threads : Keeps(t)
  /\ \A t, u \in Threads : Keeps(t) /\ Keeps(u) => t = u
  /\ \A t \in Threads : ~(pc[t] = "holding" /\ unflushed[t])

\* A step outside of the lock.
LEMMA OpsMoves ==
  ASSUME OpsInv, UNCHANGED <<word, unflushed>>, pc' \in [Threads -> OpsPcs],
         \A t \in Threads : pc'[t] = "holding" <=> pc[t] = "holding"
  PROVE  OpsInv'
  BY DEF OpsInv, Keeps

\* An exchange takes the lock when it was free.
LEMMA OpsTakes ==
  ASSUME OpsInv, NEW t \in Threads, NEW from \in OpsPcs \ {"holding"}, NEW locked \in OpsPcs \ {"holding"},
         Ops!TryXchg(t, from, locked)
  PROVE  OpsInv'
<1>1. ~unflushed[t] /\ pc[t] = from /\ word' = Ops!kLOCKED /\ UNCHANGED unflushed
  BY DEF Ops!TryXchg, Ops!Enters, Ops!Goto
<1>2. CASE word = Ops!kLOCKED
  <2>1. pc' = [pc EXCEPT ![t] = locked]
    BY <1>1, <1>2 DEF Ops!TryXchg, Ops!Enters, Ops!Goto, Ops!Load
  <2>2. \A u \in Threads : pc'[u] = "holding" <=> pc[u] = "holding"
    BY <1>1, <2>1 DEF OpsInv
  <2> QED
    BY <1>1, <1>2, <2>1, <2>2, OpsMoves DEF OpsInv
<1>3. CASE word # Ops!kLOCKED
  <2>1. pc' = [pc EXCEPT ![t] = "holding"]
    BY <1>1, <1>3 DEF Ops!TryXchg, Ops!Enters, Ops!Goto, Ops!Load
  <2>2. \A u \in Threads : ~Keeps(u)
    BY <1>3 DEF OpsInv
  <2>3. \A u \in Threads : Keeps(u)' <=> u = t
    BY <1>1, <2>1, <2>2 DEF OpsInv, Keeps
  <2> QED
    BY <1>1, <2>1, <2>3 DEF OpsInv, OpsPcs
<1> QED
  BY <1>2, <1>3

\* The release is seen at once or when the store buffer drains.
LEMMA OpsReleases == ASSUME OpsInv, NEW t \in Threads, Ops!Unlock(t) PROVE OpsInv'
<1>0. PICK to \in {"idle", "ul_check"} : pc[t] = "holding" /\ pc' = [pc EXCEPT ![t] = to]
  BY DEF Ops!Unlock, Ops!Goto
<1>1. to \in OpsPcs /\ to # "holding" /\ pc[t] = "holding" /\ pc' = [pc EXCEPT ![t] = to]
  BY <1>0 DEF OpsPcs
<1>2. \A u \in Threads : Keeps(u) <=> u = t
  BY <1>1 DEF OpsInv, Keeps
<1>3. CASE BUFFERED
  <2>1. unflushed' = [unflushed EXCEPT ![t] = TRUE] /\ word' = word
    BY <1>3 DEF Ops!Unlock
  <2>2. \A u \in Threads : Keeps(u)' <=> u = t
    BY <1>1, <1>2, <2>1 DEF OpsInv, Keeps
  <2> QED
    BY <1>1, <1>2, <2>1, <2>2 DEF OpsInv
<1>4. CASE ~BUFFERED
  <2>1. unflushed' = unflushed /\ word' = Ops!kUNLOCKED
    BY <1>4 DEF Ops!Unlock
  <2>2. \A u \in Threads : ~Keeps(u)'
    BY <1>1, <1>2, <2>1 DEF OpsInv, Keeps
  <2> QED
    BY <1>1, <2>1, <2>2 DEF OpsInv, Keeps, Ops!kUNLOCKED, Ops!kLOCKED
<1> QED
  BY <1>3, <1>4

LEMMA OpsDrains == ASSUME OpsInv, NEW t \in Threads, Ops!Drain(t) PROVE OpsInv'
<1>1. unflushed[t] /\ word' = Ops!kUNLOCKED /\ unflushed' = [unflushed EXCEPT ![t] = FALSE] /\ UNCHANGED pc
  BY DEF Ops!Drain
<1>2. \A u \in Threads : Keeps(u) <=> u = t
  BY <1>1 DEF OpsInv, Keeps
<1>3. \A u \in Threads : ~Keeps(u)'
  BY <1>1, <1>2 DEF OpsInv, Keeps
<1> QED
  BY <1>1, <1>3 DEF OpsInv, Keeps, Ops!kUNLOCKED, Ops!kLOCKED

LEMMA OpsNext == ASSUME OpsInv, Ops!Next \/ UNCHANGED <<page, pc, word, opsVars>> PROVE OpsInv'
<1> USE DEF Ops!state
<1>1. ASSUME NEW t \in Threads, Ops!CallTrylock(t) \/ Ops!CallLock(t) \/ Ops!WaitersInc(t) \/ Ops!FutexWait(t)
             \/ Ops!SpuriousWake(t) \/ Ops!WaitersDec(t) \/ Ops!UnlockCheckWaiters(t) \/ Ops!TryFailed(t)
      PROVE  OpsInv'
  <2>1. /\ UNCHANGED <<word, unflushed>>
        /\ \E to \in OpsPcs \ {"holding"} : pc[t] # "holding" /\ pc' = [pc EXCEPT ![t] = to]
    BY <1>1 DEF Ops!CallTrylock, Ops!CallLock, Ops!WaitersInc, Ops!FutexWait, Ops!SpuriousWake, Ops!WaitersDec,
       Ops!UnlockCheckWaiters, Ops!TryFailed, Ops!Goto, OpsPcs
  <2> QED
    BY <2>1, OpsMoves DEF OpsInv
<1>2. ASSUME NEW t \in Threads, Ops!UnlockWake(t) PROVE OpsInv'
  <2>1. /\ UNCHANGED <<word, unflushed>> /\ pc[t] = "ul_wake"
        /\ \/ pc' = [pc EXCEPT ![t] = "idle"]
           \/ \E w \in Threads : pc[w] = "asleep" /\ pc' = [pc EXCEPT ![t] = "idle", ![w] = "waiters_dec"]
    BY <1>2 DEF Ops!UnlockWake
  <2> QED
    BY <2>1, OpsMoves DEF OpsInv, OpsPcs
<1>3. ASSUME NEW t \in Threads, Ops!Trylock(t) PROVE OpsInv'
  <2>1. CASE Ops!TryLoad(t, "try_first", "try_second", "idle") \/ Ops!TryLoad(t, "load", "xchg", "failed")
    <3>1. /\ UNCHANGED <<word, unflushed>>
          /\ \E to \in OpsPcs \ {"holding"} : pc[t] # "holding" /\ pc' = [pc EXCEPT ![t] = to]
      BY <2>1 DEF Ops!TryLoad, Ops!Enters, Ops!Goto, OpsPcs
    <3> QED
      BY <3>1, OpsMoves DEF OpsInv
  <2>2. CASE Ops!TryXchg(t, "try_second", "idle") \/ Ops!TryXchg(t, "xchg", "failed")
    BY <2>2, OpsTakes DEF OpsPcs
  <2> QED
    BY <1>3, <2>1, <2>2 DEF Ops!Trylock
<1>4. CASE UNCHANGED <<page, pc, word, opsVars>>
  BY <1>4, OpsMoves DEF opsVars, OpsInv
<1> QED
  BY <1>1, <1>2, <1>3, <1>4, OpsReleases, OpsDrains DEF Ops!Next, Ops!Step

LEMMA OpsInit == ASSUME Ops!Init PROVE OpsInv
  BY DEF Ops!Init, OpsInv, OpsPcs, Keeps, Ops!kUNLOCKED, Ops!kLOCKED

LEMMA OpsExcludes == OpsInv => MutualExclusion
  BY DEF OpsInv, OpsPcs, Keeps, MutualExclusion, Owns, Holds, OwnerUnlockPcs

-----------------------------------------------------------------------------
\* The compact ticket lock: a ticket lock per socket and one of the sockets.

TicketedPcs == {"set_global_for", "set_global_neq", "set_global_mem", "wait_global", "disarm_global", "set_owner"}
OwnerPcs == {"disarm_local", "holding", "ul_batch", "ul_pass", "ul_global"}
HolderPcs == {"has_local", "draw_global", "ul_local"} \cup TicketedPcs \cup OwnerPcs
LocalPcs == {"arm_local", "wait_local"} \cup HolderPcs
CohortPcs == {"idle", "draw"} \cup LocalPcs
SocketCount == Cardinality(Sockets)
CohortCounts == 0 .. COUNTS - 1
CohortLocals == 0 .. LOCAL_COUNTS - 1

\* Who has drawn a ticket of the local lock of s, and which one: who holds the
\* local lock has written another number over it.
CohortQueue(s) == {t \in Threads : socket[t] = s /\ pc[t] \in LocalPcs}
LocalTicket == [t \in Threads |-> IF pc[t] \in HolderPcs THEN grant[socket[t]] ELSE req_num[t]]

\* The sockets with a ticket of the global lock, and those that have the lock.
OwnsGlobal(s) == socket_grant[s] \/ \E t \in Threads : socket[t] = s /\ pc[t] \in OwnerPcs
Ticketed(s) == \E t \in Threads : socket[t] = s /\ pc[t] \in TicketedPcs
GlobalQueue == {s \in Sockets : Ticketed(s) \/ OwnsGlobal(s)}

CohortTyped ==
  /\ pc \in [Threads -> CohortPcs]
  /\ requests \in [Sockets -> CohortLocals] /\ grant \in [Sockets -> CohortLocals]
  /\ socket_grant \in [Sockets -> BOOLEAN]
  /\ owner_req_num \in [Sockets -> CohortCounts]
  /\ request \in CohortCounts /\ grants \in [Sockets -> CohortCounts]
  /\ socket \in [Threads -> Sockets] /\ req_num \in [Threads -> CohortCounts \cup CohortLocals]
  /\ \A t \in Threads : pc[t] # "idle" => socket[t] \in SocketsOf[t]

\* The local lock of each socket is a ticket lock, and its holder is served.
CohortLocal ==
  /\ \A s \in Sockets : Out(CohortQueue(s), LocalTicket, grant[s], requests[s], LOCAL_COUNTS)
  /\ \A t \in Threads : pc[t] \in {"arm_local", "wait_local"} => req_num[t] \in CohortLocals
  /\ \A t \in Threads : pc[t] \in {"ul_batch", "ul_pass", "ul_global", "ul_local"} =>
       req_num[t] = RSucc(grant[socket[t]], LOCAL_COUNTS)

Followed(t) == \E u \in Threads \ {t} : socket[u] = socket[t] /\ pc[u] \in LocalPcs

\* A batch is passed on to somebody, who finds the mark.
CohortBatch ==
  /\ \A t \in Threads : pc[t] \in {"ul_batch", "ul_pass"} => Followed(t)
  /\ \A t \in Threads : pc[t] = "ul_pass" => socket_grant[socket[t]]
  /\ \A s \in Sockets : socket_grant[s] => \E t \in Threads : socket[t] = s /\ pc[t] \in LocalPcs
  /\ \A t \in Threads : socket_grant[socket[t]] => pc[t] \in {"idle", "draw", "arm_local", "wait_local", "has_local", "ul_pass"}

\* The global lock is a ticket lock of the sockets, g the ticket that it serves
\* and tickets[s] that of socket s.  Where a word of grants shows a ticket for
\* itself, it is g or one of those served right before.
CohortGlobal(g, tickets) ==
  /\ Out(GlobalQueue, tickets, g, request, COUNTS)
  /\ \A t \in Threads : pc[t] \in TicketedPcs => req_num[t] = tickets[socket[t]]
  /\ \A t \in Threads : pc[t] \in {"disarm_global", "set_owner"} => req_num[t] = g
  /\ \A s \in Sockets : OwnsGlobal(s) => tickets[s] = g /\ owner_req_num[s] = g /\ cur_psl = s
  /\ \A i \in Sockets : grants[i] % SocketCount = i => RDist(grants[i], g, COUNTS) < SocketCount
  /\ grants[g % SocketCount] = g

\* While a thread is armed its page names what it waits for; it stays armed for
\* the local grant until watch_mem names the global one.
CohortArmedPcs == {"wait_local", "has_local", "disarm_local", "draw_global", "set_global_for"}
CohortPageOf(t) ==
  /\ page[t].watch_mem # NULL =>
       pc[t] \in CohortArmedPcs \cup {"set_global_neq", "set_global_mem", "wait_global", "disarm_global"}
  /\ pc[t] \in CohortArmedPcs =>
       /\ page[t].watch_mem = <<"local", socket[t]>> /\ page[t].watch_neq = 0
       /\ page[t].watch_for = LocalTicket[t]
  /\ pc[t] \in {"set_global_neq", "set_global_mem", "wait_global", "disarm_global"} => page[t].watch_for = req_num[t]
  /\ pc[t] \in {"set_global_mem", "wait_global", "disarm_global"} => page[t].watch_neq = 0
  /\ pc[t] \in {"wait_global", "disarm_global"} => page[t].watch_mem = <<"global", req_num[t] % SocketCount>>

CohortPages == [watch_mem : Cptltkt!Words \cup {NULL}, watch_for : CohortCounts \cup CohortLocals, watch_neq : {0, 1}]
CohortPage == page \in [Threads -> CohortPages] /\ \A t \in Threads : CohortPageOf(t)

Cohort(g, tickets) == CohortTyped /\ CohortLocal /\ CohortBatch /\ CohortGlobal(g, tickets)
CohortQueues == \E g, tickets : Cohort(g, tickets)
CohortInv == CohortQueues /\ CohortPage

\* The assumptions of the lock, in the words of this module.
LEMMA SocketsTyped ==
  /\ SocketCount \in Nat \ {0} /\ Sockets = 0 .. SocketCount - 1 /\ IsFiniteSet(Sockets)
  /\ LOCAL_COUNTS \in Nat \ {0} /\ COUNTS \in Nat \ {0}
  /\ COUNTS % SocketCount = 0 /\ COUNTS > SocketCount
  /\ \A n : Cptltkt!Idx(n) = n % SocketCount
<1>1. /\ IsFiniteSet(Sockets) /\ Sockets # {} /\ Sockets = 0 .. SocketCount - 1
      /\ LOCAL_COUNTS \in Nat \ {0} /\ COUNTS \in Nat
      /\ COUNTS % SocketCount = 0 /\ COUNTS > SocketCount
  BY QueueLocksAssumption DEF Cptltkt!CohortAssumption, Cptltkt!IsFiniteSet, IsFiniteSet, SocketCount,
     Cptltkt!Cardinality, Cardinality
<1>2. SocketCount \in Nat /\ SocketCount # 0
  BY <1>1, FS_CardinalityType, FS_EmptySet DEF SocketCount
<1>3. \A n : Cptltkt!Idx(n) = n % SocketCount
  BY DEF Cptltkt!Idx, SocketCount, Cptltkt!Cardinality, Cardinality
<1> QED
  BY <1>1, <1>2, <1>3

\* No local lock runs out of tickets.
LEMMA SocketRoom ==
  ASSUME NEW s \in Sockets, NEW t \in Threads, s \in SocketsOf[t], t \notin CohortQueue(s), CohortTyped
  PROVE  Cardinality(CohortQueue(s)) < LOCAL_COUNTS
<1> DEFINE H == {u \in Threads : s \in SocketsOf[u]}
<1>1. Cardinality(H) <= LOCAL_COUNTS
  BY QueueLocksAssumption DEF Cptltkt!CohortAssumption, Cptltkt!Cardinality, Cardinality
<1>2. IsFiniteSet(H) /\ Cardinality(H) \in Nat
  BY QueueLockAssumption, FS_Subset, FS_CardinalityType
<1>3. CohortQueue(s) \subseteq H /\ t \in H
  BY DEF CohortTyped, CohortQueue, LocalPcs, HolderPcs, TicketedPcs, OwnerPcs
<1>4. IsFiniteSet(CohortQueue(s)) /\ Cardinality(CohortQueue(s)) \in Nat
  BY <1>2, <1>3, FS_Subset, FS_CardinalityType
<1>5. Cardinality(CohortQueue(s) \cup {t}) = Cardinality(CohortQueue(s)) + 1
  BY <1>4, FS_AddElement
<1>6. Cardinality(CohortQueue(s) \cup {t}) <= Cardinality(H)
  BY <1>2, <1>3, FS_Subset
<1> QED
  BY <1>1, <1>2, <1>4, <1>5, <1>6, SocketsTyped

\* A counter of a ticket lock and the word that it names wrap together.
LEMMA LocalSuccRing ==
  ASSUME NEW n \in CohortLocals PROVE Cptltkt!LocalSucc(n) = RSucc(n, LOCAL_COUNTS)
<1>1. LOCAL_COUNTS \in Nat \ {0} /\ n \in Nat /\ n % LOCAL_COUNTS = n
  BY SocketsTyped DEF CohortLocals
<1>2. (n + 1) % LOCAL_COUNTS = IF (n % LOCAL_COUNTS) + 1 = LOCAL_COUNTS THEN 0 ELSE (n % LOCAL_COUNTS) + 1
  BY <1>1, ModSucc
<1> QED
  BY <1>1, <1>2 DEF Cptltkt!LocalSucc, RSucc

LEMMA GlobalSuccRing ==
  ASSUME NEW n \in CohortCounts PROVE Cptltkt!Succ(n) = RSucc(n, COUNTS)
<1>1. COUNTS \in Nat \ {0} /\ n \in Nat /\ n % COUNTS = n
  BY SocketsTyped DEF CohortCounts
<1>2. (n + 1) % COUNTS = IF (n % COUNTS) + 1 = COUNTS THEN 0 ELSE (n % COUNTS) + 1
  BY <1>1, ModSucc
<1> QED
  BY <1>1, <1>2 DEF Cptltkt!Succ, RSucc

\* A multiple of the sockets above them is twice as many.
LEMMA TicketsAreTwice == COUNTS >= 2 * SocketCount
<1> DEFINE K == SocketCount
           C == COUNTS
<1>1. K \in Nat \ {0} /\ C \in Nat \ {0} /\ C % K = 0 /\ C > K
  BY SocketsTyped
<1> HIDE DEF K, C
<1>2. PICK q \in Nat, r \in 0 .. K - 1 : C % K = r /\ C = K * q + r
  BY <1>1, ModQuotient
<1>3. C = K * q
  BY <1>1, <1>2
<1>4. q >= 2
  <2>1. q # 0
    BY <1>1, <1>3
  <2>2. q # 1
    BY <1>1, <1>3
  <2> QED
    BY <1>2, <2>1, <2>2
<1>5. K * q >= 2 * K
  <2>1. K * q = K * (q - 2) + 2 * K
    BY <1>1, <1>2
  <2>2. K * (q - 2) >= 0
    BY <1>1, <1>2, <1>4
  <2> QED
    BY <1>1, <1>2, <2>1, <2>2
<1> QED
  BY <1>3, <1>5 DEF K, C

\* Tickets one round of the sockets apart name the same word.
LEMMA RoundOfSockets ==
  ASSUME NEW a \in CohortCounts, NEW b \in CohortCounts, RDist(a, b, COUNTS) = SocketCount
  PROVE  a % SocketCount = b % SocketCount
<1> DEFINE K == SocketCount
           C == COUNTS
<1>1. K \in Nat \ {0} /\ C \in Nat \ {0} /\ C % K = 0
  BY SocketsTyped
<1>2. a \in Nat /\ b \in Nat /\ (b = a + K \/ b = a + K - C)
  BY <1>1 DEF RDist, CohortCounts
<1> HIDE DEF K, C
<1>3. PICK k \in Nat, z \in 0 .. K - 1 : C % K = z /\ C = K * k + z
  <2>1. K \in Nat \ {0} /\ C \in Nat
    BY <1>1
  <2> QED
    BY <2>1, ModQuotient, Zenon
<1>4. PICK q \in Nat, r \in 0 .. K - 1 : a % K = r /\ a = K * q + r
  BY <1>1, <1>2, ModQuotient, Zenon
<1>5. b % K = r
  <2>1. /\ K * (q + 1) = K * q + K /\ K * (q + 1 - k) = K * q + K - K * k
        /\ K * q \in Nat /\ K * k \in Nat /\ K \in Nat \ {0}
    BY <1>1, <1>3, <1>4
  <2>2. CASE b = a + K
    <3> DEFINE p == q + 1
    <3>1. b = K * p + r /\ p \in Int
      BY <1>4, <2>1, <2>2
    <3> HIDE DEF p
    <3> QED
      BY <2>1, <3>1, ModUnique, Zenon
  <2>3. CASE b = a + K - C
    <3> DEFINE p == q + 1 - k
    <3>1. b = K * p + r /\ p \in Int
      BY <1>1, <1>3, <1>4, <2>1, <2>3
    <3> HIDE DEF p
    <3> QED
      BY <2>1, <3>1, ModUnique, Zenon
  <2> QED
    BY <1>2, <2>2, <2>3
<1> QED
  BY <1>4, <1>5 DEF K

\* Where tickets are out somebody has the one that is served.
LEMMA OutHead ==
  ASSUME NEW Q, NEW tk, NEW cur, NEW next, NEW M, Out(Q, tk, cur, next, M), Q # {}
  PROVE  \E t \in Q : tk[t] = cur
<1> SUFFICES ASSUME \A t \in Q : tk[t] # cur PROVE FALSE
  OBVIOUS
<1> DEFINE n == Cardinality(Q)
           f == [t \in Q |-> RDist(cur, tk[t], M)]
<1>1. M \in Nat \ {0} /\ cur \in 0 .. M - 1 /\ IsFiniteSet(Q) /\ n \in Nat /\ n # 0
  BY OutTyped, FS_EmptySet
<1>2. \A t \in Q : tk[t] \in 0 .. M - 1 /\ RDist(cur, tk[t], M) < n
  BY DEF Out
<1>3. \A t, u \in Q : tk[t] = tk[u] => t = u
  BY DEF Out
<1> HIDE DEF n
<1>4. f \in [Q -> 1 .. n - 1]
  <2>1. SUFFICES ASSUME NEW t \in Q PROVE RDist(cur, tk[t], M) \in 1 .. n - 1
    OBVIOUS
  <2> QED
    BY <1>1, <1>2 DEF RDist
<1>5. IsFiniteSet(1 .. n - 1) /\ Cardinality(1 .. n - 1) < Cardinality(Q)
  <2>1. n - 1 \in Int /\ 1 \in Int
    BY <1>1
  <2>2. IsFiniteSet(1 .. n - 1) /\ Cardinality(1 .. n - 1) = IF 1 > n - 1 THEN 0 ELSE (n - 1) - 1 + 1
    BY <2>1, FS_Interval
  <2>3. Cardinality(1 .. n - 1) < n
    BY <1>1, <2>2
  <2> QED
    BY <2>2, <2>3 DEF n
<1>6. PICK t \in Q, u \in Q : t # u /\ f[t] = f[u]
  <2> HIDE DEF f
  <2> QED
    BY <1>1, <1>4, <1>5, FS_PigeonHole
<1>7. RDist(cur, tk[t], M) = RDist(cur, tk[u], M)
  BY <1>6
<1>8. tk[t] = tk[u]
  BY <1>1, <1>2, <1>7 DEF RDist
<1> QED
  BY <1>3, <1>6, <1>8

\* One ticket out is the one before the next.
LEMMA OutAlone ==
  ASSUME NEW Q, NEW tk, NEW cur, NEW next, NEW M, Out(Q, tk, cur, next, M), NEW t, Q = {t}
  PROVE  next = RSucc(cur, M)
<1>1. Cardinality(Q) = 1
  BY FS_Singleton
<1>2. M \in Nat \ {0} /\ cur \in 0 .. M - 1 /\ next \in 0 .. M - 1
  BY OutTyped
<1> QED
  BY <1>1, <1>2 DEF Out, RDist, RSucc

\* One thread holds the local lock of a socket.
LEMMA HolderUnique ==
  ASSUME CohortTyped, CohortLocal, NEW t \in Threads, NEW u \in Threads,
         pc[t] \in HolderPcs, pc[u] \in HolderPcs, socket[t] = socket[u]
  PROVE  t = u
<1>1. t \in CohortQueue(socket[t]) /\ u \in CohortQueue(socket[t]) /\ socket[t] \in Sockets
  BY DEF CohortTyped, CohortQueue, LocalPcs
<1>2. LocalTicket[t] = LocalTicket[u]
  BY DEF LocalTicket
<1> QED
  BY <1>1, <1>2 DEF CohortLocal, Out

\* A step of t that leaves the words of the lock and the queues alone.
LEMMA CohortWalks ==
  ASSUME CohortTyped, CohortTyped', CohortLocal, CohortBatch, NEW g, NEW tickets, CohortGlobal(g, tickets),
         NEW t \in Threads,
         \A u \in Threads \ {t} : pc'[u] = pc[u] /\ socket'[u] = socket[u] /\ req_num'[u] = req_num[u],
         UNCHANGED <<requests, grant, socket_grant, owner_req_num, request, grants, cur_psl>>,
         (pc'[t] \in LocalPcs) <=> (pc[t] \in LocalPcs),
         (pc'[t] \in OwnerPcs) <=> (pc[t] \in OwnerPcs),
         (pc'[t] \in TicketedPcs) <=> (pc[t] \in TicketedPcs),
         pc[t] \in LocalPcs => socket'[t] = socket[t] /\ LocalTicket'[t] = LocalTicket[t],
         pc'[t] \in TicketedPcs => req_num'[t] = req_num[t],
         pc'[t] \in {"disarm_global", "set_owner"} => req_num[t] = g,
         pc'[t] \in {"arm_local", "wait_local"} => req_num'[t] \in CohortLocals,
         pc'[t] \in {"ul_batch", "ul_pass", "ul_global", "ul_local"} =>
           req_num'[t] = RSucc(grant[socket[t]], LOCAL_COUNTS),
         pc'[t] = "ul_batch" => Followed(t),
         pc'[t] # "ul_pass",
         socket_grant[socket'[t]] => pc'[t] \in {"idle", "draw", "arm_local", "wait_local", "has_local"}
  PROVE  CohortLocal' /\ CohortBatch' /\ CohortGlobal(g, tickets)'
<1>1. \A s \in Sockets : CohortQueue(s)' = CohortQueue(s)
  BY DEF CohortQueue
<1>2. \A u \in Threads : pc[u] \in LocalPcs => LocalTicket'[u] = LocalTicket[u]
  BY DEF LocalTicket
<1>3. CohortLocal'
  <2>1. \A s \in Sockets : \A u \in CohortQueue(s) : LocalTicket'[u] = LocalTicket[u]
    BY <1>2 DEF CohortQueue
  <2>2. \A s \in Sockets : Out(CohortQueue(s)', LocalTicket', grant'[s], requests'[s], LOCAL_COUNTS)
    BY <1>1, <2>1, OutKept DEF CohortLocal
  <2> QED
    BY <2>2 DEF CohortLocal, LocalPcs, HolderPcs, OwnerPcs
<1>4. CohortBatch'
  <2>1. \A u \in Threads : pc[u] \in LocalPcs => pc'[u] \in LocalPcs /\ socket'[u] = socket[u]
    OBVIOUS
  <2>2. \A u \in Threads : pc'[u] \in {"ul_batch", "ul_pass"} => pc[u] \in LocalPcs /\ Followed(u)
    BY DEF CohortBatch, LocalPcs, HolderPcs, OwnerPcs
  <2>3. \A u \in Threads : pc'[u] \in {"ul_batch", "ul_pass"} => Followed(u)'
    BY <2>1, <2>2 DEF Followed
  <2>4. \A u \in Threads : pc'[u] = "ul_pass" => socket_grant'[socket'[u]]
    BY DEF CohortBatch
  <2>5. \A s \in Sockets : socket_grant'[s] => \E u \in Threads : socket'[u] = s /\ pc'[u] \in LocalPcs
    BY <2>1 DEF CohortBatch
  <2>6. \A u \in Threads : socket_grant'[socket'[u]] =>
          pc'[u] \in {"idle", "draw", "arm_local", "wait_local", "has_local", "ul_pass"}
    BY DEF CohortBatch
  <2> QED
    BY <2>3, <2>4, <2>5, <2>6 DEF CohortBatch
<1>5. \A s \in Sockets : (OwnsGlobal(s)' <=> OwnsGlobal(s)) /\ (Ticketed(s)' <=> Ticketed(s))
  <2>1. pc'[t] \in OwnerPcs \cup TicketedPcs => socket'[t] = socket[t]
    BY DEF LocalPcs, HolderPcs
  <2> QED
    BY <2>1 DEF OwnsGlobal, Ticketed, LocalPcs, HolderPcs
<1>6. CohortGlobal(g, tickets)'
  <2>1. GlobalQueue' = GlobalQueue
    BY <1>5 DEF GlobalQueue
  <2>2. \A u \in Threads : pc'[u] \in TicketedPcs =>
          pc[u] \in TicketedPcs /\ socket'[u] = socket[u] /\ req_num'[u] = req_num[u]
    BY DEF LocalPcs, HolderPcs
  <2> QED
    BY <1>5, <2>1, <2>2 DEF CohortGlobal, TicketedPcs
<1> QED
  BY <1>3, <1>4, <1>6

\* The steps outside of the words of the lock.
LEMMA CohortCalls ==
  ASSUME NEW g, NEW tickets, Cohort(g, tickets), NEW t \in Threads, Cptltkt!CallLock(t)
  PROVE  Cohort(g, tickets)'
<1> USE DEF Cptltkt!CallLock, Cptltkt!Goto, Cptltkt!local, Cptltkt!global
<1>1. CohortTyped /\ CohortLocal /\ CohortBatch /\ CohortGlobal(g, tickets)
  BY DEF Cohort
<1>2. PICK s \in SocketsOf[t] : socket' = [socket EXCEPT ![t] = s]
  OBVIOUS
<1>3. s \in Sockets
  BY QueueLocksAssumption DEF Cptltkt!CohortAssumption
<1>4. CohortTyped'
  BY <1>1, <1>2, <1>3 DEF CohortTyped, CohortPcs
<1>5. /\ pc[t] = "idle" /\ pc'[t] = "draw"
      /\ \A u \in Threads \ {t} : pc'[u] = pc[u] /\ socket'[u] = socket[u] /\ req_num'[u] = req_num[u]
  BY <1>1, <1>2 DEF CohortTyped
<1>6. CohortLocal' /\ CohortBatch' /\ CohortGlobal(g, tickets)'
  BY <1>1, <1>4, <1>5, CohortWalks DEF LocalPcs, HolderPcs, TicketedPcs, OwnerPcs
<1> QED
  BY <1>4, <1>6 DEF Cohort

\* Before and in the wait for the local lock.
LEMMA CohortWaitsLocal ==
  ASSUME NEW g, NEW tickets, Cohort(g, tickets), NEW t \in Threads, Cptltkt!ArmLocal(t) \/ Cptltkt!WaitLocal(t)
  PROVE  Cohort(g, tickets)'
<1> USE DEF Cptltkt!ArmLocal, Cptltkt!WaitLocal, Cptltkt!SetPage, Cptltkt!Goto, Cptltkt!local, Cptltkt!global
<1>1. CohortTyped /\ CohortLocal /\ CohortBatch /\ CohortGlobal(g, tickets)
  BY DEF Cohort
<1>2. /\ UNCHANGED <<requests, grant, socket_grant, owner_req_num, request, grants, cur_psl, socket, req_num>>
      /\ pc[t] \in {"arm_local", "wait_local"}
      /\ \/ pc' = [pc EXCEPT ![t] = "wait_local"]
         \/ pc' = [pc EXCEPT ![t] = "has_local"] /\ grant[socket[t]] = req_num[t]
  OBVIOUS
<1>3. CohortTyped'
  BY <1>1, <1>2 DEF CohortTyped, CohortPcs, LocalPcs, HolderPcs
<1>4. /\ pc'[t] \in {"wait_local", "has_local"}
      /\ pc'[t] = "has_local" => grant[socket[t]] = req_num[t]
      /\ \A u \in Threads \ {t} : pc'[u] = pc[u]
  BY <1>1, <1>2 DEF CohortTyped
<1>5. LocalTicket'[t] = LocalTicket[t]
  BY <1>2, <1>4 DEF LocalTicket, HolderPcs, TicketedPcs, OwnerPcs
<1>6. req_num[t] \in CohortLocals
  BY <1>1, <1>2 DEF CohortLocal
<1>7. CohortLocal' /\ CohortBatch' /\ CohortGlobal(g, tickets)'
  BY <1>1, <1>2, <1>3, <1>4, <1>5, <1>6, CohortWalks DEF LocalPcs, HolderPcs, TicketedPcs, OwnerPcs
<1> QED
  BY <1>3, <1>7 DEF Cohort

\* The ticket that a socket waits for is shown when it is served, and only then.
LEMMA GrantMeansTurn ==
  ASSUME NEW g, NEW tickets, Cohort(g, tickets), NEW t \in Threads, pc[t] \in TicketedPcs
  PROVE  grants[req_num[t] % SocketCount] = req_num[t] <=> req_num[t] = g
<1> DEFINE n == req_num[t]
           K == SocketCount
           i == n % K
<1>1. CohortTyped /\ CohortGlobal(g, tickets)
  BY DEF Cohort
<1>2. n = tickets[socket[t]] /\ socket[t] \in GlobalQueue
  BY <1>1 DEF CohortGlobal, CohortTyped, GlobalQueue, Ticketed
<1>3. g \in CohortCounts /\ n \in CohortCounts /\ RDist(g, n, COUNTS) < Cardinality(GlobalQueue)
  BY <1>1, <1>2 DEF CohortGlobal, Out, CohortCounts
<1>4. Cardinality(GlobalQueue) <= K /\ Cardinality(GlobalQueue) \in Nat
  BY SocketsTyped, FS_Subset, FS_CardinalityType DEF GlobalQueue, SocketCount
<1>5. K \in Nat \ {0} /\ COUNTS \in Nat /\ COUNTS >= 2 * K
  BY SocketsTyped, TicketsAreTwice
<1>6. i \in Sockets
  <2>1. n \in Int /\ K \in Nat \ {0}
    BY <1>3, <1>5, SocketsTyped DEF CohortCounts
  <2> HIDE DEF n, K
  <2>2. n % K \in 0 .. K - 1
    BY <2>1, ModTyped
  <2> QED
    BY <2>2, SocketsTyped DEF K
<1>7. grants[i] = n => RDist(n, g, COUNTS) < K
  BY <1>1, <1>6 DEF CohortGlobal
<1>8. n = g => grants[i] = n
  BY <1>1 DEF CohortGlobal
<1> HIDE DEF n, K, i
<1>9. grants[i] = n => n = g
  BY <1>3, <1>4, <1>5, <1>7 DEF RDist, CohortCounts
<1> QED
  BY <1>8, <1>9 DEF n, K, i

\* In the wait for the global lock.
LEMMA CohortWaitsGlobal ==
  ASSUME NEW g, NEW tickets, Cohort(g, tickets), NEW t \in Threads,
         \/ Cptltkt!SetGlobalFor(t) \/ Cptltkt!SetGlobalNeq(t) \/ Cptltkt!SetGlobalMem(t)
         \/ Cptltkt!WaitGlobal(t) \/ Cptltkt!DisarmGlobal(t)
  PROVE  Cohort(g, tickets)'
<1> USE DEF Cptltkt!SetGlobalFor, Cptltkt!SetGlobalNeq, Cptltkt!SetGlobalMem, Cptltkt!WaitGlobal, Cptltkt!DisarmGlobal,
            Cptltkt!SetPage, Cptltkt!Goto, Cptltkt!local, Cptltkt!global
<1>1. CohortTyped /\ CohortLocal /\ CohortBatch /\ CohortGlobal(g, tickets)
  BY DEF Cohort
<1>2. /\ UNCHANGED <<requests, grant, socket_grant, owner_req_num, request, grants, cur_psl, socket, req_num>>
      /\ pc[t] \in TicketedPcs
      /\ \/ \E to \in TicketedPcs \ {"disarm_global", "set_owner"} : pc' = [pc EXCEPT ![t] = to]
         \/ /\ pc' = [pc EXCEPT ![t] = "disarm_global"] /\ pc[t] = "wait_global"
            /\ grants[Cptltkt!Idx(req_num[t])] = req_num[t]
         \/ pc' = [pc EXCEPT ![t] = "set_owner"] /\ pc[t] = "disarm_global"
  BY DEF TicketedPcs
<1>3. /\ pc'[t] \in TicketedPcs /\ \A u \in Threads \ {t} : pc'[u] = pc[u]
      /\ pc' \in [Threads -> CohortPcs]
  BY <1>1, <1>2 DEF CohortTyped, CohortPcs, LocalPcs, HolderPcs, TicketedPcs
<1>4. pc'[t] \in {"disarm_global", "set_owner"} => req_num[t] = g
  <2>1. grants[Cptltkt!Idx(req_num[t])] = req_num[t] => req_num[t] = g
    BY <1>2, GrantMeansTurn, SocketsTyped
  <2>2. pc[t] = "disarm_global" => req_num[t] = g
    BY <1>1 DEF CohortGlobal
  <2> QED
    BY <1>1, <1>2, <2>1, <2>2 DEF CohortTyped
<1>5. CohortTyped'
  BY <1>1, <1>2, <1>3 DEF CohortTyped
<1>6. LocalTicket'[t] = LocalTicket[t]
  BY <1>2, <1>3 DEF LocalTicket, HolderPcs
<1>7. CohortLocal' /\ CohortBatch' /\ CohortGlobal(g, tickets)'
  BY <1>1, <1>2, <1>3, <1>4, <1>5, <1>6, CohortWalks
  DEF LocalPcs, HolderPcs, TicketedPcs, OwnerPcs, CohortBatch
<1> QED
  BY <1>5, <1>7 DEF Cohort

\* A step of the holder of a local lock that keeps it.
LEMMA HolderStays ==
  ASSUME CohortLocal, NEW t \in Threads, UNCHANGED <<grant, requests>>,
         \A u \in Threads \ {t} : pc'[u] = pc[u] /\ socket'[u] = socket[u] /\ req_num'[u] = req_num[u],
         pc[t] \in HolderPcs, pc'[t] \in HolderPcs, socket'[t] = socket[t],
         pc'[t] \in {"ul_batch", "ul_pass", "ul_global", "ul_local"} =>
           req_num'[t] = RSucc(grant[socket[t]], LOCAL_COUNTS)
  PROVE  CohortLocal' /\ \A s \in Sockets : CohortQueue(s)' = CohortQueue(s)
<1>1. \A s \in Sockets : CohortQueue(s)' = CohortQueue(s)
  BY DEF CohortQueue, LocalPcs
<1>2. \A u \in Threads : LocalTicket'[u] = LocalTicket[u]
  BY DEF LocalTicket
<1>3. \A s \in Sockets : Out(CohortQueue(s)', LocalTicket', grant'[s], requests'[s], LOCAL_COUNTS)
  BY <1>1, <1>2, OutKept DEF CohortLocal, CohortQueue
<1>4. "arm_local" \notin HolderPcs /\ "wait_local" \notin HolderPcs
  BY DEF HolderPcs, TicketedPcs, OwnerPcs
<1> QED
  BY <1>1, <1>3, <1>4 DEF CohortLocal

\* A step that leaves the global lock alone.
LEMMA GlobalKept ==
  ASSUME NEW g, NEW tickets, CohortGlobal(g, tickets),
         UNCHANGED <<owner_req_num, request, grants, cur_psl>>,
         \A s \in Sockets : (OwnsGlobal(s)' <=> OwnsGlobal(s)) /\ (Ticketed(s)' <=> Ticketed(s)),
         \A u \in Threads : pc'[u] \in TicketedPcs => pc'[u] = pc[u] /\ socket'[u] = socket[u] /\ req_num'[u] = req_num[u]
  PROVE  CohortGlobal(g, tickets)'
<1>1. GlobalQueue' = GlobalQueue
  BY DEF GlobalQueue
<1>2. \A u \in Threads : pc'[u] \in {"disarm_global", "set_owner"} => pc[u] = pc'[u] /\ req_num'[u] = req_num[u]
  BY DEF TicketedPcs
<1> QED
  BY <1>1, <1>2 DEF CohortGlobal

\* A thread joins the local lock of its socket.
LEMMA CohortDrawsLocal ==
  ASSUME NEW g, NEW tickets, Cohort(g, tickets), NEW t \in Threads, Cptltkt!DrawLocal(t)
  PROVE  Cohort(g, tickets)'
<1> DEFINE s == socket[t]
<1>1. CohortTyped /\ CohortLocal /\ CohortBatch /\ CohortGlobal(g, tickets)
  BY DEF Cohort
<1>2. /\ pc[t] = "draw" /\ pc' = [pc EXCEPT ![t] = "arm_local"]
      /\ req_num' = [req_num EXCEPT ![t] = requests[s]]
      /\ requests' = [requests EXCEPT ![s] = Cptltkt!LocalSucc(@)]
      /\ UNCHANGED <<grant, socket_grant, owner_req_num, request, grants, cur_psl, socket>>
  BY DEF Cptltkt!DrawLocal, Cptltkt!Goto, Cptltkt!global
<1>3. /\ s \in Sockets /\ s \in SocketsOf[t] /\ requests[s] \in CohortLocals
      /\ Cptltkt!LocalSucc(requests[s]) = RSucc(requests[s], LOCAL_COUNTS)
  BY <1>1, <1>2, LocalSuccRing DEF CohortTyped
<1>4. RSucc(requests[s], LOCAL_COUNTS) \in CohortLocals
  BY <1>3, SocketsTyped DEF RSucc, CohortLocals
<1>5. CohortTyped'
  BY <1>1, <1>2, <1>3, <1>4 DEF CohortTyped, CohortPcs, LocalPcs
<1>6. /\ pc'[t] = "arm_local" /\ req_num'[t] = requests[s] /\ requests'[s] = RSucc(requests[s], LOCAL_COUNTS)
      /\ \A u \in Threads \ {t} : pc'[u] = pc[u] /\ req_num'[u] = req_num[u]
      /\ \A r \in Sockets \ {s} : requests'[r] = requests[r]
  BY <1>1, <1>2, <1>3 DEF CohortTyped
<1>7. "draw" \notin LocalPcs /\ "arm_local" \notin HolderPcs /\ "arm_local" \in LocalPcs
  BY DEF LocalPcs, HolderPcs, TicketedPcs, OwnerPcs
<1>8. t \notin CohortQueue(s)
  BY <1>2, <1>7 DEF CohortQueue
<1>9. /\ CohortQueue(s)' = CohortQueue(s) \cup {t}
      /\ \A r \in Sockets \ {s} : CohortQueue(r)' = CohortQueue(r)
  BY <1>2, <1>6, <1>7 DEF CohortQueue
<1>10. LocalTicket'[t] = requests[s] /\ \A u \in Threads \ {t} : LocalTicket'[u] = LocalTicket[u]
  BY <1>2, <1>6, <1>7 DEF LocalTicket
<1>11. Out(CohortQueue(s)', LocalTicket', grant'[s], requests'[s], LOCAL_COUNTS)
  <2>1. Out(CohortQueue(s), LocalTicket, grant[s], requests[s], LOCAL_COUNTS)
    BY <1>1, <1>3 DEF CohortLocal
  <2>2. Cardinality(CohortQueue(s)) < LOCAL_COUNTS
    BY <1>1, <1>3, <1>8, SocketRoom
  <2>3. \A u \in CohortQueue(s) : LocalTicket'[u] = LocalTicket[u]
    BY <1>8, <1>10 DEF CohortQueue
  <2>4. Out(CohortQueue(s) \cup {t}, LocalTicket', grant[s], RSucc(requests[s], LOCAL_COUNTS), LOCAL_COUNTS)
    BY <1>8, <1>10, <2>1, <2>2, <2>3, OutJoins
  <2> QED
    BY <1>2, <1>6, <1>9, <2>4
<1>12. \A r \in Sockets \ {s} : Out(CohortQueue(r)', LocalTicket', grant'[r], requests'[r], LOCAL_COUNTS)
  <2>1. SUFFICES ASSUME NEW r \in Sockets \ {s}
                 PROVE  Out(CohortQueue(r)', LocalTicket', grant'[r], requests'[r], LOCAL_COUNTS)
    OBVIOUS
  <2>2. Out(CohortQueue(r), LocalTicket, grant[r], requests[r], LOCAL_COUNTS)
    BY <1>1 DEF CohortLocal
  <2>3. \A u \in CohortQueue(r) : LocalTicket'[u] = LocalTicket[u]
    BY <1>10 DEF CohortQueue
  <2> QED
    BY <1>2, <1>6, <1>9, <2>2, <2>3, OutKept
<1>13. CohortLocal'
  <2>1. \A u \in Threads : pc'[u] \in {"ul_batch", "ul_pass", "ul_global", "ul_local"} => u # t
    BY <1>6
  <2> QED
    BY <1>1, <1>2, <1>3, <1>6, <1>11, <1>12, <2>1 DEF CohortLocal
<1>14. CohortBatch'
  <2>1. \A u \in Threads : pc[u] \in LocalPcs => u # t /\ pc'[u] = pc[u]
    BY <1>2, <1>6, <1>7
  <2>2. \A u \in Threads : pc'[u] \in {"ul_batch", "ul_pass"} => pc'[u] = pc[u] /\ Followed(u)'
    BY <1>1, <1>2, <1>6, <2>1 DEF CohortBatch, Followed
  <2> QED
    BY <1>1, <1>2, <1>6, <2>1, <2>2 DEF CohortBatch
<1>15. CohortGlobal(g, tickets)'
  <2>1. \A u \in Threads : pc'[u] \in TicketedPcs \cup OwnerPcs \/ pc[u] \in TicketedPcs \cup OwnerPcs => u # t
    BY <1>2, <1>6 DEF TicketedPcs, OwnerPcs
  <2> QED
    BY <1>1, <1>2, <1>6, <2>1, GlobalKept DEF OwnsGlobal, Ticketed
<1> QED
  BY <1>5, <1>13, <1>14, <1>15 DEF Cohort

\* A thread that got the local lock finds the mark of the batch, or not.
LEMMA CohortHasLocal ==
  ASSUME NEW g, NEW tickets, Cohort(g, tickets), NEW t \in Threads, Cptltkt!HasLocal(t)
  PROVE  Cohort(g, tickets)'
<1> DEFINE s == socket[t]
<1>1. CohortTyped /\ CohortLocal /\ CohortBatch /\ CohortGlobal(g, tickets)
  BY DEF Cohort
<1>2. /\ pc[t] = "has_local" /\ s \in Sockets
      /\ pc' = [pc EXCEPT ![t] = IF socket_grant[s] THEN "disarm_local" ELSE "draw_global"]
      /\ socket_grant' = [socket_grant EXCEPT ![s] = FALSE]
      /\ UNCHANGED <<requests, grant, owner_req_num, request, grants, cur_psl, socket, req_num>>
  BY <1>1 DEF Cptltkt!HasLocal, Cptltkt!Goto, Cptltkt!global, CohortTyped
<1>3. /\ pc'[t] = IF socket_grant[s] THEN "disarm_local" ELSE "draw_global"
      /\ \A u \in Threads \ {t} : pc'[u] = pc[u]
      /\ ~socket_grant'[s] /\ \A r \in Sockets \ {s} : socket_grant'[r] = socket_grant[r]
  BY <1>1, <1>2 DEF CohortTyped
<1>4. /\ pc[t] \in HolderPcs /\ pc'[t] \in HolderPcs /\ pc'[t] \in CohortPcs
      /\ pc'[t] \notin TicketedPcs /\ pc[t] \notin TicketedPcs /\ pc[t] \notin OwnerPcs
      /\ pc'[t] \notin {"ul_batch", "ul_pass", "ul_global", "ul_local"}
      /\ pc'[t] \in OwnerPcs <=> socket_grant[s]
  BY <1>2, <1>3 DEF HolderPcs, LocalPcs, CohortPcs, OwnerPcs, TicketedPcs
<1>5. CohortTyped'
  BY <1>1, <1>2, <1>3, <1>4 DEF CohortTyped
<1>6. CohortLocal'
  BY <1>1, <1>2, <1>3, <1>4, HolderStays
<1>7. \A u \in Threads \ {t} : pc[u] \in HolderPcs => socket[u] # s
  BY <1>1, <1>2, <1>4, HolderUnique
<1>8. CohortBatch'
  <2>1. \A u \in Threads : pc[u] \in LocalPcs => pc'[u] \in LocalPcs
    BY <1>3, <1>4 DEF LocalPcs
  <2>2. \A u \in Threads : pc'[u] \in {"ul_batch", "ul_pass"} =>
          u # t /\ pc'[u] = pc[u] /\ socket[u] # s /\ socket[u] \in Sockets
    BY <1>1, <1>3, <1>4, <1>7 DEF HolderPcs, OwnerPcs, CohortTyped
  <2>3. \A u \in Threads : pc'[u] \in {"ul_batch", "ul_pass"} => Followed(u)'
    BY <1>1, <1>2, <2>1, <2>2 DEF CohortBatch, Followed
  <2>4. \A r \in Sockets : socket_grant'[r] => r # s /\ socket_grant[r]
    BY <1>3
  <2>5. \A r \in Sockets : socket_grant'[r] => \E u \in Threads : socket'[u] = r /\ pc'[u] \in LocalPcs
    BY <1>1, <1>2, <2>1, <2>4 DEF CohortBatch
  <2>6. \A u \in Threads : socket_grant'[socket'[u]] => u # t /\ pc'[u] = pc[u] /\ socket_grant[socket[u]]
    BY <1>1, <1>2, <1>3, <2>4 DEF CohortTyped
  <2>7. \A u \in Threads : pc'[u] = "ul_pass" => socket_grant'[socket'[u]]
    BY <1>1, <1>2, <1>3, <2>2 DEF CohortBatch
  <2> QED
    BY <1>1, <2>3, <2>5, <2>6, <2>7 DEF CohortBatch
<1>9. CohortGlobal(g, tickets)'
  <2>1. \A r \in Sockets : OwnsGlobal(r)' <=> OwnsGlobal(r)
    <3>1. ASSUME NEW r \in Sockets, r = s PROVE OwnsGlobal(r)' <=> OwnsGlobal(r)
      <4>1. \A u \in Threads : socket[u] = s /\ (pc[u] \in OwnerPcs \/ pc'[u] \in OwnerPcs) => u = t
        BY <1>3, <1>7 DEF HolderPcs
      <4> QED
        BY <1>2, <1>3, <1>4, <3>1, <4>1 DEF OwnsGlobal
    <3>2. \A r \in Sockets \ {s} : OwnsGlobal(r)' <=> OwnsGlobal(r)
      BY <1>2, <1>3 DEF OwnsGlobal
    <3> QED
      BY <3>1, <3>2
  <2>2. \A r \in Sockets : Ticketed(r)' <=> Ticketed(r)
    BY <1>2, <1>3, <1>4 DEF Ticketed
  <2>3. \A u \in Threads : pc'[u] \in TicketedPcs => pc'[u] = pc[u]
    BY <1>3, <1>4
  <2> QED
    BY <1>1, <1>2, <2>1, <2>2, <2>3, GlobalKept
<1> QED
  BY <1>5, <1>6, <1>8, <1>9 DEF Cohort

LEMMA CohortDisarmsLocal ==
  ASSUME NEW g, NEW tickets, Cohort(g, tickets), NEW t \in Threads, Cptltkt!DisarmLocal(t)
  PROVE  Cohort(g, tickets)'
<1>1. CohortTyped /\ CohortLocal /\ CohortBatch /\ CohortGlobal(g, tickets)
  BY DEF Cohort
<1>2. /\ UNCHANGED <<requests, grant, socket_grant, owner_req_num, request, grants, cur_psl, socket, req_num>>
      /\ pc[t] = "disarm_local" /\ pc' = [pc EXCEPT ![t] = "holding"]
  BY DEF Cptltkt!DisarmLocal, Cptltkt!SetPage, Cptltkt!Goto, Cptltkt!local, Cptltkt!global
<1>3. pc'[t] = "holding" /\ \A u \in Threads \ {t} : pc'[u] = pc[u]
  BY <1>1, <1>2 DEF CohortTyped
<1>4. CohortTyped'
  BY <1>1, <1>2 DEF CohortTyped, CohortPcs, LocalPcs, HolderPcs, OwnerPcs
<1>5. LocalTicket'[t] = LocalTicket[t] /\ ~socket_grant[socket[t]]
  BY <1>1, <1>2, <1>3 DEF LocalTicket, HolderPcs, OwnerPcs, CohortBatch
<1>6. CohortLocal' /\ CohortBatch' /\ CohortGlobal(g, tickets)'
  BY <1>1, <1>2, <1>3, <1>4, <1>5, CohortWalks DEF LocalPcs, HolderPcs, TicketedPcs, OwnerPcs
<1> QED
  BY <1>4, <1>6 DEF Cohort

\* A socket draws its ticket of the global lock.
LEMMA CohortDrawsGlobal ==
  ASSUME NEW g, NEW tickets, Cohort(g, tickets), NEW t \in Threads, Cptltkt!DrawGlobal(t)
  PROVE  \E tickets2 : Cohort(g, tickets2)'
<1>1. CohortTyped /\ CohortLocal /\ CohortBatch /\ CohortGlobal(g, tickets)
  BY DEF Cohort
<1>2. /\ pc[t] = "draw_global" /\ pc' = [pc EXCEPT ![t] = "set_global_for"]
      /\ req_num' = [req_num EXCEPT ![t] = request] /\ request' = Cptltkt!Succ(request)
      /\ UNCHANGED <<requests, grant, socket_grant, owner_req_num, grants, cur_psl, socket>>
  BY DEF Cptltkt!DrawGlobal, Cptltkt!Goto, Cptltkt!local
<1>3. PICK s \in Sockets : socket[t] = s
  BY <1>1 DEF CohortTyped
<1>4. /\ pc'[t] = "set_global_for" /\ req_num'[t] = request
      /\ \A u \in Threads \ {t} : pc'[u] = pc[u] /\ req_num'[u] = req_num[u]
  BY <1>1, <1>2 DEF CohortTyped
<1>5. request \in CohortCounts /\ request' = RSucc(request, COUNTS) /\ request' \in CohortCounts
  <2>1. request \in CohortCounts /\ request' = RSucc(request, COUNTS)
    BY <1>1, <1>2, GlobalSuccRing DEF CohortTyped
  <2> QED
    BY <2>1, SocketsTyped DEF RSucc, CohortCounts
<1>6. /\ pc[t] \in HolderPcs /\ pc'[t] \in HolderPcs /\ pc'[t] \in CohortPcs /\ pc'[t] \in TicketedPcs
      /\ pc'[t] \notin OwnerPcs /\ pc[t] \notin OwnerPcs /\ pc[t] \notin TicketedPcs
      /\ pc'[t] \notin {"ul_batch", "ul_pass", "ul_global", "ul_local", "disarm_global", "set_owner"}
  BY <1>2, <1>4 DEF HolderPcs, LocalPcs, CohortPcs, OwnerPcs, TicketedPcs
<1>7. CohortTyped'
  BY <1>1, <1>2, <1>4, <1>5, <1>6 DEF CohortTyped
<1>8. CohortLocal'
  BY <1>1, <1>2, <1>4, <1>6, HolderStays
<1>9. \A u \in Threads \ {t} : pc[u] \in HolderPcs => socket[u] # s
  BY <1>1, <1>3, <1>6, HolderUnique
<1>10. ~socket_grant[s]
  BY <1>1, <1>2, <1>3 DEF CohortBatch
<1>11. CohortBatch'
  <2>1. \A u \in Threads : pc[u] \in LocalPcs => pc'[u] \in LocalPcs
    BY <1>4, <1>6 DEF LocalPcs
  <2>2. \A u \in Threads : pc'[u] \in {"ul_batch", "ul_pass"} => pc'[u] = pc[u] /\ Followed(u)'
    BY <1>1, <1>2, <1>4, <1>6, <2>1 DEF CohortBatch, Followed
  <2>3. \A u \in Threads : socket_grant'[socket'[u]] => u # t /\ pc'[u] = pc[u]
    BY <1>2, <1>3, <1>4, <1>10
  <2> QED
    BY <1>1, <1>2, <2>1, <2>2, <2>3 DEF CohortBatch
<1>12. \A r \in Sockets : OwnsGlobal(r)' <=> OwnsGlobal(r)
  BY <1>2, <1>4, <1>6 DEF OwnsGlobal
<1>13. \A r \in Sockets : Ticketed(r)' <=> Ticketed(r) \/ r = s
  BY <1>2, <1>3, <1>4, <1>6 DEF Ticketed
<1>14. GlobalQueue' = GlobalQueue \cup {s}
  BY <1>3, <1>12, <1>13 DEF GlobalQueue
<1>15. s \notin GlobalQueue
  BY <1>3, <1>6, <1>9, <1>10 DEF GlobalQueue, Ticketed, OwnsGlobal, HolderPcs
<1>16. PICK tickets2 : tickets2[s] = request /\ \A r \in Sockets \ {s} : tickets2[r] = tickets[r]
  <2> WITNESS [r \in Sockets |-> IF r = s THEN request ELSE tickets[r]]
  <2> QED
    OBVIOUS
<1>17. Out(GlobalQueue', tickets2, g, request', COUNTS)
  <2>1. Cardinality(GlobalQueue) < COUNTS
    <3>1. Cardinality(GlobalQueue) <= SocketCount /\ Cardinality(GlobalQueue) \in Nat
      BY SocketsTyped, FS_Subset, FS_CardinalityType DEF GlobalQueue, SocketCount
    <3> QED
      BY <3>1, SocketsTyped
  <2>2. Out(GlobalQueue, tickets, g, request, COUNTS) /\ \A r \in GlobalQueue : tickets2[r] = tickets[r]
    BY <1>1, <1>15, <1>16 DEF CohortGlobal, GlobalQueue
  <2>3. Out(GlobalQueue \cup {s}, tickets2, g, RSucc(request, COUNTS), COUNTS)
    BY <1>15, <1>16, <2>1, <2>2, OutJoins
  <2> QED
    BY <1>5, <1>14, <2>3
<1>18. \A u \in Threads : pc'[u] \in TicketedPcs => req_num'[u] = tickets2[socket'[u]]
  <2>1. SUFFICES ASSUME NEW u \in Threads, pc'[u] \in TicketedPcs, u # t PROVE req_num[u] = tickets2[socket[u]]
    BY <1>2, <1>3, <1>4, <1>16
  <2>2. pc[u] \in TicketedPcs /\ socket[u] # s /\ socket[u] \in Sockets
    BY <1>1, <1>4, <1>9, <2>1 DEF HolderPcs, CohortTyped
  <2> QED
    BY <1>1, <1>16, <2>2 DEF CohortGlobal
<1>19. \A r \in Sockets : OwnsGlobal(r)' => tickets2[r] = g /\ owner_req_num'[r] = g /\ cur_psl' = r
  BY <1>1, <1>2, <1>12, <1>15, <1>16 DEF CohortGlobal, GlobalQueue
<1>20. \A u \in Threads : pc'[u] \in {"disarm_global", "set_owner"} => req_num'[u] = g
  BY <1>1, <1>4, <1>6 DEF CohortGlobal
<1>21. CohortGlobal(g, tickets2)'
  BY <1>1, <1>2, <1>17, <1>18, <1>19, <1>20 DEF CohortGlobal
<1> QED
  BY <1>7, <1>8, <1>11, <1>21 DEF Cohort

\* A socket whose ticket is served writes itself down as the owner.
LEMMA CohortSetsOwner ==
  ASSUME NEW g, NEW tickets, Cohort(g, tickets), NEW t \in Threads, Cptltkt!SetOwner(t)
  PROVE  Cohort(g, tickets)'
<1>1. CohortTyped /\ CohortLocal /\ CohortBatch /\ CohortGlobal(g, tickets)
  BY DEF Cohort
<1>2. PICK s \in Sockets : socket[t] = s
  BY <1>1 DEF CohortTyped
<1>3. /\ pc[t] = "set_owner" /\ pc' = [pc EXCEPT ![t] = "holding"]
      /\ cur_psl' = s /\ owner_req_num' = [owner_req_num EXCEPT ![s] = g] /\ req_num[t] = g
      /\ UNCHANGED <<requests, grant, socket_grant, request, grants, socket, req_num>>
  BY <1>1, <1>2 DEF Cptltkt!SetOwner, Cptltkt!Goto, CohortGlobal
<1>4. /\ pc'[t] = "holding" /\ \A u \in Threads \ {t} : pc'[u] = pc[u]
      /\ owner_req_num'[s] = g /\ \A r \in Sockets \ {s} : owner_req_num'[r] = owner_req_num[r]
  BY <1>1, <1>3 DEF CohortTyped
<1>5. /\ pc[t] \in HolderPcs /\ pc'[t] \in HolderPcs /\ pc'[t] \in CohortPcs /\ pc[t] \in TicketedPcs
      /\ pc'[t] \in OwnerPcs /\ pc[t] \notin OwnerPcs /\ pc'[t] \notin TicketedPcs
      /\ pc'[t] \notin {"ul_batch", "ul_pass", "ul_global", "ul_local", "disarm_global", "set_owner"}
  BY <1>3, <1>4 DEF HolderPcs, LocalPcs, CohortPcs, OwnerPcs, TicketedPcs
<1>6. g \in CohortCounts
  BY <1>1, OutTyped DEF CohortGlobal, CohortCounts
<1>7. CohortTyped'
  BY <1>1, <1>2, <1>3, <1>4, <1>5, <1>6 DEF CohortTyped
<1>8. CohortLocal'
  BY <1>1, <1>3, <1>4, <1>5, HolderStays
<1>9. \A u \in Threads \ {t} : pc[u] \in HolderPcs => socket[u] # s
  BY <1>1, <1>2, <1>5, HolderUnique
<1>10. ~socket_grant[s]
  BY <1>1, <1>2, <1>3 DEF CohortBatch
<1>11. CohortBatch'
  <2>1. \A u \in Threads : pc[u] \in LocalPcs => pc'[u] \in LocalPcs
    BY <1>4, <1>5 DEF LocalPcs
  <2>2. \A u \in Threads : pc'[u] \in {"ul_batch", "ul_pass"} => pc'[u] = pc[u] /\ Followed(u)'
    BY <1>1, <1>3, <1>4, <1>5, <2>1 DEF CohortBatch, Followed
  <2>3. \A u \in Threads : socket_grant'[socket'[u]] => u # t /\ pc'[u] = pc[u]
    BY <1>2, <1>3, <1>4, <1>10
  <2> QED
    BY <1>1, <1>3, <2>1, <2>2, <2>3 DEF CohortBatch
<1>12. s \in GlobalQueue /\ tickets[s] = g
  BY <1>1, <1>2, <1>3, <1>5 DEF CohortGlobal, GlobalQueue, Ticketed
<1>13. \A r \in Sockets : OwnsGlobal(r) => r = s
  <2>1. \A q, r \in GlobalQueue : tickets[q] = tickets[r] => q = r
    BY <1>1 DEF CohortGlobal, Out
  <2> QED
    BY <1>1, <1>12, <2>1 DEF CohortGlobal, GlobalQueue
<1>14. \A r \in Sockets : OwnsGlobal(r)' <=> r = s
  <2>1. \A r \in Sockets : OwnsGlobal(r)' <=> OwnsGlobal(r) \/ r = s
    BY <1>2, <1>3, <1>4, <1>5 DEF OwnsGlobal
  <2> QED
    BY <1>13, <2>1
<1>15. \A r \in Sockets : Ticketed(r)' <=> Ticketed(r) /\ r # s
  <2>1. \A u \in Threads : pc'[u] \in TicketedPcs <=> pc[u] \in TicketedPcs /\ u # t
    BY <1>4, <1>5
  <2>2. \A u \in Threads : pc[u] \in TicketedPcs /\ u # t => socket[u] # s
    BY <1>9 DEF HolderPcs
  <2> QED
    BY <1>2, <1>3, <2>1, <2>2 DEF Ticketed
<1>16. GlobalQueue' = GlobalQueue
  BY <1>12, <1>13, <1>14, <1>15 DEF GlobalQueue
<1>17. \A u \in Threads : pc'[u] \in TicketedPcs => pc'[u] = pc[u]
  BY <1>4, <1>5
<1>18. \A u \in Threads : pc'[u] \in {"disarm_global", "set_owner"} => pc'[u] = pc[u]
  BY <1>4, <1>5
<1>19. CohortGlobal(g, tickets)'
  BY <1>1, <1>3, <1>4, <1>12, <1>14, <1>16, <1>17, <1>18 DEF CohortGlobal
<1> QED
  BY <1>7, <1>8, <1>11, <1>19 DEF Cohort

\* unlock() reads who is next: the socket that it works on is the thread's own.
LEMMA CohortUnlockLoads ==
  ASSUME NEW g, NEW tickets, Cohort(g, tickets), NEW t \in Threads, Cptltkt!UnlockLoads(t)
  PROVE  Cohort(g, tickets)'
<1>1. CohortTyped /\ CohortLocal /\ CohortBatch /\ CohortGlobal(g, tickets)
  BY DEF Cohort
<1>2. PICK s \in Sockets : socket[t] = s
  BY <1>1 DEF CohortTyped
<1>3. pc[t] = "holding"
  BY DEF Cptltkt!UnlockLoads, Cptltkt!UnlockBegin, Cptltkt!Goto
<1>4. cur_psl = s
  BY <1>1, <1>2, <1>3 DEF CohortGlobal, OwnsGlobal, OwnerPcs
<1> DEFINE next_grant == Cptltkt!LocalSucc(grant[s])
<1>5. next_grant = RSucc(grant[s], LOCAL_COUNTS) /\ next_grant \in CohortLocals
  <2>1. grant[s] \in CohortLocals
    BY <1>1 DEF CohortTyped
  <2>2. next_grant = RSucc(grant[s], LOCAL_COUNTS)
    BY <2>1, LocalSuccRing
  <2> QED
    BY <2>1, <2>2, SocketsTyped DEF RSucc, CohortLocals
<1> HIDE DEF next_grant
<1>6. PICK to \in {"ul_batch", "ul_global"} :
        /\ pc' = [pc EXCEPT ![t] = to]
        /\ to = "ul_batch" => requests[s] # next_grant
  BY <1>4 DEF Cptltkt!UnlockLoads, Cptltkt!UnlockBegin, Cptltkt!Goto, next_grant
<1>7. /\ socket' = [socket EXCEPT ![t] = s] /\ req_num' = [req_num EXCEPT ![t] = next_grant]
      /\ UNCHANGED <<requests, grant, socket_grant, owner_req_num, request, grants, cur_psl>>
  BY <1>4 DEF Cptltkt!UnlockLoads, Cptltkt!UnlockBegin, Cptltkt!global, next_grant
<1>8. /\ pc'[t] = to /\ socket'[t] = s /\ req_num'[t] = next_grant
      /\ \A u \in Threads \ {t} : pc'[u] = pc[u] /\ socket'[u] = socket[u] /\ req_num'[u] = req_num[u]
  BY <1>1, <1>6, <1>7 DEF CohortTyped
<1>9. /\ to \in OwnerPcs /\ pc[t] \in OwnerPcs /\ to \in LocalPcs /\ pc[t] \in LocalPcs /\ to \in CohortPcs
      /\ to \notin TicketedPcs /\ pc[t] \notin TicketedPcs /\ to \in HolderPcs /\ pc[t] \in HolderPcs
  BY <1>3 DEF LocalPcs, HolderPcs, TicketedPcs, OwnerPcs, CohortPcs
<1>10. CohortTyped'
  <2>1. s \in SocketsOf[t]
    BY <1>1, <1>2, <1>3 DEF CohortTyped
  <2>2. pc' \in [Threads -> CohortPcs]
    BY <1>1, <1>6, <1>9 DEF CohortTyped
  <2>3. socket' \in [Threads -> Sockets] /\ req_num' \in [Threads -> CohortCounts \cup CohortLocals]
    BY <1>1, <1>5, <1>7 DEF CohortTyped
  <2>4. \A u \in Threads : pc'[u] # "idle" => socket'[u] \in SocketsOf[u]
    BY <1>1, <1>8, <2>1 DEF CohortTyped
  <2> QED
    BY <1>1, <1>7, <2>2, <2>3, <2>4 DEF CohortTyped
<1>11. LocalTicket'[t] = LocalTicket[t] /\ ~socket_grant[s]
  BY <1>1, <1>2, <1>3, <1>7, <1>8, <1>9 DEF LocalTicket, CohortBatch
<1>12. to = "ul_batch" => Followed(t)
  <2>1. SUFFICES ASSUME requests[s] # next_grant, ~Followed(t) PROVE FALSE
    BY <1>6
  <2>2. CohortQueue(s) = {t}
    BY <1>2, <1>9, <2>1 DEF CohortQueue, Followed
  <2>3. Out(CohortQueue(s), LocalTicket, grant[s], requests[s], LOCAL_COUNTS)
    BY <1>1 DEF CohortLocal
  <2> QED
    BY <1>5, <2>1, <2>2, <2>3, OutAlone
<1>13. CohortLocal' /\ CohortBatch' /\ CohortGlobal(g, tickets)'
  BY <1>1, <1>2, <1>5, <1>7, <1>8, <1>9, <1>10, <1>11, <1>12, CohortWalks
<1> QED
  BY <1>10, <1>13 DEF Cohort

\* The mark is set while no other thread of the socket has the local lock.
LEMMA CohortMarks ==
  ASSUME NEW g, NEW tickets, Cohort(g, tickets), NEW t \in Threads, Cptltkt!UnlockSocketGrant(t)
  PROVE  Cohort(g, tickets)'
<1>1. CohortTyped /\ CohortLocal /\ CohortBatch /\ CohortGlobal(g, tickets)
  BY DEF Cohort
<1>2. PICK s \in Sockets : socket[t] = s
  BY <1>1 DEF CohortTyped
<1>3. /\ pc[t] = "ul_batch" /\ pc' = [pc EXCEPT ![t] = "ul_pass"]
      /\ socket_grant' = [socket_grant EXCEPT ![s] = TRUE]
      /\ UNCHANGED <<requests, grant, owner_req_num, request, grants, cur_psl, socket, req_num>>
  BY <1>2 DEF Cptltkt!UnlockSocketGrant, Cptltkt!Goto, Cptltkt!global
<1>4. /\ pc'[t] = "ul_pass" /\ \A u \in Threads \ {t} : pc'[u] = pc[u]
      /\ socket_grant'[s] /\ \A r \in Sockets \ {s} : socket_grant'[r] = socket_grant[r]
  BY <1>1, <1>3 DEF CohortTyped
<1>5. /\ pc[t] \in HolderPcs /\ pc'[t] \in HolderPcs /\ pc'[t] \in CohortPcs /\ pc[t] \notin TicketedPcs
      /\ pc'[t] \in OwnerPcs /\ pc[t] \in OwnerPcs /\ pc'[t] \notin TicketedPcs /\ pc[t] \in LocalPcs
  BY <1>3, <1>4 DEF HolderPcs, LocalPcs, CohortPcs, OwnerPcs, TicketedPcs
<1>6. CohortTyped'
  BY <1>1, <1>3, <1>4, <1>5 DEF CohortTyped
<1>7. CohortLocal'
  <2>1. req_num[t] = RSucc(grant[socket[t]], LOCAL_COUNTS)
    BY <1>1, <1>3 DEF CohortLocal
  <2> QED
    BY <1>1, <1>3, <1>4, <1>5, <2>1, HolderStays
<1>8. \A u \in Threads \ {t} : pc[u] \in HolderPcs => socket[u] # s
  BY <1>1, <1>2, <1>5, HolderUnique
<1>9. CohortBatch'
  <2>1. \A u \in Threads : pc[u] \in LocalPcs => pc'[u] \in LocalPcs
    BY <1>4, <1>5 DEF LocalPcs
  <2>2. \A u \in Threads : pc'[u] \in {"ul_batch", "ul_pass"} => Followed(u)'
    <3>1. \A u \in Threads : pc'[u] \in {"ul_batch", "ul_pass"} => pc[u] \in {"ul_batch", "ul_pass"}
      BY <1>3, <1>4
    <3> QED
      BY <1>1, <1>3, <2>1, <3>1 DEF CohortBatch, Followed
  <2>3. \A u \in Threads : pc'[u] = "ul_pass" => socket_grant'[socket'[u]]
    BY <1>1, <1>2, <1>3, <1>4 DEF CohortBatch, CohortTyped
  <2>4. \A r \in Sockets : socket_grant'[r] => \E u \in Threads : socket'[u] = r /\ pc'[u] \in LocalPcs
    BY <1>1, <1>2, <1>3, <1>4, <1>5, <2>1 DEF CohortBatch
  <2>5. \A u \in Threads : socket_grant'[socket'[u]] =>
          pc'[u] \in {"idle", "draw", "arm_local", "wait_local", "has_local", "ul_pass"}
    <3>1. \A u \in Threads \ {t} : socket[u] = s => pc[u] \in {"idle", "draw", "arm_local", "wait_local"}
      BY <1>1, <1>8 DEF CohortTyped, CohortPcs, LocalPcs
    <3>2. \A u \in Threads \ {t} : socket[u] # s /\ socket_grant'[socket[u]] => socket_grant[socket[u]]
      BY <1>1, <1>4 DEF CohortTyped
    <3> QED
      BY <1>1, <1>3, <1>4, <3>1, <3>2 DEF CohortBatch
  <2> QED
    BY <2>2, <2>3, <2>4, <2>5 DEF CohortBatch
<1>10. CohortGlobal(g, tickets)'
  <2>1. \A r \in Sockets : OwnsGlobal(r)' <=> OwnsGlobal(r)
    BY <1>2, <1>3, <1>4, <1>5 DEF OwnsGlobal
  <2>2. \A r \in Sockets : Ticketed(r)' <=> Ticketed(r)
    BY <1>3, <1>4, <1>5 DEF Ticketed
  <2>3. \A u \in Threads : pc'[u] \in TicketedPcs => pc'[u] = pc[u]
    BY <1>4, <1>5
  <2> QED
    BY <1>1, <1>3, <2>1, <2>2, <2>3, GlobalKept
<1> QED
  BY <1>6, <1>7, <1>9, <1>10 DEF Cohort

\* The local lock goes to the next thread of the socket, with the global lock
\* and its mark or without both.
LEMMA CohortReleasesLocal ==
  ASSUME NEW g, NEW tickets, Cohort(g, tickets), NEW t \in Threads, Cptltkt!UnlockPass(t) \/ Cptltkt!UnlockLocal(t)
  PROVE  Cohort(g, tickets)'
<1>1. CohortTyped /\ CohortLocal /\ CohortBatch /\ CohortGlobal(g, tickets)
  BY DEF Cohort
<1>2. PICK s \in Sockets : socket[t] = s
  BY <1>1 DEF CohortTyped
<1>3. /\ pc[t] \in {"ul_pass", "ul_local"} /\ pc' = [pc EXCEPT ![t] = "idle"]
      /\ socket' = [socket EXCEPT ![t] = 0] /\ req_num' = [req_num EXCEPT ![t] = 0]
      /\ grant' = [grant EXCEPT ![s] = req_num[t]]
      /\ UNCHANGED <<requests, socket_grant, owner_req_num, request, grants, cur_psl>>
  BY <1>2 DEF Cptltkt!UnlockPass, Cptltkt!UnlockLocal, Cptltkt!Return, Cptltkt!Goto, Cptltkt!global
<1>4. /\ pc'[t] = "idle"
      /\ \A u \in Threads \ {t} : pc'[u] = pc[u] /\ socket'[u] = socket[u] /\ req_num'[u] = req_num[u]
      /\ grant'[s] = req_num[t] /\ \A r \in Sockets \ {s} : grant'[r] = grant[r]
  BY <1>1, <1>3 DEF CohortTyped
<1>5. req_num[t] = RSucc(grant[s], LOCAL_COUNTS) /\ req_num[t] \in CohortLocals
  <2>1. req_num[t] = RSucc(grant[s], LOCAL_COUNTS) /\ grant[s] \in CohortLocals
    BY <1>1, <1>2, <1>3 DEF CohortLocal, CohortTyped
  <2> QED
    BY <2>1, SocketsTyped DEF RSucc, CohortLocals
<1>6. /\ pc[t] \in HolderPcs /\ pc[t] \in LocalPcs /\ pc[t] \notin TicketedPcs /\ pc'[t] \in CohortPcs
      /\ pc'[t] \notin LocalPcs /\ pc'[t] \notin TicketedPcs /\ pc'[t] \notin OwnerPcs
      /\ pc[t] \in OwnerPcs <=> pc[t] = "ul_pass"
  BY <1>3, <1>4 DEF HolderPcs, LocalPcs, CohortPcs, OwnerPcs, TicketedPcs
<1>7. 0 \in Sockets /\ 0 \in CohortCounts
  BY SocketsTyped DEF CohortCounts
<1>8. CohortTyped'
  BY <1>1, <1>3, <1>4, <1>5, <1>6, <1>7 DEF CohortTyped
<1>9. \A u \in Threads \ {t} : pc[u] \in HolderPcs => socket[u] # s
  BY <1>1, <1>2, <1>6, HolderUnique
<1>10. \A u \in Threads \ {t} : LocalTicket'[u] = LocalTicket[u]
  <2>1. SUFFICES ASSUME NEW u \in Threads \ {t} PROVE LocalTicket'[u] = LocalTicket[u]
    OBVIOUS
  <2>2. pc[u] \in HolderPcs => grant'[socket[u]] = grant[socket[u]]
    BY <1>1, <1>4, <1>9 DEF CohortTyped
  <2> QED
    BY <1>4, <2>2 DEF LocalTicket
<1>11. /\ CohortQueue(s)' = CohortQueue(s) \ {t} /\ t \in CohortQueue(s)
       /\ \A r \in Sockets \ {s} : CohortQueue(r)' = CohortQueue(r)
  BY <1>2, <1>4, <1>6 DEF CohortQueue
<1>12. Out(CohortQueue(s)', LocalTicket', grant'[s], requests'[s], LOCAL_COUNTS)
  <2>1. Out(CohortQueue(s), LocalTicket, grant[s], requests[s], LOCAL_COUNTS) /\ LocalTicket[t] = grant[s]
    BY <1>1, <1>2, <1>6 DEF CohortLocal, LocalTicket
  <2>2. \A u \in CohortQueue(s) \ {t} : LocalTicket'[u] = LocalTicket[u]
    BY <1>10 DEF CohortQueue
  <2>3. Out(CohortQueue(s) \ {t}, LocalTicket', RSucc(grant[s], LOCAL_COUNTS), requests[s], LOCAL_COUNTS)
    BY <1>11, <2>1, <2>2, OutServes
  <2> QED
    BY <1>3, <1>4, <1>5, <1>11, <2>3
<1>13. \A r \in Sockets \ {s} : Out(CohortQueue(r)', LocalTicket', grant'[r], requests'[r], LOCAL_COUNTS)
  <2>1. SUFFICES ASSUME NEW r \in Sockets \ {s}
                 PROVE  Out(CohortQueue(r)', LocalTicket', grant'[r], requests'[r], LOCAL_COUNTS)
    OBVIOUS
  <2>2. Out(CohortQueue(r), LocalTicket, grant[r], requests[r], LOCAL_COUNTS)
    BY <1>1 DEF CohortLocal
  <2>3. \A u \in CohortQueue(r) : LocalTicket'[u] = LocalTicket[u]
    BY <1>2, <1>10 DEF CohortQueue
  <2> QED
    BY <1>3, <1>4, <1>11, <2>2, <2>3, OutKept
<1>14. CohortLocal'
  <2>1. \A u \in Threads : pc'[u] \in {"arm_local", "wait_local"} => req_num'[u] \in CohortLocals
    BY <1>1, <1>4 DEF CohortLocal
  <2>2. \A u \in Threads : pc'[u] \in {"ul_batch", "ul_pass", "ul_global", "ul_local"} =>
          req_num'[u] = RSucc(grant'[socket'[u]], LOCAL_COUNTS)
    <3>1. SUFFICES ASSUME NEW u \in Threads, pc'[u] \in {"ul_batch", "ul_pass", "ul_global", "ul_local"}
                   PROVE  req_num'[u] = RSucc(grant'[socket'[u]], LOCAL_COUNTS)
      OBVIOUS
    <3>2. u # t /\ pc'[u] = pc[u] /\ socket[u] \in Sockets \ {s}
      BY <1>1, <1>4, <1>9, <3>1 DEF HolderPcs, OwnerPcs, CohortTyped
    <3> QED
      BY <1>1, <1>4, <3>1, <3>2 DEF CohortLocal
  <2> QED
    BY <1>12, <1>13, <2>1, <2>2 DEF CohortLocal
<1>15. CohortBatch'
  <2>1. \A u \in Threads : pc[u] \in LocalPcs /\ u # t => pc'[u] \in LocalPcs /\ socket'[u] = socket[u]
    BY <1>4
  <2>2. \A u \in Threads : pc'[u] \in {"ul_batch", "ul_pass"} =>
          u # t /\ pc'[u] = pc[u] /\ socket'[u] = socket[u] /\ socket[u] # s
    BY <1>4, <1>9 DEF HolderPcs, OwnerPcs
  <2>3. \A u \in Threads : pc'[u] \in {"ul_batch", "ul_pass"} => Followed(u)'
    BY <1>1, <1>2, <2>1, <2>2 DEF CohortBatch, Followed
  <2>4. \A r \in Sockets : socket_grant'[r] => \E u \in Threads : socket'[u] = r /\ pc'[u] \in LocalPcs
    <3>1. ASSUME NEW r \in Sockets \ {s}, socket_grant[r]
          PROVE \E u \in Threads : socket'[u] = r /\ pc'[u] \in LocalPcs
      BY <1>1, <1>2, <2>1, <3>1 DEF CohortBatch
    <3>2. ASSUME socket_grant[s] PROVE \E u \in Threads : socket'[u] = s /\ pc'[u] \in LocalPcs
      <4>1. pc[t] = "ul_pass"
        BY <1>1, <1>2, <1>3, <3>2 DEF CohortBatch
      <4>2. Followed(t)
        BY <1>1, <4>1 DEF CohortBatch
      <4> QED
        BY <1>2, <2>1, <4>2 DEF Followed
    <3> QED
      BY <1>3, <3>1, <3>2
  <2>5. \A u \in Threads : pc'[u] = "ul_pass" => socket_grant'[socket'[u]]
    BY <1>1, <1>3, <2>2 DEF CohortBatch
  <2>6. \A u \in Threads : socket_grant'[socket'[u]] =>
          pc'[u] \in {"idle", "draw", "arm_local", "wait_local", "has_local", "ul_pass"}
    BY <1>1, <1>3, <1>4 DEF CohortBatch
  <2> QED
    BY <2>3, <2>4, <2>5, <2>6 DEF CohortBatch
<1>16. CohortGlobal(g, tickets)'
  <2>1. \A r \in Sockets : OwnsGlobal(r)' <=> OwnsGlobal(r)
    <3>1. pc[t] = "ul_pass" => socket_grant[s]
      BY <1>1, <1>2 DEF CohortBatch
    <3> QED
      BY <1>2, <1>3, <1>4, <1>6, <3>1 DEF OwnsGlobal
  <2>2. \A r \in Sockets : Ticketed(r)' <=> Ticketed(r)
    BY <1>4, <1>6 DEF Ticketed
  <2>3. \A u \in Threads : pc'[u] \in TicketedPcs =>
          pc'[u] = pc[u] /\ socket'[u] = socket[u] /\ req_num'[u] = req_num[u]
    BY <1>4, <1>6
  <2> QED
    BY <1>1, <1>3, <2>1, <2>2, <2>3, GlobalKept
<1> QED
  BY <1>8, <1>14, <1>15, <1>16 DEF Cohort

LEMMA DistNext ==
  ASSUME NEW M \in Nat \ {0}, NEW a \in 0 .. M - 1, NEW b \in 0 .. M - 1, RDist(a, b, M) + 1 < M
  PROVE  RDist(a, RSucc(b, M), M) = RDist(a, b, M) + 1
  BY DEF RDist, RSucc

\* The global lock goes to the next socket: the word that is written shows the
\* ticket that is served from here on.
LEMMA CohortReleasesGlobal ==
  ASSUME NEW g, NEW tickets, Cohort(g, tickets), NEW t \in Threads, Cptltkt!UnlockGlobal(t)
  PROVE  \E g2 : g2 = RSucc(g, COUNTS) /\ Cohort(g2, tickets)'
<1>1. CohortTyped /\ CohortLocal /\ CohortBatch /\ CohortGlobal(g, tickets)
  BY DEF Cohort
<1>2. PICK s \in Sockets : socket[t] = s
  BY <1>1 DEF CohortTyped
<1>3. /\ pc[t] = "ul_global" /\ pc' = [pc EXCEPT ![t] = "ul_local"]
      /\ UNCHANGED <<requests, grant, socket_grant, owner_req_num, request, cur_psl, socket, req_num>>
  BY DEF Cptltkt!UnlockGlobal, Cptltkt!Goto, Cptltkt!local
<1>4. g \in CohortCounts /\ owner_req_num[s] = g /\ tickets[s] = g
  <2>1. OwnsGlobal(s)
    BY <1>2, <1>3 DEF OwnsGlobal, OwnerPcs
  <2> QED
    BY <1>1, <2>1, OutTyped DEF CohortGlobal, CohortCounts
<1>5. PICK g2 : g2 = RSucc(g, COUNTS)
  OBVIOUS
<1>6. g2 \in CohortCounts
  BY <1>4, <1>5, SocketsTyped DEF RSucc, CohortCounts
<1>7. g2 % SocketCount \in Sockets
  <2>1. SocketCount \in Nat \ {0} /\ g2 \in Int
    BY <1>6, SocketsTyped DEF CohortCounts
  <2>2. g2 % SocketCount \in 0 .. SocketCount - 1
    BY <2>1, ModTyped
  <2> QED
    BY <2>2, SocketsTyped
<1>8. grants' = [grants EXCEPT ![g2 % SocketCount] = g2]
  <2>1. Cptltkt!Succ(owner_req_num[s]) = g2
    BY <1>4, <1>5, GlobalSuccRing
  <2>2. Cptltkt!Idx(g2) = g2 % SocketCount
    BY SocketsTyped
  <2> QED
    BY <1>2, <2>1, <2>2 DEF Cptltkt!UnlockGlobal
<1>9. pc'[t] = "ul_local" /\ \A u \in Threads \ {t} : pc'[u] = pc[u]
  BY <1>1, <1>3 DEF CohortTyped
<1>10. /\ pc[t] \in HolderPcs /\ pc'[t] \in HolderPcs /\ pc'[t] \in CohortPcs /\ pc[t] \notin TicketedPcs
       /\ pc'[t] \notin OwnerPcs /\ pc[t] \in OwnerPcs /\ pc'[t] \notin TicketedPcs
       /\ pc'[t] \notin {"ul_batch", "ul_pass"}
  BY <1>3, <1>9 DEF HolderPcs, LocalPcs, CohortPcs, OwnerPcs, TicketedPcs
<1>11. CohortTyped'
  <2>1. pc' \in [Threads -> CohortPcs]
    BY <1>1, <1>3, <1>9, <1>10 DEF CohortTyped
  <2>2. grants' \in [Sockets -> CohortCounts]
    BY <1>1, <1>6, <1>8 DEF CohortTyped
  <2>3. \A u \in Threads : pc'[u] # "idle" => socket'[u] \in SocketsOf[u]
    BY <1>1, <1>3, <1>9 DEF CohortTyped
  <2> QED
    BY <1>1, <1>3, <2>1, <2>2, <2>3 DEF CohortTyped
<1>12. CohortLocal'
  <2>1. req_num[t] = RSucc(grant[socket[t]], LOCAL_COUNTS)
    BY <1>1, <1>3 DEF CohortLocal
  <2> QED
    BY <1>1, <1>3, <1>9, <1>10, <2>1, HolderStays
<1>13. \A u \in Threads \ {t} : pc[u] \in HolderPcs => socket[u] # s
  BY <1>1, <1>2, <1>10, HolderUnique
<1>14. ~socket_grant[s]
  BY <1>1, <1>2, <1>3 DEF CohortBatch
<1>15. CohortBatch'
  <2>1. \A u \in Threads : pc[u] \in LocalPcs => pc'[u] \in LocalPcs
    BY <1>9, <1>10 DEF LocalPcs
  <2>2. \A u \in Threads : pc'[u] \in {"ul_batch", "ul_pass"} => pc'[u] = pc[u] /\ Followed(u)'
    BY <1>1, <1>3, <1>9, <1>10, <2>1 DEF CohortBatch, Followed
  <2>3. \A u \in Threads : socket_grant'[socket'[u]] => u # t /\ pc'[u] = pc[u]
    BY <1>2, <1>3, <1>9, <1>14
  <2> QED
    BY <1>1, <1>3, <2>1, <2>2, <2>3 DEF CohortBatch
<1>16. s \in GlobalQueue
  BY <1>2, <1>10 DEF GlobalQueue, OwnsGlobal
<1>17. \A r \in GlobalQueue : tickets[r] = g => r = s
  BY <1>1, <1>4, <1>16 DEF CohortGlobal, Out
<1>18. \A r \in Sockets : ~OwnsGlobal(r)'
  <2>1. \A r \in Sockets : OwnsGlobal(r) => r = s
    BY <1>1, <1>17 DEF CohortGlobal, GlobalQueue
  <2>2. \A r \in Sockets : OwnsGlobal(r)' => OwnsGlobal(r) /\ r # s
    BY <1>2, <1>3, <1>9, <1>10, <1>13, <1>14 DEF OwnsGlobal, HolderPcs
  <2> QED
    BY <2>1, <2>2
<1>19. \A r \in Sockets : Ticketed(r)' <=> Ticketed(r)
  BY <1>3, <1>9, <1>10 DEF Ticketed
<1>20. ~Ticketed(s)
  BY <1>2, <1>10, <1>13 DEF Ticketed, HolderPcs
<1>21. GlobalQueue' = GlobalQueue \ {s}
  <2>1. \A r \in Sockets : OwnsGlobal(r) => r = s
    BY <1>1, <1>17 DEF CohortGlobal, GlobalQueue
  <2> QED
    BY <1>18, <1>19, <1>20, <2>1 DEF GlobalQueue
<1>22. Out(GlobalQueue', tickets, g2, request', COUNTS)
  <2>1. Out(GlobalQueue, tickets, g, request, COUNTS)
    BY <1>1 DEF CohortGlobal
  <2>2. Out(GlobalQueue \ {s}, tickets, RSucc(g, COUNTS), request, COUNTS)
    BY <1>4, <1>16, <2>1, OutServes
  <2> QED
    BY <1>3, <1>5, <1>21, <2>2
<1>23. \A u \in Threads : pc'[u] \in TicketedPcs => req_num'[u] = tickets[socket'[u]]
  BY <1>1, <1>3, <1>9, <1>10 DEF CohortGlobal
<1>24. \A u \in Threads : pc'[u] \notin {"disarm_global", "set_owner"}
  <2>1. SUFFICES ASSUME NEW u \in Threads, pc'[u] \in {"disarm_global", "set_owner"} PROVE FALSE
    OBVIOUS
  <2>2. u # t /\ pc[u] \in {"disarm_global", "set_owner"} /\ pc[u] \in TicketedPcs /\ pc[u] \in HolderPcs
    BY <1>9, <2>1 DEF TicketedPcs, HolderPcs
  <2>3. socket[u] \in Sockets /\ tickets[socket[u]] = g /\ socket[u] \in GlobalQueue
    BY <1>1, <2>2 DEF CohortTyped, CohortGlobal, GlobalQueue, Ticketed
  <2> QED
    BY <1>13, <1>17, <2>2, <2>3
<1>25. \A i \in Sockets : grants'[i] % SocketCount = i => RDist(grants'[i], g2, COUNTS) < SocketCount
  <2>1. SUFFICES ASSUME NEW i \in Sockets, grants'[i] % SocketCount = i
                 PROVE  RDist(grants'[i], g2, COUNTS) < SocketCount
    OBVIOUS
  <2>2. CASE i = g2 % SocketCount
    <3>1. grants'[i] = g2
      BY <1>1, <1>8, <2>2 DEF CohortTyped
    <3> QED
      BY <1>6, <3>1, SocketsTyped DEF RDist, CohortCounts
  <2>3. CASE i # g2 % SocketCount
    <3> DEFINE x == grants[i]
               K == SocketCount
               C == COUNTS
    <3>1. grants'[i] = x /\ x \in CohortCounts
      BY <1>1, <1>8, <2>3 DEF CohortTyped
    <3>2. RDist(x, g, C) < K
      BY <1>1, <2>1, <3>1 DEF CohortGlobal
    <3>3. /\ K \in Nat \ {0} /\ C \in Nat \ {0} /\ C > K
          /\ x \in 0 .. C - 1 /\ g \in 0 .. C - 1 /\ RDist(x, g, C) \in Nat
      BY <1>4, <3>1, SocketsTyped DEF CohortCounts, RDist
    <3>4. RDist(x, g2, C) # K
      <4>1. x % K # g2 % K
        BY <2>1, <2>3, <3>1
      <4> QED
        BY <1>6, <3>1, <4>1, RoundOfSockets
    <3> HIDE DEF x, K, C
    <3>5. RDist(x, g, C) + 1 < C
      BY <3>2, <3>3
    <3>6. RDist(x, g2, C) = RDist(x, g, C) + 1
      BY <1>5, <3>3, <3>5, DistNext DEF C
    <3>7. RDist(x, g2, C) < K
      BY <3>2, <3>3, <3>4, <3>6
    <3> QED
      BY <3>1, <3>7 DEF K, C
  <2> QED
    BY <2>2, <2>3
<1>26. grants'[g2 % SocketCount] = g2
  BY <1>1, <1>7, <1>8 DEF CohortTyped
<1>27. CohortGlobal(g2, tickets)'
  BY <1>18, <1>22, <1>23, <1>24, <1>25, <1>26 DEF CohortGlobal
<1> QED
  BY <1>5, <1>11, <1>12, <1>15, <1>27 DEF Cohort

\* Each step keeps the queues, then each keeps the pages.
LEMMA CohortQueuesNext == ASSUME CohortQueues, Cptltkt!Next PROVE CohortQueues'
<1>1. PICK g, tickets : Cohort(g, tickets)
  BY DEF CohortQueues
<1>2. ASSUME \E g2, tickets2 : Cohort(g2, tickets2)' PROVE CohortQueues'
  BY <1>2 DEF CohortQueues
<1>3. ASSUME NEW t \in Threads, Cptltkt!CallLock(t) \/ Cptltkt!DrawLocal(t) \/ Cptltkt!ArmLocal(t) \/ Cptltkt!WaitLocal(t)
      PROVE  Cohort(g, tickets)'
  BY <1>1, <1>3, CohortCalls, CohortDrawsLocal, CohortWaitsLocal
<1>4. ASSUME NEW t \in Threads, Cptltkt!HasLocal(t) \/ Cptltkt!DisarmLocal(t) \/ Cptltkt!SetOwner(t)
      PROVE  Cohort(g, tickets)'
  BY <1>1, <1>4, CohortHasLocal, CohortDisarmsLocal, CohortSetsOwner
<1>5. ASSUME NEW t \in Threads,
             \/ Cptltkt!SetGlobalFor(t) \/ Cptltkt!SetGlobalNeq(t) \/ Cptltkt!SetGlobalMem(t)
             \/ Cptltkt!WaitGlobal(t) \/ Cptltkt!DisarmGlobal(t)
      PROVE  Cohort(g, tickets)'
  BY <1>1, <1>5, CohortWaitsGlobal
<1>6. ASSUME NEW t \in Threads,
             Cptltkt!UnlockLoads(t) \/ Cptltkt!UnlockSocketGrant(t) \/ Cptltkt!UnlockPass(t) \/ Cptltkt!UnlockLocal(t)
      PROVE  Cohort(g, tickets)'
  BY <1>1, <1>6, CohortUnlockLoads, CohortMarks, CohortReleasesLocal
<1>7. ASSUME NEW t \in Threads, Cptltkt!DrawGlobal(t) PROVE \E tickets2 : Cohort(g, tickets2)'
  BY <1>1, <1>7, CohortDrawsGlobal
<1>8. ASSUME NEW t \in Threads, Cptltkt!UnlockGlobal(t) PROVE \E g2 : Cohort(g2, tickets)'
  BY <1>1, <1>8, CohortReleasesGlobal
<1> QED
  BY <1>2, <1>3, <1>4, <1>5, <1>6, <1>7, <1>8 DEF Cptltkt!Next, Cptltkt!Step

\* A step of t does not disturb what the pages of the others say.
LEMMA OtherPages ==
  ASSUME CohortTyped, CohortLocal, CohortPage, NEW t \in Threads,
         \A u \in Threads \ {t} :
           pc'[u] = pc[u] /\ page'[u] = page[u] /\ socket'[u] = socket[u] /\ req_num'[u] = req_num[u],
         \/ UNCHANGED grant
         \/ pc[t] \in HolderPcs /\ \A s \in Sockets \ {socket[t]} : grant'[s] = grant[s]
  PROVE  \A u \in Threads \ {t} : CohortPageOf(u)'
<1> SUFFICES ASSUME NEW u \in Threads \ {t} PROVE CohortPageOf(u)'
  OBVIOUS
<1>1. LocalTicket'[u] = LocalTicket[u]
  <2>1. pc[u] \in HolderPcs => grant'[socket[u]] = grant[socket[u]]
    BY HolderUnique DEF CohortTyped
  <2> QED
    BY <2>1 DEF LocalTicket
<1>2. CohortPageOf(u)
  BY DEF CohortPage
<1> QED
  BY <1>1, <1>2 DEF CohortPageOf

LEMMA CohortPageNext == ASSUME CohortQueues, CohortPage, Cptltkt!Next PROVE CohortPage'
<1> USE DEF Cptltkt!Goto, Cptltkt!local, Cptltkt!global
<1>1. PICK g, tickets : Cohort(g, tickets)
  BY DEF CohortQueues
<1>2. CohortTyped /\ CohortLocal /\ CohortBatch /\ CohortGlobal(g, tickets)
  BY <1>1 DEF Cohort
<1>3. \A n : Cptltkt!Idx(n) = n % SocketCount
  BY SocketsTyped
<1>4. ASSUME NEW t \in Threads,
             \/ Cptltkt!CallLock(t) \/ Cptltkt!DrawLocal(t)
             \/ Cptltkt!WaitLocal(t) \/ Cptltkt!HasLocal(t) \/ Cptltkt!DrawGlobal(t)
             \/ Cptltkt!WaitGlobal(t) \/ Cptltkt!SetOwner(t)
             \/ Cptltkt!UnlockLoads(t) \/ Cptltkt!UnlockSocketGrant(t) \/ Cptltkt!UnlockGlobal(t)
      PROVE  CohortPage'
  <2>1. UNCHANGED <<page, grant>>
    BY <1>4 DEF Cptltkt!CallLock, Cptltkt!DrawLocal, Cptltkt!WaitLocal, Cptltkt!HasLocal, Cptltkt!DrawGlobal,
       Cptltkt!WaitGlobal, Cptltkt!SetOwner, Cptltkt!UnlockLoads, Cptltkt!UnlockBegin, Cptltkt!UnlockSocketGrant,
       Cptltkt!UnlockGlobal
  <2>2. \A u \in Threads \ {t} : pc'[u] = pc[u] /\ socket'[u] = socket[u] /\ req_num'[u] = req_num[u]
    BY <1>2, <1>4 DEF CohortTyped, Cptltkt!CallLock, Cptltkt!DrawLocal, Cptltkt!WaitLocal, Cptltkt!HasLocal,
       Cptltkt!DrawGlobal, Cptltkt!WaitGlobal, Cptltkt!SetOwner, Cptltkt!UnlockLoads, Cptltkt!UnlockBegin,
       Cptltkt!UnlockSocketGrant, Cptltkt!UnlockGlobal
  <2>3. \/ /\ pc[t] \notin CohortArmedPcs \cup {"set_global_neq", "set_global_mem", "wait_global", "disarm_global"}
           /\ pc'[t] \notin CohortArmedPcs \cup {"set_global_neq", "set_global_mem", "wait_global", "disarm_global"}
        \/ pc[t] = "wait_local" /\ pc'[t] \in {"wait_local", "has_local"} /\ UNCHANGED <<socket, req_num>>
             /\ (pc'[t] = "has_local" => grant[socket[t]] = req_num[t])
        \/ pc[t] = "has_local" /\ pc'[t] \in {"disarm_local", "draw_global"} /\ UNCHANGED <<socket, req_num>>
        \/ pc[t] = "draw_global" /\ pc'[t] = "set_global_for" /\ UNCHANGED socket
        \/ pc[t] = "wait_global" /\ pc'[t] \in {"wait_global", "disarm_global"} /\ UNCHANGED <<socket, req_num>>
    BY <1>2, <1>4 DEF CohortTyped, Cptltkt!CallLock, Cptltkt!DrawLocal, Cptltkt!WaitLocal, Cptltkt!HasLocal,
       Cptltkt!DrawGlobal, Cptltkt!WaitGlobal, Cptltkt!SetOwner, Cptltkt!UnlockLoads, Cptltkt!UnlockBegin,
       Cptltkt!UnlockSocketGrant, Cptltkt!UnlockGlobal, CohortArmedPcs
  <2>4. CohortPageOf(t)
    BY DEF CohortPage
  <2>5. CohortPageOf(t)'
    BY <2>1, <2>3, <2>4 DEF CohortPageOf, CohortArmedPcs, LocalTicket, HolderPcs, TicketedPcs, OwnerPcs
  <2>6. \A u \in Threads \ {t} : CohortPageOf(u)'
    BY <1>2, <2>1, <2>2, OtherPages
  <2> QED
    BY <2>1, <2>5, <2>6 DEF CohortPage
<1>5. ASSUME NEW t \in Threads, Cptltkt!UnlockPass(t) \/ Cptltkt!UnlockLocal(t) PROVE CohortPage'
  <2>1. /\ UNCHANGED page /\ pc[t] \in {"ul_pass", "ul_local"} /\ pc'[t] = "idle"
        /\ \A u \in Threads \ {t} : pc'[u] = pc[u] /\ socket'[u] = socket[u] /\ req_num'[u] = req_num[u]
        /\ \A s \in Sockets \ {socket[t]} : grant'[s] = grant[s]
    BY <1>2, <1>5 DEF CohortTyped, Cptltkt!UnlockPass, Cptltkt!UnlockLocal, Cptltkt!Return
  <2>2. pc[t] \in HolderPcs
    BY <2>1 DEF HolderPcs, OwnerPcs
  <2>3. \A u \in Threads \ {t} : CohortPageOf(u)'
    BY <1>2, <2>1, <2>2, OtherPages
  <2>4. CohortPageOf(t)
    BY DEF CohortPage
  <2>5. CohortPageOf(t)'
    BY <2>1, <2>4 DEF CohortPageOf, CohortArmedPcs
  <2> QED
    BY <2>1, <2>3, <2>5 DEF CohortPage
<1>6. ASSUME NEW t \in Threads, NEW from, NEW to, NEW set, Cptltkt!SetPage(t, from, to, set)
      PROVE  /\ pc[t] = from /\ pc'[t] = to /\ page'[t] = set /\ UNCHANGED <<grant, socket, req_num>>
             /\ page' = [page EXCEPT ![t] = set]
             /\ \A u \in Threads \ {t} : CohortPageOf(u)'
  <2>1. /\ pc[t] = from /\ pc'[t] = to /\ page'[t] = set /\ UNCHANGED <<grant, socket, req_num>>
        /\ page' = [page EXCEPT ![t] = set]
        /\ \A u \in Threads \ {t} : pc'[u] = pc[u] /\ page'[u] = page[u]
    BY <1>2, <1>6 DEF CohortTyped, CohortPage, Cptltkt!SetPage
  <2> QED
    BY <1>2, <2>1, OtherPages
<1>7. \A t \in Threads : /\ socket[t] \in Sockets /\ req_num[t] \in CohortCounts \cup CohortLocals
                         /\ page[t] \in CohortPages /\ CohortPageOf(t)
  BY <1>2 DEF CohortTyped, CohortPage
<1>8. Cptltkt!Kernel!ZeroPage \in CohortPages
  BY SocketsTyped DEF Cptltkt!Kernel!ZeroPage, CohortPages, CohortLocals
<1>9. ASSUME NEW t \in Threads, Cptltkt!ArmLocal(t) PROVE CohortPage'
  <2> DEFINE set == [watch_mem |-> <<"local", socket[t]>>, watch_for |-> req_num[t], watch_neq |-> 0]
  <2>1. Cptltkt!SetPage(t, "arm_local", "wait_local", set)
    BY <1>9 DEF Cptltkt!ArmLocal
  <2>2. set \in CohortPages /\ set.watch_mem = <<"local", socket[t]>> /\ set.watch_for = req_num[t] /\ set.watch_neq = 0
    BY <1>7 DEF CohortPages, Cptltkt!Words
  <2> HIDE DEF set
  <2>3. /\ pc'[t] = "wait_local" /\ page'[t] = set /\ UNCHANGED <<grant, socket, req_num>>
        /\ page' = [page EXCEPT ![t] = set] /\ \A u \in Threads \ {t} : CohortPageOf(u)'
    BY <1>6, <2>1
  <2>4. LocalTicket'[t] = req_num[t]
    BY <2>3 DEF LocalTicket, HolderPcs, TicketedPcs, OwnerPcs
  <2>5. CohortPageOf(t)'
    BY <2>2, <2>3, <2>4 DEF CohortPageOf, CohortArmedPcs
  <2> QED
    BY <2>2, <2>3, <2>5 DEF CohortPage
<1>10. ASSUME NEW t \in Threads, Cptltkt!DisarmLocal(t) \/ Cptltkt!DisarmGlobal(t) PROVE CohortPage'
  <2> DEFINE set == Cptltkt!Kernel!ZeroPage
  <2>1. PICK to : to \in {"holding", "set_owner"} /\ \E from : Cptltkt!SetPage(t, from, to, set)
    BY <1>10 DEF Cptltkt!DisarmLocal, Cptltkt!DisarmGlobal
  <2>2. PICK from : Cptltkt!SetPage(t, from, to, set)
    BY <2>1
  <2>3. set.watch_mem = NULL /\ set \in CohortPages
    BY <1>8 DEF Cptltkt!Kernel!ZeroPage
  <2> HIDE DEF set
  <2>4. /\ pc'[t] = to /\ page'[t] = set
        /\ page' = [page EXCEPT ![t] = set] /\ \A u \in Threads \ {t} : CohortPageOf(u)'
    BY <1>6, <2>2
  <2>5. CohortPageOf(t)'
    BY <2>1, <2>3, <2>4 DEF CohortPageOf, CohortArmedPcs
  <2> QED
    BY <2>3, <2>4, <2>5 DEF CohortPage
<1>11. ASSUME NEW t \in Threads, Cptltkt!SetGlobalFor(t) PROVE CohortPage'
  <2> DEFINE set == Cptltkt!Kernel!SetWatchFor(page[t], req_num[t])
  <2>1. Cptltkt!SetPage(t, "set_global_for", "set_global_neq", set)
    BY <1>11 DEF Cptltkt!SetGlobalFor
  <2>2. set \in CohortPages /\ set.watch_for = req_num[t]
    BY <1>7 DEF CohortPages, Cptltkt!Kernel!SetWatchFor
  <2> HIDE DEF set
  <2>3. /\ pc'[t] = "set_global_neq" /\ page'[t] = set /\ UNCHANGED req_num
        /\ page' = [page EXCEPT ![t] = set] /\ \A u \in Threads \ {t} : CohortPageOf(u)'
    BY <1>6, <2>1
  <2>4. CohortPageOf(t)'
    BY <2>2, <2>3 DEF CohortPageOf, CohortArmedPcs
  <2> QED
    BY <2>2, <2>3, <2>4 DEF CohortPage
<1>12. ASSUME NEW t \in Threads, Cptltkt!SetGlobalNeq(t) PROVE CohortPage'
  <2> DEFINE set == Cptltkt!Kernel!SetWatchNeq(page[t], 0)
  <2>1. Cptltkt!SetPage(t, "set_global_neq", "set_global_mem", set)
    BY <1>12 DEF Cptltkt!SetGlobalNeq
  <2>2. set \in CohortPages /\ set.watch_for = page[t].watch_for /\ set.watch_neq = 0
    BY <1>7 DEF CohortPages, Cptltkt!Kernel!SetWatchNeq
  <2> HIDE DEF set
  <2>3. /\ pc[t] = "set_global_neq" /\ pc'[t] = "set_global_mem" /\ page'[t] = set /\ UNCHANGED req_num
        /\ page' = [page EXCEPT ![t] = set] /\ \A u \in Threads \ {t} : CohortPageOf(u)'
    BY <1>6, <2>1
  <2>4. CohortPageOf(t)'
    BY <1>7, <2>2, <2>3 DEF CohortPageOf, CohortArmedPcs
  <2> QED
    BY <2>2, <2>3, <2>4 DEF CohortPage
<1>13. ASSUME NEW t \in Threads, Cptltkt!SetGlobalMem(t) PROVE CohortPage'
  <2> DEFINE w == <<"global", req_num[t] % SocketCount>>
             set == Cptltkt!Kernel!SetWatchMem(page[t], w)
  <2>1. Cptltkt!SetPage(t, "set_global_mem", "wait_global", set)
    BY <1>3, <1>13 DEF Cptltkt!SetGlobalMem
  <2>2. req_num[t] % SocketCount \in Sockets
    <3>1. req_num[t] \in Int /\ SocketCount \in Nat \ {0}
      BY <1>7, SocketsTyped DEF CohortCounts, CohortLocals
    <3> QED
      BY <3>1, ModTyped, SocketsTyped
  <2>3. w \in Cptltkt!Words
    BY <2>2 DEF Cptltkt!Words
  <2>4. set \in CohortPages /\ set.watch_for = page[t].watch_for /\ set.watch_neq = page[t].watch_neq /\ set.watch_mem = w
    <3> HIDE DEF w
    <3> QED
      BY <1>7, <2>3 DEF CohortPages, Cptltkt!Kernel!SetWatchMem
  <2> HIDE DEF set
  <2>5. /\ pc[t] = "set_global_mem" /\ pc'[t] = "wait_global" /\ page'[t] = set /\ UNCHANGED req_num
        /\ page' = [page EXCEPT ![t] = set] /\ \A u \in Threads \ {t} : CohortPageOf(u)'
    BY <1>6, <2>1
  <2>6. CohortPageOf(t)'
    BY <1>7, <2>4, <2>5 DEF CohortPageOf, CohortArmedPcs
  <2> QED
    BY <2>4, <2>5, <2>6 DEF CohortPage
<1> QED
  BY <1>4, <1>5, <1>9, <1>10, <1>11, <1>12, <1>13 DEF Cptltkt!Next, Cptltkt!Step

LEMMA CohortSame ==
  ASSUME NEW g, NEW tickets, Cohort(g, tickets),
         UNCHANGED <<pc, requests, grant, socket_grant, owner_req_num, request, grants, cur_psl, socket, req_num>>
  PROVE  Cohort(g, tickets)'
<1>1. CohortTyped /\ CohortLocal /\ CohortBatch /\ CohortGlobal(g, tickets)
  BY DEF Cohort
<1>2. /\ \A s : CohortQueue(s)' = CohortQueue(s) /\ (OwnsGlobal(s)' <=> OwnsGlobal(s)) /\ (Ticketed(s)' <=> Ticketed(s))
      /\ LocalTicket' = LocalTicket /\ \A t : Followed(t)' <=> Followed(t)
  BY DEF CohortQueue, OwnsGlobal, Ticketed, LocalTicket, Followed
<1>3. GlobalQueue' = GlobalQueue
  BY <1>2 DEF GlobalQueue
<1>4. CohortTyped' /\ CohortBatch'
  BY <1>1, <1>2 DEF CohortTyped, CohortBatch
<1>5. CohortLocal'
  <2>1. \A s \in Sockets : Out(CohortQueue(s)', LocalTicket', grant'[s], requests'[s], LOCAL_COUNTS)
    BY <1>1, <1>2 DEF CohortLocal
  <2> QED
    BY <1>1, <2>1 DEF CohortLocal
<1>6. CohortGlobal(g, tickets)'
  BY <1>1, <1>2, <1>3 DEF CohortGlobal
<1> QED
  BY <1>4, <1>5, <1>6 DEF Cohort

LEMMA CohortStutters == ASSUME CohortInv, UNCHANGED <<page, pc, cptltktVars>> PROVE CohortInv'
<1>1. PICK g, tickets : Cohort(g, tickets)
  BY DEF CohortInv, CohortQueues
<1>2. /\ UNCHANGED <<page, pc, requests, grant, socket_grant, owner_req_num, request, grants, cur_psl, socket, req_num>>
      /\ CohortPage
  BY DEF CohortInv, cptltktVars
<1>3. Cohort(g, tickets)'
  BY <1>1, <1>2, CohortSame
<1>4. CohortPage'
  BY <1>2 DEF CohortPage, CohortPageOf, LocalTicket
<1> QED
  BY <1>3, <1>4 DEF CohortInv, CohortQueues

LEMMA CohortNext == ASSUME CohortInv, Cptltkt!Next \/ UNCHANGED <<page, pc, cptltktVars>> PROVE CohortInv'
  BY CohortQueuesNext, CohortPageNext, CohortStutters DEF CohortInv

LEMMA OutEmpty == ASSUME NEW tk, NEW M \in Nat \ {0} PROVE Out({}, tk, 0, 0, M)
<1>1. IsFiniteSet({}) /\ Cardinality({}) = 0
  BY FS_EmptySet
<1> QED
  BY <1>1 DEF Out, RDist

LEMMA CohortInit == ASSUME Cptltkt!Init PROVE CohortInv
<1> USE DEF Cptltkt!Init
<1>1. /\ pc = [t \in Threads |-> "idle"]
      /\ requests = [s \in Sockets |-> 0] /\ grant = [s \in Sockets |-> 0]
      /\ socket_grant = [s \in Sockets |-> FALSE] /\ owner_req_num = [s \in Sockets |-> 0]
      /\ request = 0 /\ grants = [s \in Sockets |-> 0]
      /\ socket = [t \in Threads |-> 0] /\ req_num = [t \in Threads |-> 0]
  OBVIOUS
<1>2. 0 \in Sockets /\ 0 \in CohortCounts /\ 0 \in CohortLocals /\ SocketCount \in Nat \ {0} /\ COUNTS \in Nat \ {0}
  BY SocketsTyped DEF CohortCounts, CohortLocals
<1>3. \A t \in Threads : pc[t] = "idle" /\ "idle" \notin LocalPcs
  BY <1>1 DEF LocalPcs, HolderPcs, TicketedPcs, OwnerPcs
<1>4. \A t \in Threads : pc[t] \notin TicketedPcs /\ pc[t] \notin OwnerPcs
  BY <1>3 DEF LocalPcs, HolderPcs
<1>5. CohortTyped
  BY <1>1, <1>2 DEF CohortTyped, CohortPcs
<1>6. CohortLocal
  <2>1. \A s \in Sockets : CohortQueue(s) = {}
    BY <1>3 DEF CohortQueue
  <2>2. \A s \in Sockets : Out(CohortQueue(s), LocalTicket, grant[s], requests[s], LOCAL_COUNTS)
    <3>1. SUFFICES ASSUME NEW s \in Sockets
                   PROVE  Out(CohortQueue(s), LocalTicket, grant[s], requests[s], LOCAL_COUNTS)
      OBVIOUS
    <3>2. grant[s] = 0 /\ requests[s] = 0 /\ CohortQueue(s) = {}
      BY <1>1, <2>1
    <3>3. Out({}, LocalTicket, 0, 0, LOCAL_COUNTS)
      BY OutEmpty, SocketsTyped
    <3> QED
      BY <3>2, <3>3, Zenon
  <2> QED
    BY <1>3, <2>2 DEF CohortLocal
<1>7. CohortBatch
  BY <1>1, <1>2, <1>3 DEF CohortBatch
<1>8. PICK tickets : tickets = 0
  OBVIOUS
<1>9. \A s \in Sockets : ~OwnsGlobal(s) /\ ~Ticketed(s)
  BY <1>1, <1>4 DEF OwnsGlobal, Ticketed
<1>10. CohortGlobal(0, tickets)
  <2>1. GlobalQueue = {}
    BY <1>9 DEF GlobalQueue
  <2>2. Out(GlobalQueue, tickets, 0, request, COUNTS)
    BY <1>1, <1>2, <2>1, OutEmpty
  <2>3. 0 % SocketCount = 0
    BY <1>2
  <2>4. \A i \in Sockets : RDist(grants[i], 0, COUNTS) < SocketCount
    BY <1>1, <1>2 DEF RDist
  <2>5. grants[0 % SocketCount] = 0
    BY <1>1, <1>2, <2>3
  <2>6. \A t \in Threads : pc[t] \notin {"disarm_global", "set_owner"}
    BY <1>3
  <2> QED
    BY <1>4, <1>9, <2>2, <2>4, <2>5, <2>6 DEF CohortGlobal
<1>11. CohortPage
  BY <1>2, <1>3 DEF CohortPage, CohortPageOf, CohortPages, CohortArmedPcs, Cptltkt!Kernel!ZeroPage
<1> QED
  BY <1>5, <1>6, <1>7, <1>10, <1>11 DEF CohortInv, CohortQueues, Cohort

\* One socket has the global lock, and one thread of it the local lock.
LEMMA CohortExcludes == CohortInv => MutualExclusion
<1> SUFFICES ASSUME CohortInv, NEW t \in Threads, NEW u \in Threads, Owns(t), Owns(u) PROVE t = u
  BY DEF MutualExclusion
<1>1. PICK g, tickets : Cohort(g, tickets)
  BY DEF CohortInv, CohortQueues
<1>2. CohortTyped /\ CohortLocal /\ CohortGlobal(g, tickets)
  BY <1>1 DEF Cohort
<1>3. /\ pc[t] \in OwnerPcs /\ pc[u] \in OwnerPcs /\ pc[t] \in HolderPcs /\ pc[u] \in HolderPcs
  BY <1>2 DEF CohortTyped, CohortPcs, LocalPcs, HolderPcs, TicketedPcs, OwnerPcs, Owns, Holds, OwnerUnlockPcs
<1>4. OwnsGlobal(socket[t]) /\ OwnsGlobal(socket[u]) /\ socket[t] \in Sockets /\ socket[u] \in Sockets
  BY <1>2, <1>3 DEF OwnsGlobal, CohortTyped
<1>5. socket[t] = socket[u]
  BY <1>2, <1>4 DEF CohortGlobal
<1> QED
  BY <1>2, <1>3, <1>5, HolderUnique

LEMMA CohortTurnIsSchedulable ==
  ASSUME CohortInv
  PROVE  \A t \in Threads : ~Cptltkt!Runnable(t) => Waits(t) /\ (Cptltkt!ItsTurn(t) => Cptltkt!HalfArmed(t))
<1> SUFFICES ASSUME NEW t \in Threads, ~Cptltkt!Runnable(t) PROVE Waits(t) /\ (Cptltkt!ItsTurn(t) => Cptltkt!HalfArmed(t))
  OBVIOUS
<1>1. PICK g, tickets : Cohort(g, tickets)
  BY DEF CohortInv, CohortQueues
<1>2. CohortTyped /\ CohortPage /\ CohortPageOf(t) /\ CohortGlobal(g, tickets)
  BY <1>1 DEF Cohort, CohortInv, CohortPage
<1>3. page[t].watch_mem # NULL /\ Cptltkt!Kernel!CheckMem(page[t], Cptltkt!Mem)
  BY DEF Cptltkt!Runnable, Cptltkt!Kernel!DontSched, Cptltkt!Kernel!IsArmed
<1>4. \/ pc[t] \in CohortArmedPcs \cup {"wait_global", "disarm_global"}
      \/ pc[t] \in {"set_global_neq", "set_global_mem"}
  BY <1>2, <1>3 DEF CohortPageOf
<1>5. ASSUME pc[t] \in CohortArmedPcs \cup {"wait_global", "disarm_global"}
      PROVE  page[t].watch_neq = 0 /\ Cptltkt!Mem[page[t].watch_mem] # page[t].watch_for
  <2>1. page[t].watch_neq = 0
    BY <1>2, <1>5 DEF CohortPageOf, CohortArmedPcs
  <2> QED
    BY <1>3, <2>1 DEF Cptltkt!Kernel!CheckMem
<1>6. socket[t] \in Sockets /\ req_num[t] % SocketCount \in Sockets
  <2>1. socket[t] \in Sockets /\ req_num[t] \in Int /\ SocketCount \in Nat \ {0}
    BY <1>2, SocketsTyped DEF CohortTyped, CohortCounts, CohortLocals
  <2> QED
    BY <2>1, ModTyped, SocketsTyped
<1>7. CASE pc[t] \in CohortArmedPcs
  <2>1. page[t].watch_mem = <<"local", socket[t]>> /\ page[t].watch_for = LocalTicket[t]
    BY <1>2, <1>7 DEF CohortPageOf
  <2>2. Cptltkt!Mem[page[t].watch_mem] = grant[socket[t]]
    BY <1>6, <2>1 DEF Cptltkt!Mem, Cptltkt!Words
  <2>3. grant[socket[t]] # LocalTicket[t]
    BY <1>5, <1>7, <2>1, <2>2
  <2>4. pc[t] = "wait_local" /\ LocalTicket[t] = req_num[t]
    BY <1>7, <2>3 DEF CohortArmedPcs, LocalTicket, HolderPcs, TicketedPcs, OwnerPcs
  <2> QED
    BY <2>3, <2>4 DEF Waits, TryPcs, OwnerUnlockPcs, LateUnlockPcs, Cptltkt!ItsTurn, Cptltkt!WaitsForGlobal
<1>8. CASE pc[t] \in {"wait_global", "disarm_global"}
  <2>1. page[t].watch_mem = <<"global", req_num[t] % SocketCount>> /\ page[t].watch_for = req_num[t]
    BY <1>2, <1>8 DEF CohortPageOf
  <2>2. Cptltkt!Mem[page[t].watch_mem] = grants[req_num[t] % SocketCount]
    BY <1>6, <2>1 DEF Cptltkt!Mem, Cptltkt!Words
  <2>3. grants[req_num[t] % SocketCount] # req_num[t]
    BY <1>5, <1>8, <2>1, <2>2
  <2>4. pc[t] # "disarm_global"
    BY <1>1, <1>2, <2>3, GrantMeansTurn DEF CohortGlobal, TicketedPcs
  <2>5. pc[t] = "wait_global" /\ grants[Cptltkt!Idx(req_num[t])] # req_num[t]
    BY <1>8, <2>3, <2>4, SocketsTyped
  <2> QED
    BY <2>5 DEF Waits, TryPcs, OwnerUnlockPcs, LateUnlockPcs, Cptltkt!ItsTurn, Cptltkt!WaitsForGlobal
<1>9. CASE pc[t] \in {"set_global_neq", "set_global_mem"}
  BY <1>9 DEF Waits, TryPcs, OwnerUnlockPcs, LateUnlockPcs, Cptltkt!HalfArmed
<1> QED
  BY <1>4, <1>7, <1>8, <1>9

\* Whoever is at the head of the local queue of a marked socket finds the mark.
LEMMA CohortSocketGrantIsOwned == CohortInv => Cptltkt!SocketGrantIsOwned
<1> SUFFICES ASSUME CohortInv, NEW s \in Sockets, socket_grant[s]
             PROVE  /\ cur_psl = s
                    /\ \E t \in Threads : socket[t] = s /\ (pc[t] = "ul_pass" \/ Cptltkt!ItsTurn(t))
  BY DEF Cptltkt!SocketGrantIsOwned
<1>1. PICK g, tickets : Cohort(g, tickets)
  BY DEF CohortInv, CohortQueues
<1>2. CohortTyped /\ CohortLocal /\ CohortBatch /\ CohortGlobal(g, tickets)
  BY <1>1 DEF Cohort
<1>3. cur_psl = s
  BY <1>2 DEF CohortGlobal, OwnsGlobal
<1>4. CohortQueue(s) # {}
  BY <1>2 DEF CohortBatch, CohortQueue
<1>5. PICK t \in CohortQueue(s) : LocalTicket[t] = grant[s]
  BY <1>2, <1>4, OutHead DEF CohortLocal
<1>6. t \in Threads /\ socket[t] = s /\ pc[t] \in LocalPcs
  BY <1>5 DEF CohortQueue
<1>7. pc[t] \in {"arm_local", "wait_local", "has_local", "ul_pass"}
  BY <1>2, <1>6 DEF CohortBatch, LocalPcs, HolderPcs, TicketedPcs, OwnerPcs
<1>8. pc[t] \in {"arm_local", "wait_local"} => req_num[t] = grant[s]
  BY <1>5 DEF LocalTicket, CohortQueue, HolderPcs, TicketedPcs, OwnerPcs
<1> QED
  BY <1>3, <1>6, <1>7, <1>8 DEF Cptltkt!ItsTurn

\* How often the global lock is still passed on inside the socket that has it,
\* or inside the next one.  A thread that waits for the global lock is passed by
\* that many, and by a batch of every other socket that is served before its own.
RestOfBatch ==
  IF \E t \in Threads : pc[t] = "ul_global" THEN 0
  ELSE IF \E t \in Threads : pc[t] = "holding" THEN batch_count[cur_psl]
  ELSE IF \E s \in Sockets : OwnsGlobal(s) THEN batch_count[cur_psl] + 1
  ELSE BATCH_COUNT + 1

AllBatches == (BATCH_COUNT + 1) * (SocketCount - 1)
Behind(g, t) == RDist(g, req_num[t], COUNTS)

CohortBounded(g) ==
  /\ batch_count \in [Sockets -> 0 .. BATCH_COUNT]
  /\ bypass \in [Threads -> Nat]
  /\ \A t \in Threads : bypass[t] <= AllBatches
  /\ \A t \in Threads : Cptltkt!WaitsForGlobal(t) /\ Behind(g, t) > 0 =>
       bypass[t] + (Behind(g, t) - 1) * (BATCH_COUNT + 1) + RestOfBatch <= AllBatches

CohortCounted == \E g, tickets : Cohort(g, tickets) /\ CohortBounded(g)

LEMMA BatchTyped == BATCH_COUNT \in Nat /\ SocketCount \in Nat \ {0} /\ AllBatches \in Nat
<1>1. BATCH_COUNT \in Nat /\ SocketCount \in Nat \ {0}
  BY SocketsTyped, QueueLocksAssumption DEF Cptltkt!CohortAssumption
<1>2. BATCH_COUNT + 1 \in Nat /\ SocketCount - 1 \in Nat
  BY <1>1
<1>3. \A a, b \in Nat : a * b \in Nat
  OBVIOUS
<1> QED
  BY <1>1, <1>2, <1>3 DEF AllBatches

\* One socket more takes one batch more.
LEMMA BatchesAdd ==
  ASSUME NEW m \in Nat, NEW a \in Nat, NEW b \in Nat, a <= b
  PROVE  a * m <= b * m /\ a * m \in Nat /\ (a + 1) * m = a * m + m
<1>1. PICK c \in Nat : b = a + c
  <2>1. b - a \in Nat /\ b = a + (b - a)
    OBVIOUS
  <2> QED
    BY <2>1
<1>2. (a + c) * m = a * m + c * m /\ (a + 1) * m = a * m + m
  OBVIOUS
<1>3. a * m \in Nat /\ c * m \in Nat
  OBVIOUS
<1> DEFINE x == a * m
           y == c * m
           z == b * m
<1>4. x \in Nat /\ y \in Nat /\ z = x + y
  BY <1>1, <1>2, <1>3
<1> HIDE DEF x, y, z
<1>5. x <= z
  BY <1>4
<1> QED
  BY <1>2, <1>3, <1>5 DEF x, z

\* Who has the global lock is alone with it.
LEMMA OwnerUnique ==
  ASSUME NEW g, NEW tickets, Cohort(g, tickets), NEW t \in Threads, pc[t] \in OwnerPcs
  PROVE  /\ socket[t] \in Sockets /\ cur_psl = socket[t] /\ OwnsGlobal(socket[t])
         /\ tickets[socket[t]] = g /\ (pc[t] # "ul_pass" => ~socket_grant[socket[t]])
         /\ \A s \in Sockets : OwnsGlobal(s) => s = socket[t]
         /\ \A u \in Threads : pc[u] \in OwnerPcs => u = t
<1>1. CohortTyped /\ CohortLocal /\ CohortBatch /\ CohortGlobal(g, tickets)
  BY DEF Cohort
<1>2. socket[t] \in Sockets /\ OwnsGlobal(socket[t])
  BY <1>1 DEF OwnsGlobal, CohortTyped
<1>3. cur_psl = socket[t] /\ \A s \in Sockets : OwnsGlobal(s) => s = socket[t]
  BY <1>1, <1>2 DEF CohortGlobal
<1>4. ASSUME NEW u \in Threads, pc[u] \in OwnerPcs PROVE u = t
  <2>1. OwnsGlobal(socket[u]) /\ socket[u] \in Sockets
    BY <1>1, <1>4 DEF OwnsGlobal, CohortTyped
  <2>2. socket[u] = socket[t] /\ pc[t] \in HolderPcs /\ pc[u] \in HolderPcs
    BY <1>3, <1>4, <2>1 DEF HolderPcs
  <2> QED
    BY <1>1, <2>2, HolderUnique
<1>5. tickets[socket[t]] = g
  BY <1>1, <1>2 DEF CohortGlobal
<1>6. pc[t] # "ul_pass" => ~socket_grant[socket[t]]
  BY <1>1 DEF CohortBatch, OwnerPcs
<1> QED
  BY <1>2, <1>3, <1>4, <1>5, <1>6

\* What is left of the batch, by where its owner is.
RestFacts ==
  /\ RestOfBatch \in 0 .. BATCH_COUNT + 1
  /\ \A t \in Threads : pc[t] = "ul_global" => RestOfBatch = 0
  /\ \A t \in Threads : pc[t] = "holding" => RestOfBatch = batch_count[socket[t]]
  /\ \A t \in Threads : pc[t] \in {"disarm_local", "ul_batch", "ul_pass"} => RestOfBatch = batch_count[socket[t]] + 1
  /\ \A s \in Sockets : socket_grant[s] => RestOfBatch = batch_count[s] + 1
  /\ (\A s \in Sockets : ~OwnsGlobal(s)) => RestOfBatch = BATCH_COUNT + 1

BatchCounts == [Sockets -> 0 .. BATCH_COUNT]
RestIsTold == CohortQueues /\ batch_count \in BatchCounts => RestFacts

LEMMA RestIs == RestIsTold
<1> SUFFICES ASSUME NEW g, NEW tickets, Cohort(g, tickets), batch_count \in [Sockets -> 0 .. BATCH_COUNT]
             PROVE  RestFacts
  BY DEF RestIsTold, CohortQueues, BatchCounts
<1>1. CohortTyped /\ CohortBatch /\ CohortGlobal(g, tickets)
  BY DEF Cohort
<1>2. BATCH_COUNT \in Nat
  BY BatchTyped
<1>3. ASSUME NEW t \in Threads, pc[t] = "ul_global" PROVE RestOfBatch = 0
  BY <1>3 DEF RestOfBatch
<1>4. ASSUME NEW t \in Threads, pc[t] = "holding" PROVE RestOfBatch = batch_count[socket[t]] /\ cur_psl \in Sockets
  <2>1. /\ socket[t] \in Sockets /\ cur_psl = socket[t]
        /\ \A u \in Threads : pc[u] \in OwnerPcs => u = t
    BY <1>4, OwnerUnique DEF OwnerPcs
  <2>2. \A u \in Threads : pc[u] # "ul_global"
    BY <1>4, <2>1 DEF OwnerPcs
  <2> QED
    BY <1>4, <2>1, <2>2 DEF RestOfBatch
<1>5. ASSUME NEW t \in Threads, pc[t] \in {"disarm_local", "ul_batch", "ul_pass"}
      PROVE  RestOfBatch = batch_count[socket[t]] + 1
  <2>1. /\ socket[t] \in Sockets /\ cur_psl = socket[t] /\ OwnsGlobal(socket[t])
        /\ \A u \in Threads : pc[u] \in OwnerPcs => u = t
    BY <1>5, OwnerUnique DEF OwnerPcs
  <2>2. \A u \in Threads : pc[u] # "ul_global" /\ pc[u] # "holding"
    BY <1>5, <2>1 DEF OwnerPcs
  <2> QED
    BY <2>1, <2>2 DEF RestOfBatch
<1>6. ASSUME NEW s \in Sockets, socket_grant[s] PROVE RestOfBatch = batch_count[s] + 1
  <2>1. OwnsGlobal(s) /\ cur_psl = s
    BY <1>1, <1>6 DEF OwnsGlobal, CohortGlobal
  <2>2. ASSUME NEW u \in Threads, pc[u] \in {"ul_global", "holding"} PROVE FALSE
    <3>1. socket[u] = s
      BY <2>1, <2>2, OwnerUnique DEF OwnerPcs
    <3> QED
      BY <1>1, <1>6, <2>2, <3>1 DEF CohortBatch
  <2>3. \A u \in Threads : pc[u] # "ul_global" /\ pc[u] # "holding"
    BY <2>2
  <2> QED
    BY <2>1, <2>3 DEF RestOfBatch
<1>7. (\A s \in Sockets : ~OwnsGlobal(s)) => RestOfBatch = BATCH_COUNT + 1
  <2> SUFFICES ASSUME \A s \in Sockets : ~OwnsGlobal(s) PROVE RestOfBatch = BATCH_COUNT + 1
    OBVIOUS
  <2>1. \A u \in Threads : pc[u] \notin OwnerPcs
    BY <1>1 DEF OwnsGlobal, CohortTyped
  <2>2. \A u \in Threads : pc[u] # "ul_global" /\ pc[u] # "holding"
    BY <2>1 DEF OwnerPcs
  <2> QED
    BY <2>2 DEF RestOfBatch
<1>8. RestOfBatch \in 0 .. BATCH_COUNT + 1
  <2>1. \A s \in Sockets : OwnsGlobal(s) => cur_psl \in Sockets
    BY <1>1 DEF CohortGlobal
  <2> QED
    BY <1>2, <1>4, <2>1 DEF RestOfBatch
<1> QED
  BY <1>3, <1>4, <1>5, <1>6, <1>7, <1>8 DEF RestFacts

\* Before and after a step.
LEMMA RestNow ==
  ASSUME NEW g, NEW tickets, Cohort(g, tickets), CohortBounded(g)
  PROVE  RestFacts
  BY RestIs DEF RestIsTold, CohortQueues, BatchCounts, CohortBounded

LEMMA RestThen ==
  ASSUME NEW g, NEW tickets, Cohort(g, tickets)', batch_count' \in [Sockets -> 0 .. BATCH_COUNT]
  PROVE  RestFacts'
<1>1. RestIsTold'
  BY RestIs, PTL
<1>2. CohortQueues'
  BY DEF CohortQueues
<1> QED
  BY <1>1, <1>2 DEF RestIsTold, BatchCounts

LEMMA RestKept ==
  ASSUME \A u \in Threads : pc'[u] # pc[u] => pc'[u] \notin OwnerPcs /\ pc[u] \notin OwnerPcs,
         \A u \in Threads : pc[u] \in OwnerPcs => socket'[u] = socket[u],
         UNCHANGED <<socket_grant, batch_count, cur_psl>>
  PROVE  RestOfBatch' = RestOfBatch
<1>1. /\ \A u \in Threads : pc'[u] = "ul_global" <=> pc[u] = "ul_global"
      /\ \A u \in Threads : pc'[u] = "holding" <=> pc[u] = "holding"
  BY DEF OwnerPcs
<1>2. \A u \in Threads : (pc'[u] \in OwnerPcs <=> pc[u] \in OwnerPcs) /\ (pc[u] \in OwnerPcs => socket'[u] = socket[u])
  OBVIOUS
<1>3. \A s \in Sockets : OwnsGlobal(s)' <=> OwnsGlobal(s)
  BY <1>2 DEF OwnsGlobal
<1> QED
  BY <1>1, <1>3 DEF RestOfBatch

\* A thread that waits has a ticket, and another one than the socket served.
LEMMA WaiterBehind ==
  ASSUME NEW g, NEW tickets, Cohort(g, tickets), NEW u \in Threads, Cptltkt!WaitsForGlobal(u)
  PROVE  /\ g \in CohortCounts /\ req_num[u] \in CohortCounts /\ Behind(g, u) \in Nat
         /\ \A t \in Threads \ {u} :
              pc[t] \in HolderPcs /\ tickets[socket[t]] = g /\ socket[t] \in GlobalQueue => Behind(g, u) > 0
<1>1. CohortTyped /\ CohortLocal /\ CohortGlobal(g, tickets)
  BY DEF Cohort
<1>2. pc[u] \in TicketedPcs /\ pc[u] \in HolderPcs /\ socket[u] \in Sockets
  BY <1>1 DEF Cptltkt!WaitsForGlobal, TicketedPcs, HolderPcs, CohortTyped
<1>3. socket[u] \in GlobalQueue /\ req_num[u] = tickets[socket[u]]
  BY <1>1, <1>2 DEF GlobalQueue, Ticketed, CohortGlobal
<1>4. Out(GlobalQueue, tickets, g, request, COUNTS)
  BY <1>1 DEF CohortGlobal
<1>5. COUNTS \in Nat \ {0} /\ g \in 0 .. COUNTS - 1 /\ req_num[u] \in 0 .. COUNTS - 1
  BY <1>3, <1>4 DEF Out
<1>6. Behind(g, u) \in Nat /\ (Behind(g, u) = 0 => req_num[u] = g)
  BY <1>5 DEF Behind, RDist
<1>7. ASSUME NEW t \in Threads \ {u}, pc[t] \in HolderPcs, tickets[socket[t]] = g, socket[t] \in GlobalQueue
      PROVE  Behind(g, u) > 0
  <2>1. socket[u] # socket[t]
    BY <1>1, <1>2, <1>7, HolderUnique
  <2>2. req_num[u] # g
    BY <1>3, <1>4, <1>7, <2>1 DEF Out
  <2> QED
    BY <1>6, <2>2
<1> QED
  BY <1>5, <1>6, <1>7 DEF CohortCounts

\* What CountBypass counts in a step of t.
LEMMA BypassesNone ==
  ASSUME CountBypass, pc \in [Threads -> CohortPcs], NEW t \in Threads, NEW to, pc' = [pc EXCEPT ![t] = to],
         to # "holding"
  PROVE  bypass' = [u \in Threads |-> IF Cptltkt!WaitsForGlobal(u) THEN bypass[u] + 0 ELSE 0]
<1> DEFINE H == {u \in Threads : Holds(u)' /\ ~Holds(u)}
<1>1. bypass' = [u \in Threads |-> IF Cptltkt!WaitsForGlobal(u) THEN bypass[u] + Cardinality(H) ELSE 0]
  BY DEF CountBypass
<1>2. H = {}
  BY DEF Holds
<1> HIDE DEF H
<1>3. Cardinality(H) = 0
  BY <1>2, FS_EmptySet
<1> QED
  BY <1>1, <1>3

LEMMA BypassesOne ==
  ASSUME CountBypass, pc \in [Threads -> CohortPcs], NEW t \in Threads, pc' = [pc EXCEPT ![t] = "holding"],
         pc[t] # "holding"
  PROVE  bypass' = [u \in Threads |-> IF Cptltkt!WaitsForGlobal(u) THEN bypass[u] + 1 ELSE 0]
<1> DEFINE H == {u \in Threads : Holds(u)' /\ ~Holds(u)}
<1>1. bypass' = [u \in Threads |-> IF Cptltkt!WaitsForGlobal(u) THEN bypass[u] + Cardinality(H) ELSE 0]
  BY DEF CountBypass
<1>2. H = {t}
  BY DEF Holds
<1> HIDE DEF H
<1>3. Cardinality(H) = 1
  BY <1>2, FS_Singleton
<1> QED
  BY <1>1, <1>3

LEMMA SpentFits ==
  ASSUME NEW b \in Nat, NEW l \in Nat, NEW r \in Nat, NEW r2 \in Nat, NEW k \in Nat, NEW all \in Nat,
         r2 + k <= r, b + l + r <= all
  PROVE  (b + k) + l + r2 <= all
  OBVIOUS

\* A step in which k threads, none or one, get the lock, out of the batch.
LEMMA BatchSpent ==
  ASSUME NEW g, NEW tickets, Cohort(g, tickets), CohortBounded(g), NEW k \in {0, 1},
         batch_count' \in [Sockets -> 0 .. BATCH_COUNT],
         bypass' = [u \in Threads |-> IF Cptltkt!WaitsForGlobal(u) THEN bypass[u] + k ELSE 0],
         \A u \in Threads : Cptltkt!WaitsForGlobal(u)' => Cptltkt!WaitsForGlobal(u) /\ req_num'[u] = req_num[u],
         k = 1 => \A u \in Threads : Cptltkt!WaitsForGlobal(u) => Behind(g, u) > 0,
         RestOfBatch \in Nat, RestOfBatch' \in Nat, RestOfBatch' + k <= RestOfBatch
  PROVE  CohortBounded(g)'
<1>1. BATCH_COUNT \in Nat /\ AllBatches \in Nat /\ AllBatches' = AllBatches
  BY BatchTyped DEF AllBatches
<1>2. \A u \in Threads : bypass[u] \in Nat /\ bypass[u] <= AllBatches
  BY DEF CohortBounded
<1>3. bypass' \in [Threads -> Nat] /\ \A u \in Threads : bypass'[u] = IF Cptltkt!WaitsForGlobal(u) THEN bypass[u] + k ELSE 0
  BY <1>2
<1> DEFINE Left(u) == (Behind(g, u) - 1) * (BATCH_COUNT + 1)
<1>4. \A u \in Threads : Cptltkt!WaitsForGlobal(u) /\ Behind(g, u) > 0 =>
        Left(u) \in Nat /\ bypass[u] + Left(u) + RestOfBatch <= AllBatches
  <2> SUFFICES ASSUME NEW u \in Threads, Cptltkt!WaitsForGlobal(u), Behind(g, u) > 0
               PROVE  Left(u) \in Nat /\ bypass[u] + Left(u) + RestOfBatch <= AllBatches
    OBVIOUS
  <2>1. Behind(g, u) - 1 \in Nat /\ BATCH_COUNT + 1 \in Nat
    BY <1>1, WaiterBehind
  <2>2. Left(u) \in Nat
    BY <2>1, BatchesAdd
  <2> QED
    BY <2>2 DEF CohortBounded
<1>5. \A u \in Threads : Cptltkt!WaitsForGlobal(u)' => Behind(g, u)' = Behind(g, u)
  BY DEF Behind
<1> HIDE DEF Left
<1>6. \A u \in Threads : bypass'[u] <= AllBatches
  <2> SUFFICES ASSUME NEW u \in Threads PROVE bypass'[u] <= AllBatches
    OBVIOUS
  <2>1. CASE ~Cptltkt!WaitsForGlobal(u)
    BY <1>1, <1>3, <2>1
  <2>2. CASE Cptltkt!WaitsForGlobal(u) /\ k = 0
    BY <1>2, <1>3, <2>2
  <2>3. CASE Cptltkt!WaitsForGlobal(u) /\ k = 1
    <3>1. Left(u) \in Nat /\ bypass[u] + Left(u) + RestOfBatch <= AllBatches
      BY <1>4, <2>3
    <3> QED
      BY <1>1, <1>2, <1>3, <2>3, <3>1
  <2> QED
    BY <2>1, <2>2, <2>3
<1>7. \A u \in Threads : Cptltkt!WaitsForGlobal(u)' /\ Behind(g, u)' > 0 =>
        bypass'[u] + Left(u) + RestOfBatch' <= AllBatches
  <2> SUFFICES ASSUME NEW u \in Threads, Cptltkt!WaitsForGlobal(u)', Behind(g, u)' > 0
               PROVE  bypass'[u] + Left(u) + RestOfBatch' <= AllBatches
    OBVIOUS
  <2>1. Cptltkt!WaitsForGlobal(u) /\ Behind(g, u) > 0
    BY <1>5
  <2>2. Left(u) \in Nat /\ bypass[u] + Left(u) + RestOfBatch <= AllBatches
    BY <1>4, <2>1
  <2>3. bypass'[u] = bypass[u] + k
    BY <1>3, <2>1
  <2>4. PICK b \in Nat : b = bypass[u]
    BY <1>2
  <2>5. AllBatches \in Nat /\ b + Left(u) + RestOfBatch <= AllBatches
    BY <1>1, <2>2, <2>4
  <2>6. k \in Nat /\ Left(u) \in Nat
    BY <2>2
  <2>7. (b + k) + Left(u) + RestOfBatch' <= AllBatches
    BY <2>4, <2>5, <2>6, SpentFits, Zenon
  <2> QED
    BY <2>3, <2>4, <2>7
<1> QED
  BY <1>1, <1>3, <1>5, <1>6, <1>7 DEF CohortBounded, Left

\* A step of t in which nobody gets the lock or gives it away.
LEMMA BatchUntouched ==
  ASSUME NEW g, NEW tickets, Cohort(g, tickets), CohortBounded(g), NEW t \in Threads, NEW to, CountBypass,
         pc' = [pc EXCEPT ![t] = to], pc[t] \notin OwnerPcs, to \notin OwnerPcs,
         \A u \in Threads \ {t} : socket'[u] = socket[u] /\ req_num'[u] = req_num[u],
         to \in TicketedPcs \ {"disarm_global", "set_owner"} => req_num'[t] = req_num[t] /\ Cptltkt!WaitsForGlobal(t),
         UNCHANGED <<socket_grant, batch_count, cur_psl>>
  PROVE  CohortBounded(g)'
<1>1. pc \in [Threads -> CohortPcs] /\ batch_count \in [Sockets -> 0 .. BATCH_COUNT]
  BY DEF Cohort, CohortTyped, CohortBounded
<1>2. pc'[t] = to /\ \A u \in Threads \ {t} : pc'[u] = pc[u]
  BY <1>1
<1>3. RestOfBatch' = RestOfBatch
  BY <1>2, RestKept
<1>4. RestOfBatch \in Nat
  BY RestNow, BatchTyped DEF RestFacts
<1> DEFINE k == 0
<1>5. bypass' = [u \in Threads |-> IF Cptltkt!WaitsForGlobal(u) THEN bypass[u] + k ELSE 0]
  BY <1>1, BypassesNone DEF OwnerPcs
<1>6. \A u \in Threads : Cptltkt!WaitsForGlobal(u)' => Cptltkt!WaitsForGlobal(u) /\ req_num'[u] = req_num[u]
  BY <1>2 DEF Cptltkt!WaitsForGlobal, TicketedPcs
<1>7. k \in {0, 1} /\ k # 1 /\ RestOfBatch' \in Nat /\ RestOfBatch' + k <= RestOfBatch
  BY <1>3, <1>4
<1>8. batch_count' \in [Sockets -> 0 .. BATCH_COUNT]
  BY <1>1
<1> HIDE DEF k
<1> QED
  BY <1>4, <1>5, <1>6, <1>7, <1>8, BatchSpent

LEMMA NatAddsNone == \A n \in Nat : n + 0 = n
  OBVIOUS

\* Other steps in which nobody gets the lock.
LEMMA BatchStays ==
  ASSUME NEW g, NEW tickets, Cohort(g, tickets), CohortBounded(g), NEW t \in Threads, NEW to, CountBypass,
         pc' = [pc EXCEPT ![t] = to], to \notin TicketedPcs, to # "holding",
         \A u \in Threads \ {t} : req_num'[u] = req_num[u],
         batch_count' \in [Sockets -> 0 .. BATCH_COUNT],
         RestOfBatch' \in Nat, RestOfBatch' <= RestOfBatch
  PROVE  CohortBounded(g)'
<1>1. pc \in [Threads -> CohortPcs]
  BY DEF Cohort, CohortTyped
<1>2. pc'[t] = to /\ \A u \in Threads \ {t} : pc'[u] = pc[u]
  BY <1>1
<1>3. RestOfBatch \in Nat
  BY RestNow, BatchTyped DEF RestFacts
<1> DEFINE k == 0
<1>4. bypass' = [u \in Threads |-> IF Cptltkt!WaitsForGlobal(u) THEN bypass[u] + k ELSE 0]
  BY <1>1, BypassesNone
<1>5. \A u \in Threads : Cptltkt!WaitsForGlobal(u)' => Cptltkt!WaitsForGlobal(u) /\ req_num'[u] = req_num[u]
  BY <1>2 DEF Cptltkt!WaitsForGlobal, TicketedPcs
<1>6. RestOfBatch' + k <= RestOfBatch
  <2>1. RestOfBatch' + k = RestOfBatch'
    BY NatAddsNone
  <2> QED
    BY <2>1, Zenon
<1>7. k \in {0, 1} /\ k # 1
  OBVIOUS
<1> HIDE DEF k
<1> QED
  BY <1>3, <1>4, <1>5, <1>6, <1>7, BatchSpent

\* A step in which t gets the lock, with the ticket that is served.
LEMMA BatchTaken ==
  ASSUME NEW g, NEW tickets, Cohort(g, tickets), CohortBounded(g), NEW t \in Threads, CountBypass,
         pc' = [pc EXCEPT ![t] = "holding"], pc[t] \in HolderPcs \ {"holding"}, ~Cptltkt!WaitsForGlobal(t),
         tickets[socket[t]] = g, socket[t] \in GlobalQueue,
         UNCHANGED <<batch_count, req_num>>,
         RestOfBatch' \in Nat, RestOfBatch' + 1 <= RestOfBatch
  PROVE  CohortBounded(g)'
<1>1. pc \in [Threads -> CohortPcs] /\ batch_count' \in [Sockets -> 0 .. BATCH_COUNT]
  BY DEF Cohort, CohortTyped, CohortBounded
<1>2. pc'[t] = "holding" /\ \A u \in Threads \ {t} : pc'[u] = pc[u]
  BY <1>1
<1>3. RestOfBatch \in Nat
  BY RestNow, BatchTyped DEF RestFacts
<1>4. bypass' = [u \in Threads |-> IF Cptltkt!WaitsForGlobal(u) THEN bypass[u] + 1 ELSE 0]
  BY <1>1, BypassesOne
<1>5. \A u \in Threads : Cptltkt!WaitsForGlobal(u)' => Cptltkt!WaitsForGlobal(u) /\ req_num'[u] = req_num[u]
  BY <1>2 DEF Cptltkt!WaitsForGlobal
<1>6. \A u \in Threads : Cptltkt!WaitsForGlobal(u) => Behind(g, u) > 0
  <2> SUFFICES ASSUME NEW u \in Threads, Cptltkt!WaitsForGlobal(u) PROVE Behind(g, u) > 0
    OBVIOUS
  <2>1. u # t
    OBVIOUS
  <2> QED
    BY <2>1, WaiterBehind
<1> QED
  BY <1>1, <1>3, <1>4, <1>5, <1>6, BatchSpent

LEMMA BatchDisarmsLocal ==
  ASSUME NEW g, NEW tickets, Cohort(g, tickets), Cohort(g, tickets)', CohortBounded(g), CountBypass,
         NEW t \in Threads, Cptltkt!DisarmLocal(t)
  PROVE  CohortBounded(g)'
<1>1. /\ pc[t] = "disarm_local" /\ pc' = [pc EXCEPT ![t] = "holding"]
      /\ UNCHANGED <<batch_count, socket, req_num>>
  BY DEF Cptltkt!DisarmLocal, Cptltkt!SetPage, Cptltkt!Goto, Cptltkt!local
<1>2. batch_count \in [Sockets -> 0 .. BATCH_COUNT] /\ RestFacts /\ BATCH_COUNT \in Nat
  BY RestNow, BatchTyped DEF CohortBounded
<1>3. RestFacts'
  BY <1>1, <1>2, RestThen
<1>4. /\ socket[t] \in Sockets /\ OwnsGlobal(socket[t]) /\ tickets[socket[t]] = g
  BY <1>1, OwnerUnique DEF OwnerPcs
<1>5. pc'[t] = "holding"
  BY <1>1 DEF Cohort, CohortTyped
<1>6. RestOfBatch = batch_count[socket[t]] + 1 /\ RestOfBatch' = batch_count[socket[t]] /\ batch_count[socket[t]] \in Nat
  BY <1>1, <1>2, <1>3, <1>4, <1>5 DEF RestFacts
<1>7. /\ pc[t] \in HolderPcs \ {"holding"} /\ socket[t] \in GlobalQueue /\ ~Cptltkt!WaitsForGlobal(t)
  BY <1>1, <1>4 DEF HolderPcs, OwnerPcs, TicketedPcs, GlobalQueue, Cptltkt!WaitsForGlobal
<1>8. batch_count' \in [Sockets -> 0 .. BATCH_COUNT] /\ RestOfBatch' \in Nat /\ RestOfBatch' + 1 <= RestOfBatch
  BY <1>1, <1>2, <1>6
<1> QED
  BY <1>1, <1>4, <1>7, <1>8, BatchTaken

LEMMA BatchSetsOwner ==
  ASSUME NEW g, NEW tickets, Cohort(g, tickets), Cohort(g, tickets)', CohortBounded(g), CountBypass,
         NEW t \in Threads, Cptltkt!SetOwner(t)
  PROVE  CohortBounded(g)'
<1>1. /\ pc[t] = "set_owner" /\ pc' = [pc EXCEPT ![t] = "holding"]
      /\ UNCHANGED <<batch_count, socket, req_num>>
  BY DEF Cptltkt!SetOwner, Cptltkt!Goto
<1>2. batch_count \in [Sockets -> 0 .. BATCH_COUNT] /\ RestFacts /\ BATCH_COUNT \in Nat
  BY RestNow, BatchTyped DEF CohortBounded
<1>3. RestFacts'
  BY <1>1, <1>2, RestThen
<1>4. CohortTyped /\ CohortLocal /\ CohortBatch /\ CohortGlobal(g, tickets)
  BY DEF Cohort
<1>5. pc[t] \in TicketedPcs /\ pc[t] \in HolderPcs \ {"holding"} /\ ~Cptltkt!WaitsForGlobal(t)
  BY <1>1 DEF TicketedPcs, HolderPcs, Cptltkt!WaitsForGlobal
<1>6. pc'[t] = "holding" /\ socket[t] \in Sockets
  BY <1>1, <1>4 DEF CohortTyped
<1>7. socket[t] \in GlobalQueue /\ tickets[socket[t]] = g
  BY <1>1, <1>4, <1>5, <1>6 DEF CohortGlobal, GlobalQueue, Ticketed
<1>8. \A s \in Sockets : ~OwnsGlobal(s)
  <2> SUFFICES ASSUME NEW s \in Sockets, OwnsGlobal(s) PROVE FALSE
    OBVIOUS
  <2>1. s = socket[t]
    BY <1>4, <1>7 DEF CohortGlobal, GlobalQueue, Out
  <2>2. ~socket_grant[s]
    BY <1>1, <1>4, <2>1 DEF CohortBatch
  <2>3. PICK u \in Threads : socket[u] = s /\ pc[u] \in OwnerPcs
    BY <2>2 DEF OwnsGlobal
  <2>4. pc[u] \in HolderPcs /\ u # t
    BY <1>1, <2>3 DEF HolderPcs, OwnerPcs
  <2> QED
    BY <1>4, <1>5, <2>1, <2>3, <2>4, HolderUnique
<1>9. RestOfBatch = BATCH_COUNT + 1
  BY <1>2, <1>8 DEF RestFacts
<1>10. RestOfBatch' = batch_count[socket[t]] /\ batch_count[socket[t]] \in 0 .. BATCH_COUNT
  BY <1>1, <1>2, <1>3, <1>6 DEF RestFacts
<1>11. batch_count' \in [Sockets -> 0 .. BATCH_COUNT] /\ RestOfBatch' \in Nat /\ RestOfBatch' + 1 <= RestOfBatch
  BY <1>1, <1>2, <1>9, <1>10
<1> QED
  BY <1>1, <1>5, <1>7, <1>11, BatchTaken

\* A socket finds the mark that it has the global lock, or that it has not.
LEMMA BatchHasLocal ==
  ASSUME NEW g, NEW tickets, Cohort(g, tickets), Cohort(g, tickets)', CohortBounded(g), CountBypass,
         NEW t \in Threads, Cptltkt!HasLocal(t)
  PROVE  CohortBounded(g)'
<1> DEFINE s == socket[t]
<1>1. /\ pc[t] = "has_local" /\ pc' = [pc EXCEPT ![t] = IF socket_grant[s] THEN "disarm_local" ELSE "draw_global"]
      /\ socket_grant' = [socket_grant EXCEPT ![s] = FALSE]
      /\ UNCHANGED <<batch_count, cur_psl, socket, req_num>>
  BY DEF Cptltkt!HasLocal, Cptltkt!Goto, Cptltkt!global
<1>2. batch_count \in [Sockets -> 0 .. BATCH_COUNT] /\ RestFacts /\ BATCH_COUNT \in Nat
  BY RestNow, BatchTyped DEF CohortBounded
<1>3. RestFacts'
  BY <1>1, <1>2, RestThen
<1>4. s \in Sockets /\ CohortTyped
  BY DEF Cohort, CohortTyped
<1>5. CASE socket_grant[s]
  <2>1. pc'[t] = "disarm_local" /\ pc' = [pc EXCEPT ![t] = "disarm_local"]
    BY <1>1, <1>4, <1>5 DEF CohortTyped
  <2>2. RestOfBatch = batch_count[s] + 1 /\ RestOfBatch' = batch_count[s] + 1 /\ batch_count[s] \in Nat
    BY <1>1, <1>2, <1>3, <1>4, <1>5, <2>1 DEF RestFacts
  <2>3. batch_count' \in [Sockets -> 0 .. BATCH_COUNT] /\ RestOfBatch' \in Nat /\ RestOfBatch' <= RestOfBatch
    BY <1>1, <1>2, <2>2
  <2>4. "disarm_local" \notin TicketedPcs
    BY DEF TicketedPcs
  <2> QED
    BY <1>1, <2>1, <2>3, <2>4, BatchStays
<1>6. CASE ~socket_grant[s]
  <2>1. pc' = [pc EXCEPT ![t] = "draw_global"] /\ socket_grant' = socket_grant
    BY <1>1, <1>4, <1>6 DEF CohortTyped
  <2>2. pc[t] \notin OwnerPcs /\ "draw_global" \notin OwnerPcs \cup TicketedPcs
    BY <1>1 DEF OwnerPcs, TicketedPcs
  <2> QED
    BY <1>1, <2>1, <2>2, BatchUntouched
<1> QED
  BY <1>5, <1>6

\* unlock() counts the batch down, or gives the global lock away.
LEMMA BatchUnlockLoads ==
  ASSUME NEW g, NEW tickets, Cohort(g, tickets), Cohort(g, tickets)', CohortBounded(g), CountBypass,
         NEW t \in Threads, Cptltkt!UnlockLoads(t)
  PROVE  CohortBounded(g)'
<1>1. pc[t] = "holding"
  BY DEF Cptltkt!UnlockLoads, Cptltkt!UnlockBegin, Cptltkt!Goto
<1>2. PICK s \in Sockets : socket[t] = s /\ cur_psl = s
  BY <1>1, OwnerUnique DEF OwnerPcs
<1>3. batch_count \in [Sockets -> 0 .. BATCH_COUNT] /\ RestFacts /\ BATCH_COUNT \in Nat
  BY RestNow, BatchTyped DEF CohortBounded
<1>4. /\ socket' = [socket EXCEPT ![t] = s] /\ \A u \in Threads \ {t} : req_num'[u] = req_num[u]
      /\ socket'[t] = s /\ pc \in [Threads -> CohortPcs]
  BY <1>2 DEF Cptltkt!UnlockLoads, Cptltkt!UnlockBegin, Cohort, CohortTyped
<1>5. RestOfBatch = batch_count[s] /\ batch_count[s] \in 0 .. BATCH_COUNT
  BY <1>1, <1>2, <1>3 DEF RestFacts
<1>6. \/ /\ pc' = [pc EXCEPT ![t] = "ul_batch"] /\ batch_count[s] # 0
         /\ batch_count' = [batch_count EXCEPT ![s] = @ - 1]
      \/ /\ pc' = [pc EXCEPT ![t] = "ul_global"]
         /\ \/ batch_count' = [batch_count EXCEPT ![s] = BATCH_COUNT]
            \/ batch_count' = [batch_count EXCEPT ![s] = @]
  BY <1>2 DEF Cptltkt!UnlockLoads, Cptltkt!UnlockBegin, Cptltkt!Goto
<1>7. batch_count' \in [Sockets -> 0 .. BATCH_COUNT]
  BY <1>3, <1>5, <1>6
<1>8. RestFacts'
  BY <1>7, RestThen
<1>9. "ul_batch" \notin TicketedPcs /\ "ul_global" \notin TicketedPcs
  BY DEF TicketedPcs
<1>10. CASE pc' = [pc EXCEPT ![t] = "ul_batch"]
  <2>1. pc'[t] = "ul_batch" /\ batch_count'[s] = batch_count[s] - 1 /\ batch_count[s] # 0
    BY <1>3, <1>4, <1>6, <1>10
  <2>2. RestOfBatch' = batch_count'[s] + 1
    BY <1>4, <1>8, <2>1 DEF RestFacts
  <2>3. RestOfBatch' \in Nat /\ RestOfBatch' <= RestOfBatch
    BY <1>3, <1>5, <2>1, <2>2
  <2> QED
    BY <1>4, <1>7, <1>9, <1>10, <2>3, BatchStays
<1>11. CASE pc' = [pc EXCEPT ![t] = "ul_global"]
  <2>1. pc'[t] = "ul_global"
    BY <1>4, <1>11
  <2>2. RestOfBatch' = 0
    BY <1>8, <2>1 DEF RestFacts
  <2>3. RestOfBatch' \in Nat /\ RestOfBatch' <= RestOfBatch
    BY <1>3, <1>5, <2>2
  <2> QED
    BY <1>4, <1>7, <1>9, <1>11, <2>3, BatchStays
<1> QED
  BY <1>6, <1>10, <1>11

\* The mark, and the local lock with it, change nothing.
LEMMA BatchPasses ==
  ASSUME NEW g, NEW tickets, Cohort(g, tickets), Cohort(g, tickets)', CohortBounded(g), CountBypass,
         NEW t \in Threads, Cptltkt!UnlockSocketGrant(t) \/ Cptltkt!UnlockPass(t)
  PROVE  CohortBounded(g)'
<1>1. PICK s \in Sockets : socket[t] = s
  BY DEF Cohort, CohortTyped
<1>2. batch_count \in [Sockets -> 0 .. BATCH_COUNT] /\ RestFacts /\ BATCH_COUNT \in Nat
  BY RestNow, BatchTyped DEF CohortBounded
<1>3. pc[t] \in {"ul_batch", "ul_pass"} /\ UNCHANGED batch_count /\ \A u \in Threads \ {t} : req_num'[u] = req_num[u]
  BY DEF Cptltkt!UnlockSocketGrant, Cptltkt!UnlockPass, Cptltkt!Return, Cptltkt!Goto, Cohort, CohortTyped
<1>4. RestFacts'
  BY <1>2, <1>3, RestThen
<1>5. PICK to \in {"ul_pass", "idle"} : pc' = [pc EXCEPT ![t] = to]
  BY DEF Cptltkt!UnlockSocketGrant, Cptltkt!UnlockPass, Cptltkt!Return, Cptltkt!Goto
<1>6. socket_grant'[s]
  <2>1. CASE Cptltkt!UnlockSocketGrant(t)
    BY <1>1, <2>1 DEF Cptltkt!UnlockSocketGrant, Cohort, CohortTyped
  <2>2. CASE Cptltkt!UnlockPass(t)
    BY <1>1, <2>2 DEF Cptltkt!UnlockPass, Cptltkt!Return, Cptltkt!Goto, Cohort, CohortBatch
  <2> QED
    BY <2>1, <2>2
<1>7. RestOfBatch = batch_count[s] + 1 /\ RestOfBatch' = batch_count[s] + 1 /\ batch_count[s] \in Nat
  BY <1>1, <1>2, <1>3, <1>4, <1>6 DEF RestFacts
<1>8. batch_count' \in [Sockets -> 0 .. BATCH_COUNT] /\ RestOfBatch' \in Nat /\ RestOfBatch' <= RestOfBatch
  BY <1>2, <1>3, <1>7
<1>9. to # "holding" /\ to \notin TicketedPcs
  BY DEF TicketedPcs
<1> QED
  BY <1>3, <1>5, <1>8, <1>9, BatchStays

\* Who joins the queue of the sockets has one less of them before it than there are.
LEMMA BatchDrawsGlobal ==
  ASSUME NEW g, NEW tickets, Cohort(g, tickets), CohortBounded(g), CountBypass,
         NEW t \in Threads, Cptltkt!DrawGlobal(t)
  PROVE  CohortBounded(g)'
<1>1. /\ pc[t] = "draw_global" /\ pc' = [pc EXCEPT ![t] = "set_global_for"] /\ req_num' = [req_num EXCEPT ![t] = request]
      /\ UNCHANGED <<socket_grant, batch_count, cur_psl, socket>>
  BY DEF Cptltkt!DrawGlobal, Cptltkt!Goto, Cptltkt!local
<1>2. CohortTyped /\ CohortLocal /\ CohortBatch /\ CohortGlobal(g, tickets) /\ socket[t] \in Sockets
  BY DEF Cohort, CohortTyped
<1>3. /\ pc'[t] = "set_global_for" /\ req_num'[t] = request
      /\ \A u \in Threads \ {t} : pc'[u] = pc[u] /\ req_num'[u] = req_num[u]
  BY <1>1, <1>2 DEF CohortTyped
<1>4. BATCH_COUNT \in Nat /\ AllBatches \in Nat /\ RestFacts /\ batch_count \in [Sockets -> 0 .. BATCH_COUNT]
  BY RestNow, BatchTyped DEF CohortBounded
<1>5. RestOfBatch' = RestOfBatch
  BY <1>1, <1>3, RestKept DEF OwnerPcs
<1>6. bypass' = [u \in Threads |-> IF Cptltkt!WaitsForGlobal(u) THEN bypass[u] + 0 ELSE 0]
  <2>1. pc \in [Threads -> CohortPcs] /\ "set_global_for" # "holding"
    BY <1>2 DEF CohortTyped
  <2> QED
    BY <1>1, <2>1, BypassesNone
<1>7. \A u \in Threads : bypass[u] \in Nat /\ bypass[u] <= AllBatches
  BY DEF CohortBounded
<1>8. bypass' \in [Threads -> Nat] /\ (\A u \in Threads : bypass'[u] <= AllBatches) /\ bypass'[t] = 0
  BY <1>1, <1>4, <1>6, <1>7 DEF Cptltkt!WaitsForGlobal
<1>9. ASSUME NEW u \in Threads \ {t}, Cptltkt!WaitsForGlobal(u)', Behind(g, u)' > 0
      PROVE  bypass'[u] + (Behind(g, u)' - 1) * (BATCH_COUNT + 1) + RestOfBatch' <= AllBatches
  <2>1. Cptltkt!WaitsForGlobal(u) /\ Behind(g, u)' = Behind(g, u)
    BY <1>3, <1>9 DEF Cptltkt!WaitsForGlobal, Behind
  <2>2. bypass'[u] = bypass[u]
    BY <1>6, <1>7, <2>1
  <2>3. Behind(g, u) > 0
    BY <1>9, <2>1
  <2> DEFINE x == (Behind(g, u) - 1) * (BATCH_COUNT + 1)
  <2>4. bypass[u] + x + RestOfBatch <= AllBatches
    BY <2>1, <2>3 DEF CohortBounded
  <2>5. (Behind(g, u)' - 1) * (BATCH_COUNT + 1) = x
    BY <2>1
  <2> HIDE DEF x
  <2> QED
    BY <1>5, <2>2, <2>4, <2>5, Zenon
<1>10. ASSUME Behind(g, t)' > 0
       PROVE  bypass'[t] + (Behind(g, t)' - 1) * (BATCH_COUNT + 1) + RestOfBatch' <= AllBatches
  <2> DEFINE n == Cardinality(GlobalQueue)
  <2>1. socket[t] \notin GlobalQueue
    <3>1. pc[t] \in HolderPcs /\ pc[t] \notin TicketedPcs \cup OwnerPcs
      BY <1>1 DEF HolderPcs, TicketedPcs, OwnerPcs
    <3>2. ~socket_grant[socket[t]]
      BY <1>1, <1>2 DEF CohortBatch
    <3>3. \A u \in Threads : pc[u] \in TicketedPcs \cup OwnerPcs => socket[u] # socket[t]
      BY <1>2, <3>1, HolderUnique DEF HolderPcs
    <3> QED
      BY <3>2, <3>3 DEF GlobalQueue, Ticketed, OwnsGlobal
  <2>2. n \in Nat /\ n <= SocketCount - 1 /\ SocketCount \in Nat \ {0} /\ SocketCount < COUNTS /\ COUNTS \in Nat
    <3>1. IsFiniteSet(GlobalQueue) /\ n \in Nat
      BY SocketsTyped, FS_Subset, FS_CardinalityType DEF GlobalQueue
    <3>2. Cardinality(GlobalQueue \cup {socket[t]}) = n + 1
      BY <2>1, <3>1, FS_AddElement
    <3>3. GlobalQueue \cup {socket[t]} \subseteq Sockets
      BY <1>2 DEF GlobalQueue
    <3>4. Cardinality(GlobalQueue \cup {socket[t]}) <= SocketCount
      BY <3>3, SocketsTyped, FS_Subset DEF SocketCount
    <3> QED
      BY <3>1, <3>2, <3>4, SocketsTyped
  <2>3. RDist(g, request, COUNTS) = n
    BY <1>2, <2>2 DEF CohortGlobal, Out
  <2>4. Behind(g, t)' = n
    BY <1>3, <2>3 DEF Behind
  <2> HIDE DEF n
  <2> DEFINE m == BATCH_COUNT + 1
             x == (n - 1) * m
             y == (SocketCount - 1) * m
  <2>5. m \in Nat /\ n - 1 \in Nat /\ SocketCount - 2 \in Nat /\ n - 1 <= SocketCount - 2 /\ (SocketCount - 2) + 1 = SocketCount - 1
    BY <1>4, <1>10, <2>2, <2>4
  <2>6. x + m <= y /\ x \in Nat /\ y \in Nat
    <3> DEFINE z == (SocketCount - 2) * m
    <3> HIDE DEF m
    <3>1. x <= z /\ x \in Nat
      BY <2>5, BatchesAdd
    <3>2. z \in Nat /\ y = z + m
      <4>1. ((SocketCount - 2) + 1) * m = z + m /\ z \in Nat
        BY <2>5, BatchesAdd
      <4> QED
        BY <2>5, <4>1
    <3> HIDE DEF x, y, z
    <3> QED
      BY <2>5, <3>1, <3>2
  <2>7. RestOfBatch \in Nat /\ RestOfBatch <= m
    BY <1>4 DEF RestFacts
  <2>8. (Behind(g, t)' - 1) * (BATCH_COUNT + 1) = x
    BY <2>4
  <2>9. AllBatches = y
    <3>1. (BATCH_COUNT + 1) * (SocketCount - 1) = (SocketCount - 1) * (BATCH_COUNT + 1)
      BY <1>4, <2>2
    <3> QED
      BY <3>1 DEF AllBatches
  <2> HIDE DEF x, y, m
  <2>10. 0 + x + RestOfBatch <= y
    BY <2>5, <2>6, <2>7
  <2> QED
    BY <1>5, <1>8, <2>8, <2>9, <2>10, Zenon
<1> QED
  BY <1>1, <1>4, <1>8, <1>9, <1>10 DEF CohortBounded, AllBatches

\* One socket less is before who waits, and the next one has a batch before it.
LEMMA BatchReleasesGlobal ==
  ASSUME NEW g, NEW tickets, Cohort(g, tickets), CohortBounded(g), CountBypass,
         NEW g2, g2 = RSucc(g, COUNTS), Cohort(g2, tickets)',
         NEW t \in Threads, Cptltkt!UnlockGlobal(t)
  PROVE  CohortBounded(g2)'
<1>1. /\ pc[t] = "ul_global" /\ pc' = [pc EXCEPT ![t] = "ul_local"] /\ UNCHANGED <<batch_count, socket, req_num>>
  BY DEF Cptltkt!UnlockGlobal, Cptltkt!Goto, Cptltkt!local
<1>2. CohortTyped /\ CohortGlobal(g, tickets)
  BY DEF Cohort
<1>3. BATCH_COUNT \in Nat /\ AllBatches \in Nat /\ RestFacts /\ batch_count \in [Sockets -> 0 .. BATCH_COUNT]
  BY RestNow, BatchTyped DEF CohortBounded
<1>4. RestFacts' /\ batch_count' \in [Sockets -> 0 .. BATCH_COUNT]
  BY <1>1, <1>3, RestThen
<1>5. pc'[t] = "ul_local" /\ \A u \in Threads \ {t} : pc'[u] = pc[u]
  BY <1>1, <1>2 DEF CohortTyped
<1>6. RestOfBatch = 0 /\ RestOfBatch' \in 0 .. BATCH_COUNT + 1
  BY <1>1, <1>3, <1>4 DEF RestFacts
<1>7. bypass' = [u \in Threads |-> IF Cptltkt!WaitsForGlobal(u) THEN bypass[u] + 0 ELSE 0]
  <2>1. pc \in [Threads -> CohortPcs] /\ "ul_local" # "holding"
    BY <1>2 DEF CohortTyped
  <2> QED
    BY <1>1, <2>1, BypassesNone
<1>8. \A u \in Threads : bypass[u] \in Nat /\ bypass[u] <= AllBatches
  BY DEF CohortBounded
<1>9. bypass' \in [Threads -> Nat] /\ \A u \in Threads : bypass'[u] <= AllBatches
  BY <1>3, <1>7, <1>8
<1>10. pc[t] \in HolderPcs /\ tickets[socket[t]] = g /\ socket[t] \in GlobalQueue
  <2>1. pc[t] \in OwnerPcs /\ pc[t] \in HolderPcs
    BY <1>1 DEF OwnerPcs, HolderPcs
  <2> QED
    BY <2>1, OwnerUnique DEF GlobalQueue
<1>11. ASSUME NEW u \in Threads, Cptltkt!WaitsForGlobal(u)', Behind(g2, u)' > 0
       PROVE  bypass'[u] + (Behind(g2, u)' - 1) * (BATCH_COUNT + 1) + RestOfBatch' <= AllBatches
  <2>1. Cptltkt!WaitsForGlobal(u) /\ u # t
    BY <1>5, <1>11 DEF Cptltkt!WaitsForGlobal
  <2>2. /\ g \in CohortCounts /\ req_num[u] \in CohortCounts /\ Behind(g, u) \in Nat /\ Behind(g, u) > 0
    BY <1>10, <2>1, WaiterBehind
  <2>3. Behind(g2, u)' = Behind(g, u) - 1
    <3>1. COUNTS \in Nat \ {0}
      BY SocketsTyped
    <3>2. g \in 0 .. COUNTS - 1 /\ req_num[u] \in 0 .. COUNTS - 1 /\ RDist(g, req_num[u], COUNTS) > 0
      BY <2>2 DEF CohortCounts, Behind
    <3>3. RDist(g2, req_num[u], COUNTS) = RDist(g, req_num[u], COUNTS) - 1
      BY <3>1, <3>2 DEF RDist, RSucc
    <3>4. req_num'[u] = req_num[u]
      BY <1>1
    <3> QED
      BY <3>3, <3>4 DEF Behind
  <2>4. bypass'[u] = bypass[u] /\ bypass[u] \in Nat
    BY <1>7, <1>8, <2>1
  <2> DEFINE m == BATCH_COUNT + 1
             d == Behind(g2, u)' - 1
             x == d * m
  <2>5. m \in Nat /\ d \in Nat /\ Behind(g, u) - 1 = d + 1
    BY <1>3, <1>11, <2>2, <2>3
  <2>6. bypass[u] + (d + 1) * m + 0 <= AllBatches
    <3>1. bypass[u] + (Behind(g, u) - 1) * m + RestOfBatch <= AllBatches
      BY <2>1, <2>2 DEF CohortBounded
    <3> QED
      BY <1>6, <2>5, <3>1, Zenon
  <2>7. RestOfBatch' \in Nat /\ RestOfBatch' <= m
    BY <1>3, <1>6
  <2> HIDE DEF m, d
  <2>8. (d + 1) * m = x + m /\ x \in Nat
    BY <2>5, BatchesAdd
  <2> HIDE DEF x
  <2>9. bypass[u] + x + RestOfBatch' <= AllBatches
    BY <1>3, <2>4, <2>5, <2>6, <2>7, <2>8
  <2> QED
    BY <2>4, <2>9, Zenon DEF x, d, m
<1> QED
  BY <1>3, <1>4, <1>9, <1>11 DEF CohortBounded, AllBatches

LEMMA CohortCountedNext == ASSUME CohortCounted, Cptltkt!Next, CountBypass PROVE CohortCounted'
<1>1. PICK g, tickets : Cohort(g, tickets) /\ CohortBounded(g)
  BY DEF CohortCounted
<1>2. ASSUME \E g2, tickets2 : Cohort(g2, tickets2)' /\ CohortBounded(g2)' PROVE CohortCounted'
  BY <1>2 DEF CohortCounted
<1> USE DEF Cptltkt!Goto, Cptltkt!SetPage, Cptltkt!local, Cptltkt!global
<1>3. ASSUME NEW t \in Threads, Cptltkt!CallLock(t) \/ Cptltkt!DrawLocal(t) \/ Cptltkt!ArmLocal(t) \/ Cptltkt!WaitLocal(t)
      PROVE  Cohort(g, tickets)' /\ CohortBounded(g)'
  <2>1. Cohort(g, tickets)'
    BY <1>1, <1>3, CohortCalls, CohortDrawsLocal, CohortWaitsLocal
  <2>2. PICK to \in {"draw", "arm_local", "wait_local", "has_local"} : pc' = [pc EXCEPT ![t] = to]
    BY <1>3 DEF Cptltkt!CallLock, Cptltkt!DrawLocal, Cptltkt!ArmLocal, Cptltkt!WaitLocal
  <2>3. /\ pc[t] \in {"idle", "draw", "arm_local", "wait_local"}
        /\ \A u \in Threads \ {t} : socket'[u] = socket[u] /\ req_num'[u] = req_num[u]
        /\ UNCHANGED <<socket_grant, batch_count, cur_psl>>
    BY <1>1, <1>3 DEF Cptltkt!CallLock, Cptltkt!DrawLocal, Cptltkt!ArmLocal, Cptltkt!WaitLocal, Cohort, CohortTyped
  <2>4. pc[t] \notin OwnerPcs /\ to \notin OwnerPcs /\ to \notin TicketedPcs
    BY <2>3 DEF OwnerPcs, TicketedPcs
  <2>5. CohortBounded(g)'
    BY <1>1, <2>2, <2>3, <2>4, BatchUntouched
  <2> QED
    BY <2>1, <2>5
<1>4. ASSUME NEW t \in Threads,
             \/ Cptltkt!SetGlobalFor(t) \/ Cptltkt!SetGlobalNeq(t) \/ Cptltkt!SetGlobalMem(t)
             \/ Cptltkt!WaitGlobal(t) \/ Cptltkt!DisarmGlobal(t)
      PROVE  Cohort(g, tickets)' /\ CohortBounded(g)'
  <2> USE DEF Cptltkt!SetGlobalFor, Cptltkt!SetGlobalNeq, Cptltkt!SetGlobalMem, Cptltkt!WaitGlobal, Cptltkt!DisarmGlobal
  <2>1. Cohort(g, tickets)'
    BY <1>1, <1>4, CohortWaitsGlobal
  <2>2. PICK to \in TicketedPcs : pc' = [pc EXCEPT ![t] = to]
    BY <1>4 DEF TicketedPcs
  <2>3. pc[t] \in TicketedPcs \ {"set_owner"} /\ UNCHANGED <<socket_grant, batch_count, cur_psl, socket, req_num>>
    BY <1>4 DEF TicketedPcs
  <2>4. to \notin {"disarm_global", "set_owner"} => Cptltkt!WaitsForGlobal(t)
    <3>1. pc[t] # "disarm_global" => Cptltkt!WaitsForGlobal(t)
      BY <2>3 DEF TicketedPcs, Cptltkt!WaitsForGlobal
    <3>2. pc[t] = "disarm_global" => pc' = [pc EXCEPT ![t] = "set_owner"]
      BY <1>4
    <3>3. pc'[t] = to /\ (pc[t] = "disarm_global" => pc'[t] = "set_owner")
      BY <1>1, <2>2, <3>2 DEF Cohort, CohortTyped
    <3> QED
      BY <3>1, <3>3
  <2>5. pc[t] \notin OwnerPcs /\ to \notin OwnerPcs
    BY <2>3 DEF OwnerPcs, TicketedPcs
  <2>6. /\ \A u \in Threads \ {t} : socket'[u] = socket[u] /\ req_num'[u] = req_num[u]
        /\ req_num'[t] = req_num[t]
    BY <2>3
  <2>7. CohortBounded(g)'
    BY <1>1, <2>2, <2>3, <2>4, <2>5, <2>6, BatchUntouched
  <2> QED
    BY <2>1, <2>7
<1>5. ASSUME NEW t \in Threads, Cptltkt!UnlockLocal(t) PROVE Cohort(g, tickets)' /\ CohortBounded(g)'
  <2>1. Cohort(g, tickets)'
    BY <1>1, <1>5, CohortReleasesLocal
  <2>2. /\ pc[t] = "ul_local" /\ pc' = [pc EXCEPT ![t] = "idle"]
        /\ \A u \in Threads \ {t} : socket'[u] = socket[u] /\ req_num'[u] = req_num[u]
        /\ UNCHANGED <<socket_grant, batch_count, cur_psl>>
    BY <1>1, <1>5 DEF Cptltkt!UnlockLocal, Cptltkt!Return, Cohort, CohortTyped
  <2>3. pc[t] \notin OwnerPcs /\ "idle" \notin OwnerPcs /\ "idle" \notin TicketedPcs
    BY <2>2 DEF OwnerPcs, TicketedPcs
  <2>4. CohortBounded(g)'
    BY <1>1, <2>2, <2>3, BatchUntouched
  <2> QED
    BY <2>1, <2>4
<1>6. ASSUME NEW t \in Threads, Cptltkt!HasLocal(t) \/ Cptltkt!DisarmLocal(t) \/ Cptltkt!SetOwner(t)
      PROVE  Cohort(g, tickets)' /\ CohortBounded(g)'
  <2>1. Cohort(g, tickets)'
    BY <1>1, <1>6, CohortHasLocal, CohortDisarmsLocal, CohortSetsOwner
  <2> QED
    BY <1>1, <1>6, <2>1, BatchHasLocal, BatchDisarmsLocal, BatchSetsOwner
<1>7. ASSUME NEW t \in Threads, Cptltkt!UnlockLoads(t) \/ Cptltkt!UnlockSocketGrant(t) \/ Cptltkt!UnlockPass(t)
      PROVE  Cohort(g, tickets)' /\ CohortBounded(g)'
  <2>1. Cohort(g, tickets)'
    BY <1>1, <1>7, CohortUnlockLoads, CohortMarks, CohortReleasesLocal
  <2> QED
    BY <1>1, <1>7, <2>1, BatchUnlockLoads, BatchPasses
<1>8. ASSUME NEW t \in Threads, Cptltkt!DrawGlobal(t)
      PROVE  \E tickets2 : Cohort(g, tickets2)' /\ CohortBounded(g)'
  BY <1>1, <1>8, CohortDrawsGlobal, BatchDrawsGlobal
<1>9. ASSUME NEW t \in Threads, Cptltkt!UnlockGlobal(t)
      PROVE  \E g2 : Cohort(g2, tickets)' /\ CohortBounded(g2)'
  <2>1. PICK g2 : g2 = RSucc(g, COUNTS) /\ Cohort(g2, tickets)'
    BY <1>1, <1>9, CohortReleasesGlobal
  <2>2. CohortBounded(g2)'
    BY <1>1, <1>9, <2>1, BatchReleasesGlobal
  <2> QED
    BY <2>1, <2>2
<1> QED
  BY <1>2, <1>3, <1>4, <1>5, <1>6, <1>7, <1>8, <1>9 DEF Cptltkt!Next, Cptltkt!Step

LEMMA CohortCountedStutters == ASSUME CohortCounted, UNCHANGED <<page, pc, cptltktVars, bypass>> PROVE CohortCounted'
<1>1. PICK g, tickets : Cohort(g, tickets) /\ CohortBounded(g)
  BY DEF CohortCounted
<1>2. UNCHANGED <<pc, requests, grant, socket_grant, batch_count, owner_req_num, request, grants, cur_psl, socket, req_num, bypass>>
  BY DEF cptltktVars
<1>3. Cohort(g, tickets)'
  BY <1>1, <1>2, CohortSame
<1>4. CohortBounded(g)'
  <2>1. RestOfBatch' = RestOfBatch
    BY <1>2, RestKept
  <2>2. \A u \in Threads : Behind(g, u)' = Behind(g, u) /\ Cptltkt!WaitsForGlobal(u)' = Cptltkt!WaitsForGlobal(u)
    BY <1>2 DEF Behind, Cptltkt!WaitsForGlobal
  <2> QED
    BY <1>1, <1>2, <2>1, <2>2 DEF CohortBounded, AllBatches
<1> QED
  BY <1>3, <1>4 DEF CohortCounted

LEMMA CohortCountedInit ==
  ASSUME Cptltkt!Init, bypass = [t \in Threads |-> 0] PROVE CohortCounted
<1>1. PICK g, tickets : Cohort(g, tickets)
  BY CohortInit DEF CohortInv, CohortQueues
<1>2. /\ \A t \in Threads : ~Cptltkt!WaitsForGlobal(t)
      /\ bypass \in [Threads -> Nat] /\ \A t \in Threads : bypass[t] = 0
      /\ batch_count = [s \in Sockets |-> 0]
  BY DEF Cptltkt!Init, Cptltkt!WaitsForGlobal
<1>3. BATCH_COUNT \in Nat /\ AllBatches \in Nat
  BY BatchTyped
<1>4. batch_count \in [Sockets -> 0 .. BATCH_COUNT]
  BY <1>2, <1>3
<1>5. CohortBounded(g)
  BY <1>2, <1>3, <1>4 DEF CohortBounded
<1> QED
  BY <1>1, <1>5 DEF CohortCounted


-----------------------------------------------------------------------------
\* All locks side by side.

Inv ==
  /\ kind \in Kinds
  /\ kind = "ticket" => TicketP!TicketInv /\ TicketP!PageInv
  /\ kind = "clh" => ClhInv
  /\ kind = "aepfl" => AepflInv
  /\ kind = "cptltkt" => CohortInv /\ CohortCounted
  /\ kind # "cptltkt" => bypass = [t \in Threads |-> 0]
  /\ kind = "spin" => SpinP!Inv
  /\ kind = "rseq" => RseqP!Inv
  /\ kind = "lock_ops" => OpsInv

ArrayFits == "aepfl" \in Kinds => SlotForEach

LEMMA InvInit == ASSUME Init, ArrayFits PROVE Inv
<1>1. kind \in Kinds /\ Ticket!Init /\ Clh!Init /\ Aepfl!Init /\ Cptltkt!Init /\ Spin!Init /\ Ops!Init
  BY DEF Init
<1>2. kind = "aepfl" => AepflInv
  BY <1>1, AepflInit DEF ArrayFits
<1>3. CohortCounted /\ bypass = [t \in Threads |-> 0]
  BY <1>1, CohortCountedInit DEF Init
<1> QED
  BY <1>1, <1>2, <1>3, TicketInit, ClhInit, CohortInit, SpinInit, RseqInit, OpsInit DEF Inv

\* A step is one of the chosen lock, or none of its variables change.
LEMMA StepOfKind ==
  ASSUME [Next]_vars
  PROVE  /\ UNCHANGED kind
         /\ kind = "ticket" => Ticket!Next \/ UNCHANGED <<page, pc, ticketVars>>
         /\ kind = "clh" => Clh!Next \/ UNCHANGED <<page, pc, clhVars>>
         /\ kind = "aepfl" => Aepfl!Next \/ UNCHANGED <<page, pc, aepflVars>>
         /\ kind = "cptltkt" => (Cptltkt!Next /\ CountBypass) \/ UNCHANGED <<page, pc, cptltktVars, bypass>>
         /\ kind # "cptltkt" => UNCHANGED bypass
         /\ kind = "spin" => Spin!Next \/ UNCHANGED <<page, pc, word, autolockVars>>
         /\ kind = "rseq" => Rseq!Next \/ UNCHANGED <<page, pc, word, autolockVars>>
         /\ kind = "lock_ops" => Ops!Next \/ UNCHANGED <<page, pc, word, opsVars>>
<1>1. CASE UNCHANGED vars
  BY <1>1 DEF vars, state
<1>2. CASE Next
  BY <1>2 DEF Next, Moves, OnlyTicket, OnlyClh, OnlyAepfl, OnlyCptltkt, OnlyAutolock, OnlyOps, Others
<1> QED
  BY <1>1, <1>2

LEMMA InvNext == ASSUME Inv, ArrayFits, [Next]_vars PROVE Inv'
<1>1. kind \in Kinds /\ kind' = kind
  BY StepOfKind DEF Inv
<1>2. kind = "ticket" => TicketP!TicketInv' /\ TicketP!PageInv'
  BY StepOfKind, TicketNext DEF Inv
<1>3. kind = "clh" => ClhInv'
  BY StepOfKind, ClhNext DEF Inv
<1>4. kind = "aepfl" => AepflInv'
  BY <1>1, StepOfKind, AepflNext DEF Inv, ArrayFits
<1>5. kind = "cptltkt" => CohortInv'
  BY StepOfKind, CohortNext DEF Inv
<1>6. kind = "spin" => SpinP!Inv'
  BY StepOfKind, SpinNext DEF Inv
<1>7. kind = "rseq" => RseqP!Inv'
  BY StepOfKind, RseqNext DEF Inv
<1>8. kind = "lock_ops" => OpsInv'
  BY StepOfKind, OpsNext DEF Inv
<1>9. kind = "cptltkt" => CohortCounted'
  BY StepOfKind, CohortCountedNext, CohortCountedStutters DEF Inv
<1>10. kind # "cptltkt" => bypass' = [t \in Threads |-> 0]
  BY StepOfKind DEF Inv
<1> QED
  BY <1>1, <1>2, <1>3, <1>4, <1>5, <1>6, <1>7, <1>8, <1>9, <1>10 DEF Inv

LEMMA KindIsOneOf ==
  Inv => kind \in {"ticket", "clh", "aepfl", "cptltkt", "spin", "rseq", "lock_ops"}
  BY QueueLocksAssumption DEF Inv

\* The invariant of the chosen lock holds in every reachable state, for every
\* number of threads and every size of the counters.
THEOREM Invariant == ASSUME ArrayFits PROVE Spec => []Inv
<1>1. Init => Inv
  BY InvInit
<1>2. Inv /\ [Next]_vars => Inv'
  BY InvNext
<1> QED
  BY <1>1, <1>2, PTL DEF Spec

LEMMA InvExcludes == Inv => MutualExclusion
  BY KindIsOneOf, TicketExcludes, ClhExcludes, AepflExcludes, CohortExcludes, SpinExcludes, RseqExcludes,
     OpsExcludes DEF Inv

\* No lock of the repository lets two threads own it at once.
THEOREM QueueLocksExclude == ASSUME ArrayFits PROVE Spec => []MutualExclusion
<1>1. Inv => MutualExclusion
  BY InvExcludes
<1>2. Spec => []Inv
  BY Invariant
<1> QED
  BY <1>1, <1>2, PTL

\* Wherever a thread is switched out, the scheduler holds it back only while it
\* waits, and at its turn only where its page is half armed: every other switch in
\* every lock leaves the thread that is to go on schedulable.
THEOREM HeldBackBeforeTheirTurn == ASSUME ArrayFits PROVE Spec => []HeldBackBeforeTurn
<1>1. ASSUME Inv PROVE HeldBackBeforeTurn
  <2> USE DEF HeldBackBeforeTurn, Runnable, ItsTurn, HalfArmed
  <2>1. kind \in Kinds
    BY <1>1 DEF Inv
  <2>2. CASE kind = "ticket"
    BY <1>1, <2>2, TicketTurnIsSchedulable DEF Inv
  <2>3. CASE kind = "clh"
    BY <1>1, <2>3, ClhTurnIsSchedulable DEF Inv
  <2>4. CASE kind = "aepfl"
    BY <1>1, <2>1, <2>4, AepflTurnIsSchedulable DEF Inv, ArrayFits
  <2>5. CASE kind = "cptltkt"
    BY <1>1, <2>5, CohortTurnIsSchedulable DEF Inv
  <2>6. CASE kind = "spin"
    BY <1>1, <2>6, SpinTurnIsSchedulable DEF Inv
  <2>7. CASE kind = "rseq"
    BY <1>1, <2>7, RseqTurnIsSchedulable DEF Inv
  <2>8. CASE kind = "lock_ops"
    BY <2>8
  <2> QED
    BY <1>1, <2>2, <2>3, <2>4, <2>5, <2>6, <2>7, <2>8, KindIsOneOf
<1>2. Spec => []Inv
  BY Invariant
<1> QED
  BY <1>1, <1>2, PTL

\* The CLH lock leaks no node, frees none twice and watches no freed one.
THEOREM ClhNodesAreAccounted == ASSUME ArrayFits PROVE Spec => []NodesAccounted
<1>1. Inv => NodesAccounted
  BY ClhNodesAccounted DEF Inv, NodesAccounted
<1>2. Spec => []Inv
  BY Invariant
<1> QED
  BY <1>1, <1>2, PTL

\* In the array lock one flag is set, but while unlock() moves it on.
THEOREM ArrayHasOneFlagSet == ASSUME ArrayFits PROVE Spec => []OneFlagSet
<1>1. Inv => OneFlagSet
  BY AepflOneFlagSet DEF Inv, OneFlagSet
<1>2. Spec => []Inv
  BY Invariant
<1> QED
  BY <1>1, <1>2, PTL

\* The mark that the global lock stays in a socket is never lost.
THEOREM MarkedSocketOwns == ASSUME ArrayFits PROVE Spec => []SocketGrantIsOwned
<1>1. Inv => SocketGrantIsOwned
  BY CohortSocketGrantIsOwned DEF Inv, SocketGrantIsOwned
<1>2. Spec => []Inv
  BY Invariant
<1> QED
  BY <1>1, <1>2, PTL

\* In the cohort lock a thread that waits for the global lock is passed by one
\* batch of each other socket at most.
THEOREM BatchesAreBounded == ASSUME ArrayFits PROVE Spec => []BatchIsBounded
<1>1. ASSUME Inv PROVE BatchIsBounded
  <2>1. AllBatches = (BATCH_COUNT + 1) * (Cardinality(Sockets) - 1) /\ AllBatches \in Nat
    BY BatchTyped DEF AllBatches, SocketCount
  <2>2. \A t \in Threads : bypass[t] <= AllBatches
    BY <1>1, <2>1 DEF Inv, CohortCounted, CohortBounded
  <2> QED
    BY <2>1, <2>2 DEF BatchIsBounded
<1>2. Spec => []Inv
  BY Invariant
<1> QED
  BY <1>1, <1>2, PTL

\* Nobody overtakes a thread that entered the queue of a ticket, CLH or array
\* lock before.
THEOREM QueuesAreFair == ASSUME ArrayFits PROVE Spec => FirstComeFirstServed
<1>1. ASSUME Inv, Inv', [Next]_vars
      PROVE  [\A t, u \in Threads : Before(t, u) /\ Waits(t)' => ~Served(u)']_vars
  <2>1. SUFFICES ASSUME Next, NEW t \in Threads, NEW u \in Threads, Before(t, u) PROVE ~Served(u)'
    BY <1>1
  <2> USE DEF Before
  <2>2. kind \in Kinds /\ kind' = kind
    BY <1>1, StepOfKind DEF Inv
  <2>3. CASE kind = "ticket"
    <3>1. Ticket!Next
      BY <2>1, <2>3 DEF Next, Moves, OnlyTicket, OnlyClh, OnlyAepfl, OnlyCptltkt, OnlyAutolock, OnlyOps
    <3>2. Ticket!Before(t, u)
      BY <2>1, <2>3
    <3>3. TicketP!TicketInv /\ TicketP!TicketInv'
      BY <1>1, <2>2, <2>3 DEF Inv
    <3> QED
      BY <3>1, <3>2, <3>3, TicketInOrder
  <2>4. CASE kind = "clh"
    <3>1. Clh!Next
      BY <2>1, <2>4 DEF Next, Moves, OnlyTicket, OnlyClh, OnlyAepfl, OnlyCptltkt, OnlyAutolock, OnlyOps
    <3>2. Clh!Follows(u, t) /\ Waits(t)
      BY <2>1, <2>4
    <3> QED
      BY <1>1, <2>4, <3>1, <3>2, ClhInOrder DEF Inv
  <2>5. CASE kind = "aepfl"
    <3>1. Aepfl!Next
      BY <2>1, <2>5 DEF Next, Moves, OnlyTicket, OnlyClh, OnlyAepfl, OnlyCptltkt, OnlyAutolock, OnlyOps
    <3>2. Aepfl!Before(t, u)
      BY <2>1, <2>5
    <3>3. AepflInv /\ SlotForEach
      BY <1>1, <2>2, <2>5 DEF Inv, ArrayFits
    <3> QED
      BY <3>1, <3>2, <3>3, AepflInOrder
  <2>6. CASE kind \notin {"ticket", "clh", "aepfl"}
    BY <2>1, <2>6
  <2> QED
    BY <2>3, <2>4, <2>5, <2>6
<1>2. Spec => []Inv
  BY Invariant
<1> QED
  BY <1>1, <1>2, PTL DEF Spec, FirstComeFirstServed
-----------------------------------------------------------------------------
\* The queueing locks as a LockSpec: a step moves one thread, and where it may
\* lead from where is what makes it an operation of the abstract lock or none.

\* A thread that owns the lock does not wait for it before it has given it up,
\* and one that waits does so until it owns it.
WaitsAt(p) == p \notin {"idle", "holding"} \cup TryPcs \cup OwnerUnlockPcs \cup LateUnlockPcs
LeadsTo(from, to) ==
  /\ from = "holding" => ~WaitsAt(to)
  /\ WaitsAt(from) => WaitsAt(to) \/ to = "holding"

MovesTo(t, to) == pc' = [pc EXCEPT ![t] = to] /\ LeadsTo(pc[t], to)
MovesOne == \E t \in Threads : \E to : MovesTo(t, to)
SameRoles == \A t \in Threads : Waits(t)' = Waits(t) /\ Holds(t)' = Holds(t)

LEMMA MoveIsAbstract ==
  ASSUME NULL # "lock", MutualExclusion', NEW P, pc \in [Threads -> P], MovesOne
  PROVE  [Lock!Next]_Lock!vars
<1>1. PICK t \in Threads : \E to : MovesTo(t, to)
  BY DEF MovesOne
<1>2. PICK to : pc' = [pc EXCEPT ![t] = to] /\ LeadsTo(pc[t], to)
  BY <1>1 DEF MovesTo
<1>3. pc'[t] = to /\ \A u \in Threads \ {t} : Waits(u)' = Waits(u) /\ Holds(u)' = Holds(u)
  BY <1>2 DEF Waits, Holds
<1>4. /\ Waits(t) <=> WaitsAt(pc[t])
      /\ Waits(t)' <=> WaitsAt(to)
      /\ Holds(t) <=> pc[t] = "holding"
      /\ Holds(t)' <=> to = "holding"
  BY <1>3 DEF Waits, Holds, WaitsAt
<1>5. ~(Waits(t) /\ Holds(t)) /\ ~(Waits(t)' /\ Holds(t)')
  BY DEF Waits, Holds
<1>6. CASE Holds(t)' /\ ~Holds(t)
  <2>1. \A u \in Threads : ~Holds(u)
    BY <1>3, <1>6 DEF MutualExclusion, Owns
  <2>2. Lock!Acquire(t, "lock") \/ Lock!TryAcquire(t, "lock")
    BY <1>3, <1>5, <1>6, <2>1 DEF Lock!Acquire, Lock!TryAcquire, Lock!Unowned
  <2> QED
    BY <2>2 DEF Lock!Next
<1>7. CASE Holds(t) /\ ~Holds(t)'
  <2>1. ~Waits(t) /\ ~Waits(t)'
    BY <1>2, <1>4, <1>5, <1>7 DEF LeadsTo
  <2>2. Lock!Release(t, "lock")
    BY <1>3, <1>7, <2>1 DEF Lock!Release
  <2> QED
    BY <2>2 DEF Lock!Next
<1>8. CASE ~Holds(t) /\ ~Holds(t)' /\ ~Waits(t) /\ Waits(t)'
  <2>1. Lock!Request(t, "lock")
    BY <1>3, <1>8 DEF Lock!Request
  <2> QED
    BY <2>1 DEF Lock!Next
<1>9. CASE Waits(t)' = Waits(t) /\ Holds(t)' = Holds(t)
  BY <1>3, <1>9 DEF Lock!vars
<1>10. Waits(t) \in BOOLEAN /\ Waits(t)' \in BOOLEAN /\ Holds(t) \in BOOLEAN /\ Holds(t)' \in BOOLEAN
  BY DEF Waits, Holds
<1>11. Waits(t) => Waits(t)' \/ Holds(t)'
  BY <1>2, <1>4 DEF LeadsTo
<1> QED
  BY <1>5, <1>6, <1>7, <1>8, <1>9, <1>10, <1>11

LEMMA TicketMoves == ASSUME Ticket!Next PROVE MovesOne
<1> USE DEF MovesOne, MovesTo, LeadsTo, WaitsAt, TryPcs, OwnerUnlockPcs, LateUnlockPcs, Ticket!Goto, Ticket!Return
<1>1. PICK t \in Threads : Ticket!CallTrylock(t) \/ Ticket!CallLock(t) \/ Ticket!Step(t)
  BY DEF Ticket!Next
<1>2. CASE Ticket!CallTrylock(t) \/ Ticket!CallLock(t) \/ Ticket!TryLoadNext(t) \/ Ticket!TryLoadCur(t) \/ Ticket!TryCas(t)
  BY <1>2 DEF Ticket!CallTrylock, Ticket!CallLock, Ticket!TryLoadNext, Ticket!TryLoadCur, Ticket!TryCas
<1>3. CASE Ticket!Draw(t) \/ Ticket!FirstLoad(t) \/ Ticket!SetMem(t) \/ Ticket!SetFor(t) \/ Ticket!SetNeq(t)
  BY <1>3 DEF Ticket!Draw, Ticket!FirstLoad, Ticket!SetMem, Ticket!SetFor, Ticket!SetNeq
<1>4. CASE Ticket!Wait(t) \/ Ticket!Disarm(t) \/ Ticket!Unlock(t)
  BY <1>4 DEF Ticket!Wait, Ticket!Disarm, Ticket!Unlock
<1> QED
  BY <1>1, <1>2, <1>3, <1>4 DEF Ticket!Step

LEMMA ClhMovesOne == ASSUME Clh!Next PROVE MovesOne \/ UNCHANGED pc
<1> USE DEF MovesOne, MovesTo, LeadsTo, WaitsAt, TryPcs, OwnerUnlockPcs, LateUnlockPcs, Clh!Goto
<1>1. CASE Clh!Destroy \/ Clh!InitAgain
  BY <1>1 DEF Clh!Destroy, Clh!InitAgain
<1>2. ASSUME NEW t \in Threads, Clh!CallLock(t) \/ Clh!New(t) \/ Clh!Swap(t) \/ Clh!FirstLoad(t) \/ Clh!SetForAndNeq(t)
      PROVE  MovesOne
  BY <1>2 DEF Clh!CallLock, Clh!New, Clh!Swap, Clh!FirstLoad, Clh!SetForAndNeq
<1>3. ASSUME NEW t \in Threads, Clh!SetMem(t) \/ Clh!ReadHead(t) \/ Clh!Wait(t)
      PROVE  MovesOne
  BY <1>3 DEF Clh!SetMem, Clh!ReadHead, Clh!Wait
<1>4. ASSUME NEW t \in Threads, Clh!Disarm(t) \/ Clh!Free(t) \/ Clh!SaveHead(t) \/ Clh!Unlock(t)
      PROVE  MovesOne
  BY <1>4 DEF Clh!Disarm, Clh!Free, Clh!SaveHead, Clh!Unlock
<1> QED
  BY <1>1, <1>2, <1>3, <1>4 DEF Clh!Next, Clh!Step

LEMMA AepflMovesOne == ASSUME Aepfl!Next PROVE MovesOne
<1> USE DEF MovesOne, MovesTo, LeadsTo, WaitsAt, TryPcs, OwnerUnlockPcs, LateUnlockPcs, Aepfl!Goto
<1>1. PICK t \in Threads : Aepfl!CallLock(t) \/ Aepfl!TryLoadTail(t) \/ Aepfl!Step(t)
  BY DEF Aepfl!Next
<1>2. CASE Aepfl!CallLock(t) \/ Aepfl!TryLoadTail(t) \/ Aepfl!TryLoadHead(t) \/ Aepfl!TryCas(t)
  BY <1>2 DEF Aepfl!CallLock, Aepfl!TryLoadTail, Aepfl!TryLoadHead, Aepfl!TryCas
<1>3. CASE Aepfl!TakeSlot(t) \/ Aepfl!FirstLoad(t) \/ Aepfl!SetMem(t) \/ Aepfl!SetFor(t) \/ Aepfl!SetNeq(t)
  BY <1>3 DEF Aepfl!TakeSlot, Aepfl!FirstLoad, Aepfl!SetMem, Aepfl!SetFor, Aepfl!SetNeq
<1>4. CASE Aepfl!Wait(t) \/ Aepfl!Disarm(t)
  BY <1>4 DEF Aepfl!Wait, Aepfl!Disarm
<1>5. CASE Aepfl!UnlockTakeHead(t) \/ Aepfl!UnlockOwnFlag(t) \/ Aepfl!UnlockNextFlag(t)
  BY <1>5 DEF Aepfl!UnlockTakeHead, Aepfl!UnlockOwnFlag, Aepfl!UnlockNextFlag
<1> QED
  BY <1>1, <1>2, <1>3, <1>4, <1>5 DEF Aepfl!Step

LEMMA CohortMovesOne == ASSUME Cptltkt!Next PROVE MovesOne
<1> USE DEF MovesOne, MovesTo, LeadsTo, WaitsAt, TryPcs, OwnerUnlockPcs, LateUnlockPcs, Cptltkt!Goto, Cptltkt!SetPage
<1>1. PICK t \in Threads : Cptltkt!CallLock(t) \/ Cptltkt!Step(t)
  BY DEF Cptltkt!Next
<1>2. CASE Cptltkt!CallLock(t) \/ Cptltkt!DrawLocal(t) \/ Cptltkt!ArmLocal(t) \/ Cptltkt!WaitLocal(t)
  BY <1>2 DEF Cptltkt!CallLock, Cptltkt!DrawLocal, Cptltkt!ArmLocal, Cptltkt!WaitLocal
<1>3. CASE Cptltkt!HasLocal(t) \/ Cptltkt!DisarmLocal(t) \/ Cptltkt!DrawGlobal(t) \/ Cptltkt!SetGlobalFor(t)
  BY <1>3 DEF Cptltkt!HasLocal, Cptltkt!DisarmLocal, Cptltkt!DrawGlobal, Cptltkt!SetGlobalFor
<1>4. CASE Cptltkt!SetGlobalNeq(t) \/ Cptltkt!SetGlobalMem(t) \/ Cptltkt!WaitGlobal(t)
  BY <1>4 DEF Cptltkt!SetGlobalNeq, Cptltkt!SetGlobalMem, Cptltkt!WaitGlobal
<1>5. CASE Cptltkt!DisarmGlobal(t) \/ Cptltkt!SetOwner(t)
  BY <1>5 DEF Cptltkt!DisarmGlobal, Cptltkt!SetOwner
<1>6. CASE Cptltkt!UnlockLoads(t) \/ Cptltkt!UnlockSocketGrant(t)
  BY <1>6 DEF Cptltkt!UnlockLoads, Cptltkt!UnlockBegin, Cptltkt!UnlockSocketGrant
<1>7. CASE Cptltkt!UnlockPass(t) \/ Cptltkt!UnlockGlobal(t) \/ Cptltkt!UnlockLocal(t)
  BY <1>7 DEF Cptltkt!UnlockPass, Cptltkt!UnlockGlobal, Cptltkt!UnlockLocal, Cptltkt!Return
<1> QED
  BY <1>1, <1>2, <1>3, <1>4, <1>5, <1>6, <1>7 DEF Cptltkt!Step

LEMMA SpinMovesOne == ASSUME Spin!Next PROVE MovesOne
<1> USE DEF MovesOne, MovesTo, LeadsTo, WaitsAt, TryPcs, OwnerUnlockPcs, LateUnlockPcs,
            Spin!Goto, Spin!LoadMem, Spin!Xchg, Spin!SetPage, Spin!SetTls
<1>1. PICK t \in Threads : Spin!CallTrylock(t) \/ Spin!CallLock(t) \/ Spin!Step(t) \/ Spin!RseqAbort(t)
  BY DEF Spin!Next
<1>2. CASE Spin!CallTrylock(t) \/ Spin!CallLock(t) \/ Spin!InitKernelState(t) \/ Spin!Unlock(t)
  BY <1>2 DEF Spin!CallTrylock, Spin!CallLock, Spin!InitKernelState, Spin!Unlock
<1>3. CASE Spin!Trylock(t)
  BY <1>3 DEF Spin!Trylock
<1>4. CASE Spin!WatchForUnlocked(t) \/ Spin!ScheduleWhenEqual(t) \/ Spin!MaybeSched(t) \/ Spin!Disarm(t) \/ Spin!Arm(t)
  BY <1>4 DEF Spin!WatchForUnlocked, Spin!ScheduleWhenEqual, Spin!MaybeSched, Spin!Disarm, Spin!Arm
<1>5. CASE Spin!RseqBegin(t) \/ Spin!RseqArm(t) \/ Spin!RseqBackoff(t) \/ Spin!RseqTry(t)
  BY <1>5 DEF Spin!RseqBegin, Spin!RseqArm, Spin!RseqBackoff, Spin!RseqTry
<1>6. CASE Spin!RseqAbort(t) \/ Spin!AbortHandler(t)
  BY <1>6 DEF Spin!RseqAbort, Spin!AbortHandler
<1> QED
  BY <1>1, <1>2, <1>3, <1>4, <1>5, <1>6 DEF Spin!Step

LEMMA RseqMovesOne == ASSUME Rseq!Next PROVE MovesOne
<1> USE DEF MovesOne, MovesTo, LeadsTo, WaitsAt, TryPcs, OwnerUnlockPcs, LateUnlockPcs,
            Rseq!Goto, Rseq!LoadMem, Rseq!Xchg, Rseq!SetPage, Rseq!SetTls
<1>1. PICK t \in Threads : Rseq!CallTrylock(t) \/ Rseq!CallLock(t) \/ Rseq!Step(t) \/ Rseq!RseqAbort(t)
  BY DEF Rseq!Next
<1>2. CASE Rseq!CallTrylock(t) \/ Rseq!CallLock(t) \/ Rseq!InitKernelState(t) \/ Rseq!Unlock(t)
  BY <1>2 DEF Rseq!CallTrylock, Rseq!CallLock, Rseq!InitKernelState, Rseq!Unlock
<1>3. CASE Rseq!Trylock(t)
  BY <1>3 DEF Rseq!Trylock
<1>4. CASE Rseq!WatchForUnlocked(t) \/ Rseq!ScheduleWhenEqual(t) \/ Rseq!MaybeSched(t) \/ Rseq!Disarm(t) \/ Rseq!Arm(t)
  BY <1>4 DEF Rseq!WatchForUnlocked, Rseq!ScheduleWhenEqual, Rseq!MaybeSched, Rseq!Disarm, Rseq!Arm
<1>5. CASE Rseq!RseqBegin(t) \/ Rseq!RseqArm(t) \/ Rseq!RseqBackoff(t) \/ Rseq!RseqTry(t)
  BY <1>5 DEF Rseq!RseqBegin, Rseq!RseqArm, Rseq!RseqBackoff, Rseq!RseqTry
<1>6. CASE Rseq!RseqAbort(t) \/ Rseq!AbortHandler(t)
  BY <1>6 DEF Rseq!RseqAbort, Rseq!AbortHandler
<1> QED
  BY <1>1, <1>2, <1>3, <1>4, <1>5, <1>6 DEF Rseq!Step

LEMMA OpsMovesOne == ASSUME OpsInv, Ops!Next PROVE MovesOne \/ SameRoles
<1> USE DEF MovesOne, MovesTo, LeadsTo, WaitsAt, TryPcs, OwnerUnlockPcs, LateUnlockPcs, Ops!Goto
<1>1. PICK t \in Threads : Ops!CallTrylock(t) \/ Ops!CallLock(t) \/ Ops!Step(t) \/ Ops!Drain(t) \/ Ops!SpuriousWake(t)
  BY DEF Ops!Next
<1>2. CASE Ops!CallTrylock(t) \/ Ops!CallLock(t) \/ Ops!SpuriousWake(t)
  BY <1>2 DEF Ops!CallTrylock, Ops!CallLock, Ops!SpuriousWake
<1>3. CASE Ops!Drain(t)
  BY <1>3 DEF Ops!Drain, SameRoles, Waits, Holds
<1>4. CASE Ops!Trylock(t)
  BY <1>4 DEF Ops!Trylock, Ops!TryLoad, Ops!TryXchg, Ops!Enters
<1>5. CASE Ops!TryFailed(t)
  <2>1. \E to \in {"waiters_inc", "load"} : pc[t] = "failed" /\ pc' = [pc EXCEPT ![t] = to]
    BY <1>5 DEF Ops!TryFailed
  <2> QED
    BY <2>1
<1>6. CASE Ops!WaitersInc(t) \/ Ops!FutexWait(t) \/ Ops!WaitersDec(t)
  BY <1>6 DEF Ops!WaitersInc, Ops!FutexWait, Ops!WaitersDec
<1>7. CASE Ops!Unlock(t) \/ Ops!UnlockCheckWaiters(t)
  BY <1>7 DEF Ops!Unlock, Ops!UnlockCheckWaiters
<1>8. CASE Ops!UnlockWake(t)
  <2>1. CASE pc' = [pc EXCEPT ![t] = "idle"]
    BY <1>8, <2>1 DEF Ops!UnlockWake
  <2>2. CASE pc' # [pc EXCEPT ![t] = "idle"]
    <3>1. PICK w \in Threads : pc[w] = "asleep" /\ pc' = [pc EXCEPT ![t] = "idle", ![w] = "waiters_dec"]
      BY <1>8, <2>2 DEF Ops!UnlockWake
    <3>2. pc[t] = "ul_wake" /\ pc'[t] = "idle" /\ pc'[w] = "waiters_dec" /\ \A u \in Threads \ {t, w} : pc'[u] = pc[u]
      BY <1>8, <3>1 DEF Ops!UnlockWake, OpsInv
    <3> QED
      BY <3>1, <3>2 DEF SameRoles, Waits, Holds
  <2> QED
    BY <2>1, <2>2
<1> QED
  BY <1>1, <1>2, <1>3, <1>4, <1>5, <1>6, <1>7, <1>8 DEF Ops!Step

\* pc is a function on the threads, whichever the lock.
LEMMA PlacesTyped == ASSUME Inv PROVE \E P : pc \in [Threads -> P]
<1>1. CASE kind = "ticket"
  BY <1>1 DEF Inv, TicketP!TicketInv, TicketP!TicketTyped
<1>2. CASE kind = "clh"
  BY <1>2 DEF Inv, ClhInv, ClhQueue, ClhTyped
<1>3. CASE kind = "aepfl"
  BY <1>3 DEF Inv, AepflInv, AepflQueue, AepflTyped
<1>4. CASE kind = "cptltkt"
  BY <1>4 DEF Inv, CohortInv, CohortQueues, Cohort, CohortTyped
<1>5. CASE kind = "spin"
  BY <1>5 DEF Inv, SpinP!Inv, SpinP!Typed
<1>6. CASE kind = "rseq"
  BY <1>6 DEF Inv, RseqP!Inv, RseqP!Typed
<1>7. CASE kind = "lock_ops"
  BY <1>7 DEF Inv, OpsInv
<1> QED
  BY <1>1, <1>2, <1>3, <1>4, <1>5, <1>6, <1>7, KindIsOneOf

\* Each of the seven locks is a lock: every step, the hand-over in a queue, the
\* batch of a socket and a woken sleeper included, is an atomic operation of
\* LockSpec or none.  A call waits from its entry on; the lock is free again when
\* unlock() begins.
THEOREM QueueLocksRefineLockSpec ==
  ASSUME ArrayFits, NULL # "lock" PROVE Spec => Lock!Spec
<1>1. Init => Lock!Init
  <2>1. Init => \A t \in Threads : pc[t] = "idle"
    BY DEF Init, Ticket!Init
  <2>2. Init => \A t \in Threads : ~Waits(t) /\ ~Holds(t)
    BY <2>1 DEF Waits, Holds
  <2> QED
    BY <2>2 DEF Lock!Init
<1>2. Inv => MutualExclusion
  BY InvExcludes
<1>3. ASSUME Inv, MutualExclusion', [Next]_vars PROVE [Lock!Next]_Lock!vars
  <2>1. MovesOne \/ SameRoles
    <3>1. UNCHANGED pc => SameRoles
      BY DEF SameRoles, Waits, Holds
    <3> QED
      BY <1>3, <3>1, StepOfKind, KindIsOneOf, TicketMoves, ClhMovesOne, AepflMovesOne, CohortMovesOne, SpinMovesOne,
         RseqMovesOne, OpsMovesOne DEF Inv
  <2>2. CASE MovesOne
    <3>1. PICK P : pc \in [Threads -> P]
      BY <1>3, PlacesTyped
    <3> QED
      BY <1>3, <2>2, <3>1, MoveIsAbstract
  <2>3. CASE SameRoles
    BY <2>3 DEF SameRoles, Lock!vars
  <2> QED
    BY <2>1, <2>2, <2>3
<1> QED
  BY <1>1, <1>2, <1>3, Invariant, PTL DEF Spec, Lock!Spec
=============================================================================
