--------------------------- MODULE RunQueueProofs ---------------------------
(***************************************************************************)
(* What holds of every pick of the patched pick_next_entity(), for any     *)
(* number of tasks, any granularity and any vruntimes.  A claim about all  *)
(* numbers is proved from the least counterexample (Least): the tree stays *)
(* ordered because an entity is inserted at the least place that fits.     *)
(***************************************************************************)
EXTENDS RunQueue, SequenceTheorems, FiniteSetTheorems, WellFoundedInduction, TLAPS

\* Concatenation, with the lengths given names.
LEMMA Joined ==
  ASSUME NEW a \in Seq(Tasks), NEW b \in Seq(Tasks), NEW m, NEW n, Len(a) = m, Len(a) + Len(b) = n
  PROVE  /\ a \o b \in Seq(Tasks) /\ Len(a \o b) = n
         /\ \A i \in 1 .. n : (a \o b)[i] = IF i <= m THEN a[i] ELSE b[i - m]
<1>1. /\ a \o b \in Seq(Tasks) /\ Len(a \o b) = Len(a) + Len(b)
      /\ \A i \in 1 .. Len(a) + Len(b) : (a \o b)[i] = IF i <= Len(a) THEN a[i] ELSE b[i - Len(a)]
  BY ConcatProperties
<1> QED
  BY <1>1, Zenon

\* What InsertAt of the community modules yields.
LEMMA InsertedAt ==
  ASSUME NEW s \in Seq(Tasks), NEW t \in Tasks, NEW k \in 1 .. Len(s) + 1
  PROVE  /\ InsertAt(s, k, t) \in Seq(Tasks)
         /\ Len(InsertAt(s, k, t)) = Len(s) + 1
         /\ \A i \in 1 .. Len(s) + 1 :
              InsertAt(s, k, t)[i] = IF i < k THEN s[i] ELSE IF i = k THEN t ELSE s[i - 1]
<1> DEFINE n == Len(s)
           a == SubSeq(s, 1, k - 1)
           c == a \o <<t>>
           b == SubSeq(s, k, n)
<1>1. n \in Nat /\ k \in Nat /\ 1 <= k /\ k <= n + 1
  OBVIOUS
<1>2. a \in Seq(Tasks) /\ Len(a) = k - 1 /\ \A i \in 1 .. k - 1 : a[i] = s[i]
  OBVIOUS
<1>3. b \in Seq(Tasks) /\ Len(b) = n + 1 - k /\ \A i \in 1 .. n + 1 - k : b[i] = s[k + i - 1]
  OBVIOUS
<1> HIDE DEF a
<1>4. c \in Seq(Tasks) /\ Len(c) = k /\ \A i \in 1 .. k : c[i] = IF i < k THEN s[i] ELSE t
  BY <1>2
<1>5. InsertAt(s, k, t) = c \o b
  BY DEF InsertAt, a
<1> HIDE DEF n, b, c
<1>6. Len(c) + Len(b) = n + 1
  BY <1>1, <1>3, <1>4
<1>7. c \o b \in Seq(Tasks)
  BY <1>3, <1>4, ConcatProperties
<1>8. Len(c \o b) = n + 1
  BY <1>3, <1>4, <1>6, ConcatProperties
<1>9. \A i \in 1 .. n + 1 : (c \o b)[i] = IF i <= k THEN c[i] ELSE b[i - k]
  BY <1>3, <1>4, <1>6, Joined
<1>10. \A i \in 1 .. n + 1 : i > k => i - k \in 1 .. n + 1 - k /\ k + (i - k) - 1 = i - 1
  BY <1>1
<1>11. \A i \in 1 .. n + 1 : i > k => b[i - k] = s[i - 1]
  BY <1>3, <1>10
<1>12. \A i \in 1 .. n + 1 : (c \o b)[i] = IF i < k THEN s[i] ELSE IF i = k THEN t ELSE s[i - 1]
  BY <1>1, <1>4, <1>9, <1>11, <1>7, <1>8
<1> QED
  BY <1>5, <1>7, <1>8, <1>12 DEF n

\* What RemoveAt of the community modules yields.
LEMMA RemovedAt ==
  ASSUME NEW s \in Seq(Tasks), NEW k \in 1 .. Len(s)
  PROVE  /\ RemoveAt(s, k) \in Seq(Tasks)
         /\ Len(RemoveAt(s, k)) = Len(s) - 1
         /\ \A i \in 1 .. Len(s) - 1 : RemoveAt(s, k)[i] = IF i < k THEN s[i] ELSE s[i + 1]
<1> DEFINE n == Len(s)
           a == SubSeq(s, 1, k - 1)
           b == SubSeq(s, k + 1, n)
           m == k - 1
           l == n - 1
<1>1. n \in Nat /\ k \in Nat /\ 1 <= k /\ k <= n
  OBVIOUS
<1>2. a \in Seq(Tasks) /\ Len(a) = m /\ \A i \in 1 .. m : a[i] = s[i]
  OBVIOUS
<1>3. b \in Seq(Tasks) /\ Len(b) = n - k /\ \A i \in 1 .. n - k : b[i] = s[k + i]
  OBVIOUS
<1>4. RemoveAt(s, k) = a \o b
  BY DEF RemoveAt
<1> HIDE DEF n, a, b
<1>5. Len(a) + Len(b) = l
  BY <1>1, <1>2, <1>3
<1>6. /\ m \in Nat /\ l \in Nat
      /\ \A i \in 1 .. l : (i <= m <=> i < k) /\ (i < k => i \in 1 .. m)
      /\ \A i \in 1 .. l : ~(i < k) => i - m \in 1 .. n - k /\ k + (i - m) = i + 1
  BY <1>1
<1> HIDE DEF m, l
<1>7. a \o b \in Seq(Tasks) /\ Len(a \o b) = l
  BY <1>2, <1>3, <1>5, Joined
<1>8. \A i \in 1 .. l : (a \o b)[i] = IF i <= m THEN a[i] ELSE b[i - m]
  BY <1>2, <1>3, <1>5, Joined
<1> DEFINE c == a \o b
<1>9. \A i \in 1 .. l : c[i] = IF i <= m THEN a[i] ELSE b[i - m]
  BY <1>8
<1> HIDE DEF c
<1>10. \A i \in 1 .. l : ~(i < k) => b[i - m] = s[i + 1]
  BY <1>3, <1>6, Zenon
<1>11. \A i \in 1 .. l : c[i] = IF i < k THEN s[i] ELSE s[i + 1]
  BY <1>2, <1>6, <1>9, <1>10, Zenon
<1> QED
  BY <1>4, <1>7, <1>11, Zenon DEF n, l, c

\* A set of natural numbers that is not empty has a least one.
LEMMA Least ==
  ASSUME NEW S, S \subseteq Nat, S # {}
  PROVE  \E m \in S : \A n \in S : m <= n
<1>1. PICK m \in S : \A n \in S : ~(<<n, m>> \in OpToRel(<, Nat))
  BY NatLessThanWellFounded, WFMin
<1>2. \A n \in S : ~(n < m)
  BY <1>1 DEF OpToRel
<1> QED
  BY <1>2

-----------------------------------------------------------------------------
\* A queue of tasks by vruntime in which no task is twice.
Ordered(s, v) ==
  \A i, j \in DOMAIN s : i < j => s[i] # s[j] /\ v[s[i]] <= v[s[j]]

\* An entity goes where everything before it has at most its vruntime, and
\* everything behind it more.
LEMMA Place ==
  ASSUME NEW s \in Seq(Tasks), NEW t \in Tasks, NEW v \in [Tasks -> Nat], Ordered(s, v)
  PROVE  \E k \in 1 .. Len(s) + 1 :
           /\ Insert(s, t, v) = InsertAt(s, k, t)
           /\ \A i \in 1 .. Len(s) : i < k <=> v[s[i]] <= v[t]
<1> DEFINE n == Len(s)
           later == {i \in 1 .. n + 1 : i = n + 1 \/ v[s[i]] > v[t]}
<1>1. n \in Nat /\ DOMAIN s = 1 .. n /\ \A i \in 1 .. n : s[i] \in Tasks /\ v[s[i]] \in Nat
  OBVIOUS
<1>2. later \subseteq Nat /\ n + 1 \in later
  BY <1>1
<1>3. PICK k \in later : \A i \in later : k <= i
  BY <1>2, Least
<1>4. k \in 1 .. n + 1
  OBVIOUS
<1>5. \A i \in 1 .. n : i < k => v[s[i]] <= v[t]
  BY <1>1, <1>3, <1>4
<1>6. \A i \in 1 .. n : i >= k => v[s[i]] > v[t]
  BY <1>1, <1>3, <1>4 DEF Ordered
<1>7. {i \in DOMAIN s : v[s[i]] <= v[t]} = 1 .. k - 1
  BY <1>1, <1>4, <1>5, <1>6
<1>8. Cardinality(1 .. k - 1) = k - 1
  BY <1>4, FS_Interval
<1>9. Insert(s, t, v) = InsertAt(s, k, t)
  <2>1. Cardinality({i \in DOMAIN s : v[s[i]] <= v[t]}) + 1 = k
    <3>1. Cardinality({i \in DOMAIN s : v[s[i]] <= v[t]}) = k - 1
      BY <1>7, <1>8, Zenon
    <3>2. (k - 1) + 1 = k
      BY <1>1, <1>4
    <3> QED
      BY <3>1, <3>2, Zenon
  <2> QED
    BY <2>1, Zenon DEF Insert
<1> HIDE DEF n
<1>10. \A i \in 1 .. n : i < k <=> v[s[i]] <= v[t]
  BY <1>1, <1>4, <1>5, <1>6
<1> QED
  BY <1>4, <1>9, <1>10 DEF n

LEMMA Inserted ==
  ASSUME NEW s \in Seq(Tasks), NEW t \in Tasks, NEW v \in [Tasks -> Nat], Ordered(s, v), t \notin Range(s)
  PROVE  /\ Insert(s, t, v) \in Seq(Tasks)
         /\ Ordered(Insert(s, t, v), v)
         /\ Range(Insert(s, t, v)) = Range(s) \cup {t}
<1> DEFINE n == Len(s)
           r == Insert(s, t, v)
<1>1. n \in Nat /\ DOMAIN s = 1 .. n /\ \A i \in 1 .. n : s[i] \in Tasks /\ v[s[i]] \in Nat
  OBVIOUS
<1>2. PICK k \in 1 .. n + 1 : r = InsertAt(s, k, t) /\ \A i \in 1 .. n : i < k <=> v[s[i]] <= v[t]
  BY Place
<1>3. /\ r \in Seq(Tasks) /\ Len(r) = n + 1 /\ DOMAIN r = 1 .. n + 1
      /\ \A i \in 1 .. n + 1 : r[i] = IF i < k THEN s[i] ELSE IF i = k THEN t ELSE s[i - 1]
  <2>1. InsertAt(s, k, t) \in Seq(Tasks) /\ Len(InsertAt(s, k, t)) = n + 1
    BY InsertedAt
  <2>2. \A i \in 1 .. n + 1 :
          InsertAt(s, k, t)[i] = IF i < k THEN s[i] ELSE IF i = k THEN t ELSE s[i - 1]
    BY InsertedAt
  <2>3. DOMAIN InsertAt(s, k, t) = 1 .. n + 1
    BY <2>1
  <2> QED
    BY <1>2, <2>1, <2>2, <2>3, Zenon
<1> HIDE DEF n, r
<1>4. \A i \in 1 .. n : s[i] # t /\ s[i] \in Range(s)
  BY <1>1 DEF Range
<1>5. Ordered(r, v)
  <2> SUFFICES ASSUME NEW i \in 1 .. n + 1, NEW j \in 1 .. n + 1, i < j
               PROVE  r[i] # r[j] /\ v[r[i]] <= v[r[j]]
    BY <1>3 DEF Ordered
  <2>1. \A l, m \in 1 .. n : l < m => s[l] # s[m] /\ v[s[l]] <= v[s[m]]
    BY <1>1 DEF Ordered
  <2>2. r[i] = (IF i < k THEN s[i] ELSE IF i = k THEN t ELSE s[i - 1])
        /\ r[j] = (IF j < k THEN s[j] ELSE IF j = k THEN t ELSE s[j - 1])
    BY <1>3
  <2>3. CASE j < k
    BY <1>1, <1>2, <2>1, <2>2, <2>3
  <2>4. CASE j = k
    <3>1. i \in 1 .. n /\ r[i] = s[i] /\ r[j] = t
      BY <1>1, <1>2, <2>2, <2>4
    <3> QED
      BY <1>2, <1>4, <2>4, <3>1
  <2>5. CASE j > k
    <3>1. j - 1 \in 1 .. n /\ r[j] = s[j - 1]
      BY <1>1, <1>2, <2>2, <2>5
    <3>2. CASE i < k
      BY <1>1, <1>2, <2>1, <2>2, <2>5, <3>1, <3>2
    <3>3. CASE i = k
      <4>1. r[i] = t /\ v[t] \in Nat /\ v[s[j - 1]] \in Nat /\ ~(j - 1 < k)
        BY <1>1, <2>2, <2>5, <3>1, <3>3
      <4> QED
        BY <1>2, <1>4, <3>1, <4>1
    <3>4. CASE i > k
      <4>1. i - 1 \in 1 .. n /\ r[i] = s[i - 1] /\ i - 1 < j - 1
        BY <1>1, <1>2, <2>2, <3>1, <3>4
      <4> QED
        BY <2>1, <3>1, <4>1
    <3> QED
      BY <1>2, <3>2, <3>3, <3>4
  <2> QED
    BY <1>1, <1>2, <2>3, <2>4, <2>5
<1>6. \A i \in 1 .. n : s[i] \in Range(r)
  <2> TAKE i \in 1 .. n
  <2>1. CASE i < k
    <3>1. i \in DOMAIN r /\ r[i] = s[i]
      BY <1>1, <1>3, <2>1
    <3> QED
      BY <3>1 DEF Range
  <2>2. CASE i >= k
    <3>1. i + 1 \in 1 .. n + 1 /\ r[i + 1] = s[(i + 1) - 1] /\ (i + 1) - 1 = i
      BY <1>1, <1>2, <1>3, <2>2
    <3> QED
      BY <1>3, <3>1 DEF Range
  <2> QED
    BY <1>1, <1>2, <2>1, <2>2
<1>7. t \in Range(r)
  <2>1. k \in DOMAIN r /\ r[k] = t
    BY <1>1, <1>2, <1>3
  <2> QED
    BY <2>1 DEF Range
<1>8. \A i \in 1 .. n + 1 : r[i] \in Range(s) \cup {t}
  <2> TAKE i \in 1 .. n + 1
  <2>1. \/ i = k /\ r[i] = t
        \/ i > k /\ i - 1 \in 1 .. n /\ r[i] = s[i - 1]
        \/ i < k /\ i \in 1 .. n /\ r[i] = s[i]
    BY <1>1, <1>2, <1>3
  <2> QED
    BY <1>4, <2>1
<1>9. Range(r) = Range(s) \cup {t}
  BY <1>1, <1>3, <1>6, <1>7, <1>8 DEF Range
<1> QED
  BY <1>3, <1>5, <1>9 DEF r

LEMMA Removed ==
  ASSUME NEW s \in Seq(Tasks), NEW t, NEW v \in [Tasks -> Nat], Ordered(s, v)
  PROVE  /\ Without(s, t) \in Seq(Tasks)
         /\ Ordered(Without(s, t), v)
         /\ Range(Without(s, t)) = Range(s) \ {t}
<1> DEFINE n == Len(s)
           r == Without(s, t)
<1>1. n \in Nat /\ DOMAIN s = 1 .. n /\ \A i \in 1 .. n : s[i] \in Tasks /\ v[s[i]] \in Nat
  OBVIOUS
<1>2. CASE t \notin Range(s)
  BY <1>2 DEF Without
<1>3. CASE t \in Range(s)
  <2>1. PICK k \in 1 .. n : r = RemoveAt(s, k) /\ s[k] = t
    BY <1>1, <1>3 DEF Without, Range
  <2>2. /\ r \in Seq(Tasks) /\ Len(r) = n - 1 /\ DOMAIN r = 1 .. n - 1
        /\ \A i \in 1 .. n - 1 : r[i] = IF i < k THEN s[i] ELSE s[i + 1]
    <3>1. RemoveAt(s, k) \in Seq(Tasks) /\ Len(RemoveAt(s, k)) = n - 1
      BY RemovedAt
    <3>2. \A i \in 1 .. n - 1 : RemoveAt(s, k)[i] = IF i < k THEN s[i] ELSE s[i + 1]
      BY RemovedAt
    <3>3. DOMAIN RemoveAt(s, k) = 1 .. n - 1
      BY <3>1
    <3> QED
      BY <2>1, <3>1, <3>2, <3>3, Zenon
  <2> HIDE DEF n, r
  <2>3. \A i, j \in 1 .. n : i < j => s[i] # s[j] /\ v[s[i]] <= v[s[j]]
    BY <1>1 DEF Ordered
  <2>8. \A i \in 1 .. n - 1 :
          \E l \in 1 .. n : l # k /\ r[i] = s[l] /\ l = (IF i < k THEN i ELSE i + 1)
    <3> TAKE i \in 1 .. n - 1
    <3>1. CASE i < k
      <4>1. i \in 1 .. n /\ i # k /\ r[i] = s[i]
        BY <1>1, <2>2, <3>1
      <4> QED
        BY <3>1, <4>1
    <3>2. CASE ~(i < k)
      <4>1. i + 1 \in 1 .. n /\ i + 1 # k /\ r[i] = s[i + 1]
        BY <1>1, <2>1, <2>2, <3>2
      <4> QED
        BY <3>2, <4>1
    <3> QED
      BY <3>1, <3>2
  <2>4. Ordered(r, v)
    <3> SUFFICES ASSUME NEW i \in 1 .. n - 1, NEW j \in 1 .. n - 1, i < j
                 PROVE  r[i] # r[j] /\ v[r[i]] <= v[r[j]]
      BY <2>2 DEF Ordered
    <3>1. PICK l \in 1 .. n : r[i] = s[l] /\ l = (IF i < k THEN i ELSE i + 1)
      BY <2>8
    <3>2. PICK m \in 1 .. n : r[j] = s[m] /\ m = (IF j < k THEN j ELSE j + 1)
      BY <2>8
    <3>3. l < m
      BY <1>1, <2>1, <3>1, <3>2
    <3> QED
      BY <2>3, <3>1, <3>2, <3>3
  <2>5. \A i \in 1 .. n - 1 : r[i] \in Range(s) \ {t}
    <3>1. \A l \in 1 .. n : l # k => s[l] # t /\ s[l] \in Range(s)
      BY <1>1, <2>1, <2>3 DEF Range
    <3> QED
      BY <2>8, <3>1
  <2>6. \A i \in 1 .. n : i # k => s[i] \in Range(r)
    <3> TAKE i \in 1 .. n
    <3>1. CASE i < k
      <4>1. i \in 1 .. n - 1 /\ r[i] = s[i]
        BY <1>1, <2>1, <2>2, <3>1
      <4> QED
        BY <2>2, <4>1 DEF Range
    <3>2. CASE i > k
      <4>1. i - 1 \in 1 .. n - 1 /\ r[i - 1] = s[(i - 1) + 1] /\ (i - 1) + 1 = i
        BY <1>1, <2>1, <2>2, <3>2
      <4> QED
        BY <2>2, <4>1 DEF Range
    <3> QED
      BY <1>1, <2>1, <3>1, <3>2
  <2>7. Range(r) = Range(s) \ {t}
    BY <1>1, <2>1, <2>2, <2>5, <2>6 DEF Range
  <2> QED
    BY <2>2, <2>4, <2>7 DEF r
<1> QED
  BY <1>2, <1>3

-----------------------------------------------------------------------------
LEMMA InTreeIsRange == InTree = Range(tree)
  BY DEF InTree, Range

\* TypeOK is inductive: its parts about the queue, by name.
LEMMA QueueTyped ==
  ASSUME TypeOK
  PROVE  /\ vruntime \in [Tasks -> 0 .. MAX_LAG] /\ vruntime \in [Tasks -> Nat]
         /\ tree \in Seq(Tasks) /\ Ordered(tree, vruntime) /\ InTree \subseteq Tasks
         /\ curr \in Tasks \cup {NULL} /\ curr \notin InTree /\ NULL \notin InTree
         /\ skip \in Queued \cup {NULL} /\ next \in Queued \cup {NULL} /\ last \in Queued \cup {NULL}
  BY RunQueueAssumption DEF TypeOK, Ordered, InTree

\* Of a queue that is not empty pick_next_entity() takes a queued task.
LEMMA PickIsQueued == ASSUME TypeOK, Queued # {} PROVE Pick(tree, curr) \in Queued
<1> DEFINE l == Left(tree, curr)
           behind == IF l = curr THEN First(tree) ELSE First(Tail(tree))
           useCurr == l # curr /\ (behind = NULL \/ (curr # NULL /\ Before(curr, behind)))
           second == IF useCurr THEN curr ELSE behind
<1>1. \A i \in 1 .. Len(tree) : tree[i] \in Queued
  BY QueueTyped DEF InTree, Queued
<1>2. l \in Queued
  <2>1. CASE tree = <<>>
    BY <2>1, QueueTyped DEF Left, InTree, Queued
  <2>2. CASE tree # <<>>
    <3>1. tree[1] \in Queued
      BY <1>1, <2>2, QueueTyped
    <3> QED
      BY <2>2, <3>1, QueueTyped DEF Left, Queued
  <2> QED
    BY <2>1, <2>2
<1>3. First(tree) \in Queued \cup {NULL}
  BY <1>1, QueueTyped DEF First
<1>4. l # curr => First(Tail(tree)) \in Queued \cup {NULL}
  <2> SUFFICES ASSUME l # curr, Tail(tree) # <<>> PROVE Tail(tree)[1] \in Queued
    BY DEF First
  <2>1. tree # <<>>
    BY DEF Left
  <2>2. Tail(tree)[1] = tree[2] /\ 2 \in 1 .. Len(tree)
    BY <2>1, QueueTyped
  <2> QED
    BY <1>1, <2>2
<1>5. second \in Queued \cup {NULL}
  <2>1. curr \in Queued \cup {NULL}
    BY DEF Queued
  <2> QED
    BY <1>3, <1>4, <2>1
<1>6. \A se \in Queued : Buddy(se, l) \in Queued
  BY QueueTyped DEF Buddy
<1>7. Others(tree) # {} => tree[CHOOSE i \in Others(tree) : \A j \in Others(tree) : i <= j] \in Queued
  <2> SUFFICES ASSUME Others(tree) # {}
               PROVE  (CHOOSE i \in Others(tree) : \A j \in Others(tree) : i <= j) \in 1 .. Len(tree)
    BY <1>1
  <2>1. Others(tree) \subseteq 1 .. Len(tree) /\ Others(tree) \subseteq Nat
    BY QueueTyped DEF Others
  <2>2. \E i \in Others(tree) : \A j \in Others(tree) : i <= j
    BY <2>1, Least
  <2> QED
    BY <2>1, <2>2
<1> HIDE DEF l
<1>8. Pick(tree, curr) =
        IF Held(l) /\ l # curr /\ ~useCurr /\ Others(tree) # {}
        THEN tree[CHOOSE i \in Others(tree) : \A j \in Others(tree) : i <= j]
        ELSE IF (skip = l \/ Held(l)) /\ second # NULL /\ NotTooUnfair(second, l)
        THEN Buddy(second, l) ELSE Buddy(l, l)
  BY DEF Pick, l
<1> HIDE DEF second, useCurr
<1> QED
  BY <1>2, <1>5, <1>6, <1>7, <1>8

\* The vruntimes of queued tasks keep their order when they are made relative to
\* the least of them.
LEMMA NormalizedKeepsOrder ==
  ASSUME TypeOK, Queued # {}
  PROVE  /\ Normalized(vruntime) \in [Tasks -> 0 .. MAX_LAG]
         /\ \A t, u \in Queued : vruntime[t] <= vruntime[u] => Normalized(vruntime)[t] <= Normalized(vruntime)[u]
<1> DEFINE S == {vruntime[t] : t \in Queued}
           least == CHOOSE m \in S : \A t \in Queued : m <= vruntime[t]
<1>1. Queued \subseteq Tasks
  BY QueueTyped DEF Queued
<1>2. \A t \in Tasks : vruntime[t] \in 0 .. MAX_LAG /\ MAX_LAG \in Nat
  BY QueueTyped, RunQueueAssumption
<1>3. S \subseteq Nat /\ S # {}
  BY <1>1, <1>2
<1>4. \E m \in S : \A n \in S : m <= n
  BY <1>3, Least
<1>5. \E m \in S : \A t \in Queued : m <= vruntime[t]
  BY <1>4
<1>6. least \in S /\ \A t \in Queued : least <= vruntime[t]
  BY <1>5
<1>7. Normalized(vruntime) = [t \in Tasks |-> IF vruntime[t] >= least THEN vruntime[t] - least ELSE 0]
  BY DEF Normalized
<1>8. least \in Nat
  BY <1>3, <1>6
<1> HIDE DEF least, S
<1>9. \A t \in Tasks : Normalized(vruntime)[t] = IF vruntime[t] >= least THEN vruntime[t] - least ELSE 0
  BY <1>7
<1>10. Normalized(vruntime) \in [Tasks -> 0 .. MAX_LAG]
  BY <1>2, <1>7, <1>8
<1>11. ASSUME NEW t \in Queued, NEW u \in Queued, vruntime[t] <= vruntime[u]
       PROVE  Normalized(vruntime)[t] <= Normalized(vruntime)[u]
  BY <1>1, <1>2, <1>6, <1>8, <1>9, <1>11
<1> QED
  BY <1>10, <1>11

LEMMA TypeInit == Init => TypeOK
<1> SUFFICES ASSUME Init PROVE TypeOK
  OBVIOUS
<1>1. InTree = {} /\ DOMAIN tree = {}
  BY DEF Init, InTree
<1>2. tree \in Seq(Tasks)
  BY DEF Init
<1>3. {skip, next, last} \subseteq Queued \cup {NULL} /\ curr \in Tasks \cup {NULL} /\ curr \notin InTree
  BY <1>1 DEF Init
<1>4. vruntime \in [Tasks -> 0 .. MAX_LAG]
  BY RunQueueAssumption DEF Init
<1>5. resched \in BOOLEAN /\ doing \in [Tasks -> {"work", "wait", "hold"}]
  BY DEF Init
<1> QED
  BY <1>1, <1>2, <1>3, <1>4, <1>5 DEF TypeOK

\* schedule(): the picked task leaves the tree, the running one goes back into it.
LEMMA ScheduleKeepsType == ASSUME TypeOK, Schedule PROVE TypeOK'
<1> DEFINE p == Pick(tree, curr)
           rest == Without(tree, p)
<1>1. Queued # {} /\ p \in Queued
  BY PickIsQueued DEF Schedule
<1>2. rest \in Seq(Tasks) /\ Ordered(rest, vruntime) /\ Range(rest) = InTree \ {p}
  BY QueueTyped, InTreeIsRange, Removed
<1>3. /\ curr' = p /\ ClearBuddies(p) /\ vruntime' = Normalized(vruntime)
      /\ tree' = IF curr \notin {NULL, p} THEN Insert(rest, curr, vruntime) ELSE rest
      /\ resched' = FALSE /\ doing' = doing
  BY DEF Schedule
<1> HIDE DEF p, rest
<1>4. /\ tree' \in Seq(Tasks) /\ Ordered(tree', vruntime)
      /\ Range(tree') = (InTree \cup ({curr} \ {NULL})) \ {p}
  <2>1. CASE curr \notin {NULL, p}
    <3>1. curr \in Tasks /\ curr \notin Range(rest)
      BY <1>2, <2>1, QueueTyped
    <3>2. /\ tree' \in Seq(Tasks) /\ Ordered(tree', vruntime)
          /\ Range(tree') = Range(rest) \cup {curr}
      BY <1>2, <1>3, <2>1, <3>1, QueueTyped, Inserted
    <3> QED
      BY <1>2, <2>1, <3>2
  <2>2. CASE curr \in {NULL, p}
    BY <1>2, <1>3, <2>2, QueueTyped
  <2> QED
    BY <2>1, <2>2
<1>5. InTree' = Queued \ {p} /\ Queued' = Queued
  <2>1. InTree' = Range(tree')
    BY DEF InTree, Range
  <2>2. p # NULL
    BY <1>1, QueueTyped DEF Queued
  <2> QED
    BY <1>1, <1>3, <1>4, <2>1, <2>2 DEF Queued
<1>6. /\ vruntime' \in [Tasks -> 0 .. MAX_LAG]
      /\ \A t, u \in Queued : vruntime[t] <= vruntime[u] => vruntime'[t] <= vruntime'[u]
  BY <1>1, <1>3, NormalizedKeepsOrder
<1>7. \A i \in DOMAIN tree' : tree'[i] \in Queued
  BY <1>5 DEF InTree
<1>8. \A i, j \in DOMAIN tree' : i < j => tree'[i] # tree'[j] /\ vruntime'[tree'[i]] <= vruntime'[tree'[j]]
  BY <1>4, <1>6, <1>7 DEF Ordered
<1>9. {skip', next', last'} \subseteq Queued' \cup {NULL}
  BY <1>3, <1>5, QueueTyped DEF ClearBuddies
<1>10. curr' \in Tasks \cup {NULL} /\ curr' \notin InTree'
  BY <1>1, <1>3, <1>5, QueueTyped DEF Queued
<1>11. doing' \in [Tasks -> {"work", "wait", "hold"}] /\ resched' \in BOOLEAN
  BY <1>3 DEF TypeOK
<1> QED
  BY <1>4, <1>6, <1>8, <1>9, <1>10, <1>11 DEF TypeOK

LEMMA TypeNext == TypeOK /\ [Next]_vars => TypeOK'
<1> SUFFICES ASSUME TypeOK, [Next]_vars PROVE TypeOK'
  OBVIOUS
<1>1. CASE Schedule
  BY <1>1, ScheduleKeepsType
<1>2. CASE Idle
  BY <1>2 DEF Idle, TypeOK, InTree, Queued, buddies
<1>3. ASSUME NEW t \in Tasks, Tick(t) PROVE TypeOK'
  <2>1. vruntime' \in [Tasks -> 0 .. MAX_LAG] /\ \A u \in Tasks \ {t} : vruntime'[u] = vruntime[u]
    BY <1>3, QueueTyped, RunQueueAssumption DEF Tick
  <2>2. t \notin InTree /\ InTree' = InTree /\ Queued' = Queued
    BY <1>3, QueueTyped DEF Tick, Runs, InTree, Queued
  <2>3. \A i \in DOMAIN tree : tree[i] \in Tasks \ {t}
    BY <2>2, QueueTyped DEF InTree
  <2>4. \A i, j \in DOMAIN tree : i < j => tree[i] # tree[j] /\ vruntime'[tree[i]] <= vruntime'[tree[j]]
    BY <2>1, <2>3 DEF TypeOK
  <2> QED
    BY <1>3, <2>1, <2>2, <2>4 DEF Tick, TypeOK, buddies
<1>4. ASSUME NEW t \in Tasks, Yield(t) \/ \E u \in Tasks : YieldTo(t, u) PROVE TypeOK'
  <2>1. UNCHANGED <<tree, curr, vruntime, doing>> /\ resched' = TRUE /\ curr = t
    BY <1>4 DEF Yield, YieldTo, Runs
  <2>2. InTree' = InTree /\ Queued' = Queued /\ t \in Queued
    BY <2>1, RunQueueAssumption DEF InTree, Queued
  <2>3. {skip', next', last'} \subseteq Queued \cup {NULL}
    BY <1>4, <2>2, QueueTyped DEF Yield, YieldTo, Queued
  <2> QED
    BY <2>1, <2>2, <2>3 DEF TypeOK
<1>5. ASSUME NEW t \in Tasks, Block(t) PROVE TypeOK'
  <2>1. InTree' = InTree /\ curr = t /\ curr' = NULL
    BY <1>5 DEF Block, Runs, InTree
  <2>2. Queued' = Queued \ {t}
    BY <2>1, QueueTyped, RunQueueAssumption DEF Queued
  <2>3. {skip', next', last'} \subseteq Queued' \cup {NULL}
    BY <1>5, <2>2, QueueTyped DEF Block, ClearBuddies
  <2> QED
    BY <1>5, <2>1, <2>3, QueueTyped DEF Block, TypeOK
<1>6. ASSUME NEW t \in Tasks, Wake(t) PROVE TypeOK'
  <2>1. t \notin InTree /\ t # curr /\ tree' = Insert(tree, t, vruntime) /\ UNCHANGED <<curr, vruntime, skip, next, doing>>
    BY <1>6, RunQueueAssumption DEF Wake, Queued
  <2>2. tree' \in Seq(Tasks) /\ Ordered(tree', vruntime) /\ Range(tree') = InTree \cup {t}
    BY <2>1, QueueTyped, InTreeIsRange, Inserted
  <2>3. InTree' = InTree \cup {t} /\ Queued' = Queued \cup {t}
    BY <2>1, <2>2 DEF InTree, Range, Queued
  <2>4. {skip', next', last'} \subseteq Queued' \cup {NULL}
    BY <1>6, <2>1, <2>3, QueueTyped DEF Wake, Queued
  <2>5. resched' \in BOOLEAN
    BY <1>6 DEF Wake
  <2>6. \A i, j \in DOMAIN tree' : i < j => tree'[i] # tree'[j] /\ vruntime'[tree'[i]] <= vruntime'[tree'[j]]
    BY <2>1, <2>2 DEF Ordered
  <2> QED
    BY <2>1, <2>2, <2>3, <2>4, <2>5, <2>6 DEF TypeOK
<1>7. ASSUME NEW t \in Tasks, Acquire(t) \/ Wait(t) \/ Unlock(t) PROVE TypeOK'
  <2>1. UNCHANGED queue /\ doing' \in [Tasks -> {"work", "wait", "hold"}]
    BY <1>7 DEF Acquire, Wait, Unlock, TypeOK
  <2> QED
    BY <2>1 DEF TypeOK, queue, buddies, InTree, Queued
<1>8. CASE UNCHANGED vars
  BY <1>8 DEF vars, TypeOK, InTree, Queued
<1> QED
  BY <1>1, <1>2, <1>3, <1>4, <1>5, <1>6, <1>7, <1>8 DEF Next

-----------------------------------------------------------------------------
\* The tree stays ordered by vruntime and holds every queued task but the running
\* one once, and no buddy outlives its place in the queue.
THEOREM QueueTypeCorrect == Spec => []TypeOK
  BY TypeInit, TypeNext, PTL DEF Spec

\* pick_next_entity() never returns NULL or a task that is gone, whatever is held
\* back, skipped or preferred: second, the scan and the buddies are all queued.
THEOREM PicksQueuedTaskHolds == Spec => []PicksQueuedTask
<1>1. TypeOK => PicksQueuedTask
  BY PickIsQueued DEF PicksQueuedTask
<1> QED
  BY <1>1, QueueTypeCorrect, PTL

\* Without an autolock that holds back CFS's first choice, and for the skip buddy in
\* any case, the patched function picks what the function before the patches did.
THEOREM StockUnlessHeldBackHolds == Spec => []StockUnlessHeldBack
<1>1. StockUnlessHeldBack
  <2> DEFINE l == Left(tree, curr)
             behind == IF l = curr THEN First(tree) ELSE First(Tail(tree))
             useCurr == l # curr /\ (behind = NULL \/ (curr # NULL /\ Before(curr, behind)))
             second == IF useCurr THEN curr ELSE behind
  <2> SUFFICES ASSUME skip = l \/ ~DontSched(l) PROVE Pick(tree, curr) = StockPick(tree, curr)
    BY DEF StockUnlessHeldBack
  <2>1. ~Held(l)
    BY DEF Held
  <2>2. Pick(tree, curr) =
          IF Held(l) /\ l # curr /\ ~useCurr /\ Others(tree) # {}
          THEN tree[CHOOSE i \in Others(tree) : \A j \in Others(tree) : i <= j]
          ELSE IF (skip = l \/ Held(l)) /\ second # NULL /\ NotTooUnfair(second, l)
          THEN Buddy(second, l) ELSE Buddy(l, l)
    BY DEF Pick
  <2>3. StockPick(tree, curr) =
          IF skip = l /\ second # NULL /\ NotTooUnfair(second, l) THEN Buddy(second, l) ELSE Buddy(l, l)
    BY DEF StockPick
  <2> HIDE DEF l, second, useCurr
  <2> QED
    BY <2>1, <2>2, <2>3
<1> QED
  BY <1>1, PTL

\* Who goes first although it is far ahead of the leftmost task.
UnfairOnlyIfHeldBack ==
  Queued # {} /\ ~NotTooUnfair(Pick(tree, curr), Left(tree, curr)) =>
    /\ DontSched(Left(tree, curr)) /\ skip # Left(tree, curr)
    /\ Pick(tree, curr) \in InTree /\ ~DontSched(Pick(tree, curr))

\* The comment "if running something else can be done without getting too unfair"
\* is broken by the scan alone: the task that is far ahead is one that is not held
\* back itself and goes first because the leftmost one is.  Buddies and the skipped
\* task never break it.
THEOREM UnfairOnlyIfHeldBackHolds == Spec => []UnfairOnlyIfHeldBack
<1>1. ASSUME TypeOK PROVE UnfairOnlyIfHeldBack
  <2> DEFINE l == Left(tree, curr)
             behind == IF l = curr THEN First(tree) ELSE First(Tail(tree))
             useCurr == l # curr /\ (behind = NULL \/ (curr # NULL /\ Before(curr, behind)))
             second == IF useCurr THEN curr ELSE behind
             i == CHOOSE i \in Others(tree) : \A j \in Others(tree) : i <= j
  <2> SUFFICES ASSUME Queued # {}, ~NotTooUnfair(Pick(tree, curr), l)
               PROVE  DontSched(l) /\ skip # l /\ Pick(tree, curr) \in InTree /\ ~DontSched(Pick(tree, curr))
    BY DEF UnfairOnlyIfHeldBack
  <2>1. Pick(tree, curr) =
          IF Held(l) /\ l # curr /\ ~useCurr /\ Others(tree) # {} THEN tree[i]
          ELSE IF (skip = l \/ Held(l)) /\ second # NULL /\ NotTooUnfair(second, l)
          THEN Buddy(second, l) ELSE Buddy(l, l)
    BY DEF Pick
  <2>2. l \in Tasks
    <3>1. tree # <<>> => tree[1] \in Tasks
      BY <1>1, QueueTyped
    <3>2. tree = <<>> => curr # NULL
      BY DEF Queued, InTree
    <3> QED
      BY <1>1, <3>1, <3>2, QueueTyped DEF Left
  <2>3. NotTooUnfair(l, l)
    <3>1. vruntime[l] \in Nat /\ GRAN \in Nat
      BY <1>1, <2>2, QueueTyped, RunQueueAssumption
    <3> QED
      BY <3>1 DEF NotTooUnfair
  <2>4. Others(tree) # {} => tree[i] \in InTree /\ ~DontSched(tree[i])
    <3>1. Others(tree) \subseteq Nat
      BY DEF Others
    <3>2. Others(tree) # {} => i \in Others(tree)
      BY <3>1, Least
    <3>3. \A j \in Others(tree) : j \in DOMAIN tree
      BY <1>1, QueueTyped DEF Others
    <3> QED
      BY <3>2, <3>3 DEF Others, InTree
  <2> HIDE DEF l, second, useCurr, i
  <2>5. \A se : NotTooUnfair(se, l) => NotTooUnfair(Buddy(se, l), l)
    BY DEF Buddy
  <2> QED
    BY <2>1, <2>3, <2>4, <2>5 DEF Held
<1> QED
  BY <1>1, QueueTypeCorrect, PTL
=============================================================================
