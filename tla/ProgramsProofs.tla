---------------------------- MODULE ProgramsProofs ----------------------------
(***************************************************************************)
(* The interposition library, the lock benchmark and the driver, for any   *)
(* number of threads, calls, trials and iterations and any command line:   *)
(* the mutex excludes as long as it is initialised once; the destructor    *)
(* prints each record once while threads push theirs; the benchmark counts *)
(* what its threads did, and no thread uses a lock that is not initialised *)
(* or already destroyed, on the cpus it is asked to run on; the driver     *)
(* runs the locks its words ask for, and what it prints agrees with the    *)
(* times of each lock.                                                     *)
(***************************************************************************)
EXTENDS Programs, Sequences, FiniteSetTheorems, WellFoundedInduction, TLAPS

\* The programs do not disturb each other: each run of the composition is a run
\* of the interposed mutex, and one of the benchmark.
LEMMA InterposeRuns == Programs => Init /\ [][Next]_vars
<1>1. ProgramsInit => Init
  BY DEF ProgramsInit
<1>2. [ProgramsNext]_programs => [Next]_vars
  BY DEF ProgramsNext, OnlyInterpose, OnlyBench, OnlyDriver, programs
<1> QED
  BY <1>1, <1>2, PTL DEF Programs

LEMMA BenchRuns == Programs => Bench!Init /\ [][Bench!Next]_(Bench!vars)
<1>1. ProgramsInit => Bench!Init
  BY DEF ProgramsInit
<1>2. UNCHANGED benchVars => UNCHANGED Bench!vars
  BY DEF benchVars, Bench!vars, Bench!config, Bench!runner, Bench!locals
<1>3. [ProgramsNext]_programs => [Bench!Next]_(Bench!vars)
  BY <1>2 DEF ProgramsNext, OnlyInterpose, OnlyBench, OnlyDriver, programs
<1> QED
  BY <1>1, <1>3, PTL DEF Programs

LEMMA DriverRuns == Programs => Bin!Init /\ [][Bin!Next]_(Bin!vars)
<1>1. ProgramsInit => Bin!Init
  BY DEF ProgramsInit
<1>2. UNCHANGED driverVars => UNCHANGED Bin!vars
  BY DEF driverVars, Bin!vars, Bin!parse, Bin!search
<1>3. [ProgramsNext]_programs => [Bin!Next]_(Bin!vars)
  BY <1>2 DEF ProgramsNext, OnlyInterpose, OnlyBench, OnlyDriver, programs
<1> QED
  BY <1>1, <1>3, PTL DEF Programs

-----------------------------------------------------------------------------
InitPcs == {"load_init", "exchange", "init", "mark", "clear", "wait_init"}
Pcs == InitPcs \cup {"idle", "spin", "timing", "index", "history", "add_load", "add_cas", "count_warmup", "crashed"}

MutexTyped ==
  /\ spin \in {0, 1} /\ is_init \in {0, 1} /\ busy \in {0, 1} /\ inits \in Nat
  /\ pc \in [Threads -> Pcs]
  /\ op \in [Threads -> {"trylock", "lock", "unlock"}]
  /\ holds \in [Threads -> BOOLEAN]

\* Until the first initialisation nobody has got past it.
NobodyBefore ==
  inits = 0 =>
    /\ is_init = 0
    /\ \A t \in Threads : /\ ~holds[t]
                          /\ pc[t] \in {"idle", "load_init", "exchange", "init", "wait_init"}
                          /\ pc[t] = "wait_init" => busy = 1

\* The word of a mutex that was initialised at most once says whether it is held.
SpinIsTrue ==
  inits <= 1 => MutualExclusion /\ \A t \in Threads : holds[t] => spin = 1

\* Only its owner releases the mutex.
OwnersUnlock ==
  \A t \in Threads :
    /\ pc[t] = "spin" /\ op[t] = "unlock" => holds[t]
    /\ pc[t] \in InitPcs => op[t] # "unlock"

MutexInv == MutexTyped /\ NobodyBefore /\ SpinIsTrue /\ OwnersUnlock

LEMMA MutexInit == Init => MutexInv
  BY DEF Init, MutexInv, MutexTyped, NobodyBefore, SpinIsTrue, OwnersUnlock, MutualExclusion, Pcs, InitPcs

LEMMA MutexNext == MutexInv /\ [Next]_vars => MutexInv'
<1> SUFFICES ASSUME MutexInv, [Next]_vars PROVE MutexInv'
  OBVIOUS
<1> USE DEF MutexInv, MutexTyped, NobodyBefore, SpinIsTrue, OwnersUnlock, MutualExclusion,
        Pcs, InitPcs, Goto, mutex, caller, timing, exit
<1>1. ASSUME NEW t \in Threads, Call(t) PROVE MutexInv'
  BY <1>1 DEF Call
<1>2. ASSUME NEW t \in Threads, LoadInit(t) \/ Exchange(t) PROVE MutexInv'
  BY <1>2 DEF LoadInit, Exchange
<1>3. ASSUME NEW t \in Threads, SpinInit(t) PROVE MutexInv'
  BY <1>3 DEF SpinInit
<1>4. ASSUME NEW t \in Threads, MarkInit(t) \/ ClearBusy(t) \/ WaitInit(t) PROVE MutexInv'
  BY <1>4 DEF MarkInit, ClearBusy, WaitInit
<1>5. ASSUME NEW t \in Threads, Acquire(t) PROVE MutexInv'
  BY <1>5 DEF Acquire
<1>6. ASSUME NEW t \in Threads, Release(t) PROVE MutexInv'
  BY <1>6 DEF Release
<1>7. ASSUME NEW t \in Threads, NEW to \in Pcs \ (InitPcs \cup {"spin"}), UNCHANGED <<mutex, caller>>,
             pc' = [pc EXCEPT ![t] = to], pc[t] \notin InitPcs \cup {"idle", "spin"}
      PROVE MutexInv'
  BY <1>7
<1>10. ASSUME NEW t \in Threads,
              \/ Count(t) \/ RaiseIndex(t) \/ StoreTime(t) \/ TimingWarmup(t)
              \/ AddLoad(t) \/ AddCas(t) \/ CountWarmup(t)
       PROVE MutexInv'
  <2>1. UNCHANGED <<mutex, caller>> /\ pc[t] \notin InitPcs \cup {"idle", "spin"}
    BY <1>10 DEF Count, RaiseIndex, StoreTime, TimingWarmup, AddLoad, AddCas, CountWarmup
  <2>2. PICK to \in Pcs \ (InitPcs \cup {"spin"}) : pc' = [pc EXCEPT ![t] = to]
    BY <1>10 DEF Count, RaiseIndex, StoreTime, TimingWarmup, AddLoad, AddCas, CountWarmup
  <2> QED
    BY <1>7, <2>1, <2>2
<1>8. CASE Destructor
  <2>1. UNCHANGED <<mutex, pc, caller>>
    BY <1>8 DEF Destructor, DestroyTake, DestroyPrint, ThreadStatsOut, DestroyEnd
  <2> QED
    BY <2>1
<1>9. CASE UNCHANGED vars
  BY <1>9 DEF vars
<1> QED
  BY <1>1, <1>2, <1>3, <1>4, <1>5, <1>6, <1>8, <1>9, <1>10 DEF Next, Step

\* Two threads own the mutex only after it was initialised a second time, which
\* maybe_init() allows a thread that was delayed between its load and its exchange.
THEOREM ExclusiveUnlessInitialisedAgainHolds == Programs => []ExclusiveUnlessInitialisedAgain
<1>1. MutexInv => ExclusiveUnlessInitialisedAgain
  BY DEF MutexInv, SpinIsTrue, ExclusiveUnlessInitialisedAgain
<1> QED
  BY <1>1, MutexInit, MutexNext, InterposeRuns, PTL

-----------------------------------------------------------------------------
\* The links nx lead from head through f[n], f[n - 1], ... to f[1].
Chain(n, f, head, nx) ==
  /\ n \in Nat /\ f \in [1 .. n -> Threads]
  /\ \A i, j \in 1 .. n : f[i] = f[j] => i = j
  /\ head = IF n = 0 THEN NULL ELSE f[n]
  /\ \A i \in 1 .. n : nx[f[i]] = IF i = 1 THEN NULL ELSE f[i - 1]

Links == [Threads -> Threads \cup {NULL, END}]

\* A record that is not in the list is pushed in front of it ...
LEMMA ChainPush ==
  ASSUME NEW n, NEW f, NEW head, NEW nx \in Links, Chain(n, f, head, nx),
         NEW t \in Threads, \A i \in 1 .. n : f[i] # t
  PROVE  Chain(n + 1, [i \in 1 .. n + 1 |-> IF i = n + 1 THEN t ELSE f[i]], t, [nx EXCEPT ![t] = head])
  BY DEF Chain, Links

\* ... its link may change without harm ...
LEMMA ChainAside ==
  ASSUME NEW n, NEW f, NEW head, NEW nx \in Links, Chain(n, f, head, nx),
         NEW t \in Threads, NEW u, \A i \in 1 .. n : f[i] # t
  PROVE  Chain(n, f, head, [nx EXCEPT ![t] = u])
  BY DEF Chain, Links

\* ... and the walk goes on to the rest of the list.
LEMMA ChainPop ==
  ASSUME NEW n, NEW f, NEW head, NEW nx \in Links, Chain(n, f, head, nx), head # NULL
  PROVE  /\ n \in Nat \ {0} /\ f[n] = head /\ head \in Threads
         /\ Chain(n - 1, [i \in 1 .. n - 1 |-> f[i]], nx[head], nx)
  BY DEF Chain, Links

TimingTyped ==
  /\ pc \in [Threads -> Pcs]
  /\ warmup \in [Threads -> 0 .. I_WARMUP_CALLS]
  /\ thread_stats \in [Threads -> BOOLEAN]
  /\ stats_l \in Threads \cup {NULL, END}
  /\ expec \in Links /\ next \in Links
  /\ counted \in [Threads -> Nat] /\ history_idx \in [Threads -> Nat] /\ time_history \in [Threads -> SUBSET Int]
  /\ main \in {"running", "printing", "exiting"}
  /\ printed \in [Threads -> Nat] /\ no_times \in [Threads -> Nat]
  /\ owed \subseteq Threads /\ torn \subseteq Threads

\* The last slot of a record that has a time is filled, unless its thread is
\* about to do so.
LastTimed ==
  \A t \in Threads : time_history[t] # {} /\ pc[t] # "history" => LastSlot(t) \in time_history[t]

\* A thread registers its record once, before its warm-up goes on, and counts
\* nothing before.
Registers ==
  \A t \in Threads :
    /\ warmup[t] # I_WARMUP_CALLS => thread_stats[t]
    /\ time_history[t] # {} \/ pc[t] \in {"index", "history"} => thread_stats[t] /\ counted[t] > 0
    /\ pc[t] = "count_warmup" => thread_stats[t]
    /\ pc[t] \in {"add_load", "add_cas"} => ~thread_stats[t]
    /\ pc[t] \in {"add_load", "add_cas", "count_warmup"} => warmup[t] # 0
    /\ pc[t] = "add_cas" => expec[t] # END

InChain(n, f, t) == \E i \in 1 .. n : f[i] = t

\* What the destructor has made of a record.
Unread(t) == printed[t] = 0 /\ no_times[t] = 0
OneLine(t) == printed[t] + no_times[t] <= 1
Settled(t) == printed[t] = 1 \/ (no_times[t] = 1 /\ t \in torn)

\* Before the destructor the list has the registered records ...
ListComplete ==
  main = "running" =>
    /\ stats_l # END /\ owed = {} /\ \A t \in Threads : Unread(t)
    /\ \E n, f : Chain(n, f, stats_l, next) /\ \A t \in Threads : thread_stats[t] <=> InChain(n, f, t)

\* ... and while it walks, what is owed is settled or in the rest of the list.
WalkSound ==
  main = "printing" =>
    /\ stats_l = END
    /\ \A t \in owed : time_history[t] # {}
    /\ \A t \in Threads : OneLine(t)
    /\ \E n, f : /\ Chain(n, f, cur, next)
                 /\ \A t \in Threads : InChain(n, f, t) => thread_stats[t] /\ Unread(t)
                 /\ \A t \in owed : Settled(t) \/ InChain(n, f, t)

WalkDone ==
  main = "exiting" => stats_l = END /\ EachRecordPrintedOnce

RecordsInv == TimingTyped /\ LastTimed /\ Registers /\ ListComplete /\ WalkSound /\ WalkDone

LEMMA RecordsInit == Init => RecordsInv
<1> SUFFICES ASSUME Init PROVE RecordsInv
  OBVIOUS
<1>1. TimingTyped /\ LastTimed /\ Registers /\ WalkSound /\ WalkDone
  BY InterposeAssumption DEF Init, TimingTyped, LastTimed, Registers, WalkSound, WalkDone, Links, Pcs
<1>2. Chain(0, [i \in 1 .. 0 |-> NULL], NULL, next) /\ \A t \in Threads : ~InChain(0, [i \in 1 .. 0 |-> NULL], t)
  BY DEF Chain, InChain
<1>3. /\ stats_l = NULL /\ stats_l # END /\ owed = {}
      /\ \A t \in Threads : ~thread_stats[t] /\ Unread(t)
  BY InterposeAssumption DEF Init, Unread
<1>4. ListComplete
  BY <1>2, <1>3 DEF ListComplete
<1> QED
  BY <1>1, <1>4 DEF RecordsInv

\* Steps that touch neither the list nor what is printed.
LEMMA RecordsApart ==
  ASSUME RecordsInv, TimingTyped', LastTimed', Registers',
         UNCHANGED <<thread_stats, stats_l, next, main, cur, printed, no_times, owed, torn>>,
         \A t \in Threads : time_history[t] # {} => time_history'[t] # {}
  PROVE  RecordsInv'
<1> USE DEF Unread, OneLine, Settled
<1>1. ListComplete'
  BY DEF RecordsInv, ListComplete
<1>2. WalkSound'
  BY DEF RecordsInv, TimingTyped, WalkSound
<1>3. WalkDone'
  BY DEF RecordsInv, WalkDone, EachRecordPrintedOnce
<1> QED
  BY <1>1, <1>2, <1>3 DEF RecordsInv

LEMMA RecordsNext ==
  ASSUME I_WARMUP_CALLS > 0, RecordsInv, [Next]_vars PROVE RecordsInv'
<1> USE InterposeAssumption DEF Goto, mutex, caller, timing, figures, exit
<1>1. ASSUME NEW t \in Threads,
             Call(t) \/ LoadInit(t) \/ Exchange(t) \/ SpinInit(t) \/ MarkInit(t) \/ ClearBusy(t) \/ WaitInit(t)
               \/ Acquire(t) \/ Release(t)
      PROVE RecordsInv'
  <2>1. UNCHANGED <<timing, exit>>
    BY <1>1 DEF Call, LoadInit, Exchange, SpinInit, MarkInit, ClearBusy, WaitInit, Acquire, Release
  <2>2. \E to \in Pcs \ {"index", "history", "add_load", "add_cas", "count_warmup"} :
           pc' = [pc EXCEPT ![t] = to] /\ pc[t] # "history"
    BY <1>1 DEF Call, LoadInit, Exchange, SpinInit, MarkInit, ClearBusy, WaitInit, Acquire, Release, Pcs, InitPcs
  <2>3. TimingTyped' /\ Registers'
    BY <2>1, <2>2 DEF RecordsInv, TimingTyped, Registers
  <2>4. LastTimed'
    BY <2>1, <2>2 DEF RecordsInv, TimingTyped, LastTimed, LastSlot
  <2> QED
    BY <2>1, <2>3, <2>4, RecordsApart
<1>2. ASSUME NEW t \in Threads, Count(t) PROVE RecordsInv'
  <2>1. TimingTyped'
    BY <1>2 DEF Count, RecordsInv, TimingTyped, Pcs
  <2>2. Registers'
    BY <1>2 DEF Count, RecordsInv, TimingTyped, Registers
  <2>3. LastTimed'
    BY <1>2 DEF Count, RecordsInv, TimingTyped, LastTimed, LastSlot
  <2> QED
    BY <1>2, <2>1, <2>2, <2>3, RecordsApart DEF Count
<1>10. ASSUME NEW t \in Threads, RaiseIndex(t) PROVE RecordsInv'
  <2>1. TimingTyped'
    BY <1>10 DEF RaiseIndex, RecordsInv, TimingTyped, Pcs
  <2>2. Registers'
    BY <1>10 DEF RaiseIndex, RecordsInv, TimingTyped, Registers
  <2>3. LastTimed'
    BY <1>10 DEF RaiseIndex, RecordsInv, TimingTyped, LastTimed, LastSlot
  <2> QED
    BY <1>10, <2>1, <2>2, <2>3, RecordsApart DEF RaiseIndex
<1>11. ASSUME NEW t \in Threads, StoreTime(t) PROVE RecordsInv'
  <2>1. PICK last \in Int : last = LastSlot(t)
    BY DEF LastSlot, RecordsInv, TimingTyped
  <2>2. /\ pc[t] = "history" /\ pc' = [pc EXCEPT ![t] = "idle"]
        /\ time_history' = [time_history EXCEPT ![t] = @ \cup {last}]
        /\ UNCHANGED <<warmup, thread_stats, stats_l, expec, next, counted, history_idx, exit>>
    BY <1>11, <2>1 DEF StoreTime
  <2>3. TimingTyped'
    BY <2>2 DEF RecordsInv, TimingTyped, Pcs
  <2>4. Registers'
    BY <2>2 DEF RecordsInv, TimingTyped, Registers
  <2>5. \A u \in Threads : LastSlot(u)' = LastSlot(u)
    BY <2>2 DEF LastSlot
  <2>6. LastTimed'
    BY <2>1, <2>2, <2>5 DEF RecordsInv, TimingTyped, LastTimed
  <2>7. \A u \in Threads : time_history[u] # {} => time_history'[u] # {}
    BY <2>2 DEF RecordsInv, TimingTyped
  <2> QED
    BY <2>2, <2>3, <2>4, <2>6, <2>7, RecordsApart
<1>3. ASSUME NEW t \in Threads, TimingWarmup(t) \/ CountWarmup(t) PROVE RecordsInv'
  <2>1. TimingTyped' /\ Registers'
    BY <1>3 DEF TimingWarmup, CountWarmup, RecordsInv, TimingTyped, Registers, Pcs
  <2>2. LastTimed'
    BY <1>3 DEF TimingWarmup, CountWarmup, RecordsInv, TimingTyped, LastTimed, LastSlot
  <2> QED
    BY <1>3, <2>1, <2>2, RecordsApart DEF TimingWarmup, CountWarmup
<1>4. ASSUME NEW t \in Threads, AddLoad(t) PROVE RecordsInv'
  <2>1. TimingTyped' /\ Registers'
    BY <1>4 DEF AddLoad, RecordsInv, TimingTyped, Registers, Pcs, Links
  <2>2. LastTimed'
    BY <1>4 DEF AddLoad, RecordsInv, TimingTyped, LastTimed, LastSlot
  <2> QED
    BY <1>4, <2>1, <2>2, RecordsApart DEF AddLoad
<1>5. ASSUME NEW t \in Threads, AddCas(t) PROVE RecordsInv'
  <2>1. TimingTyped' /\ Registers'
    BY <1>5 DEF AddCas, RecordsInv, TimingTyped, Registers, Pcs, Links
  <2>2. /\ ~thread_stats[t] /\ next' = [next EXCEPT ![t] = expec[t]] /\ next \in Links
        /\ expec[t] # END /\ UNCHANGED <<main, cur, figures, exit>>
    BY <1>5 DEF AddCas, RecordsInv, TimingTyped, Registers
  <2>5. LastTimed'
    BY <1>5 DEF AddCas, RecordsInv, TimingTyped, LastTimed, LastSlot
  <2>6. \A u \in Threads : (Unread(u)' <=> Unread(u)) /\ (OneLine(u)' <=> OneLine(u)) /\ (Settled(u)' <=> Settled(u))
    BY <2>2 DEF Unread, OneLine, Settled
  <2>3. CASE stats_l = expec[t]
    <3>1. stats_l' = t /\ thread_stats' = [thread_stats EXCEPT ![t] = TRUE] /\ stats_l # END
      BY <1>5, <2>2, <2>3 DEF AddCas
    <3>2. main = "running"
      BY <3>1 DEF RecordsInv, TimingTyped, WalkSound, WalkDone
    <3>3. PICK n, f : Chain(n, f, stats_l, next) /\ \A u \in Threads : thread_stats[u] <=> InChain(n, f, u)
      BY <3>2 DEF RecordsInv, ListComplete
    <3> DEFINE g == [i \in 1 .. n + 1 |-> IF i = n + 1 THEN t ELSE f[i]]
    <3>4. \A i \in 1 .. n : f[i] # t
      BY <2>2, <3>3 DEF InChain
    <3>5. Chain(n + 1, g, stats_l', next')
      BY <2>2, <2>3, <3>1, <3>3, <3>4, ChainPush
    <3>6. \A u \in Threads : InChain(n + 1, g, u) <=> u = t \/ InChain(n, f, u)
      <4>1. n \in Nat
        BY <3>3 DEF Chain
      <4>2. n + 1 \in 1 .. n + 1 /\ g[n + 1] = t
        BY <4>1
      <4>3. \A i \in 1 .. n : i \in 1 .. n + 1 /\ g[i] = f[i]
        BY <4>1
      <4>4. \A i \in 1 .. n + 1 : i = n + 1 \/ i \in 1 .. n
        BY <4>1
      <4> HIDE DEF g
      <4> QED
        BY <4>2, <4>3, <4>4 DEF InChain
    <3>7. \A u \in Threads : thread_stats'[u] <=> InChain(n + 1, g, u)
      BY <3>1, <3>3, <3>6 DEF RecordsInv, TimingTyped
    <3>8. ListComplete'
      BY <2>2, <2>6, <3>1, <3>2, <3>5, <3>7 DEF RecordsInv, ListComplete
    <3> QED
      BY <2>1, <2>2, <2>5, <3>2, <3>8 DEF RecordsInv, WalkSound, WalkDone
  <2>4. CASE stats_l # expec[t]
    <3>1. stats_l' = stats_l /\ thread_stats' = thread_stats
      BY <1>5, <2>2, <2>4 DEF AddCas, RecordsInv, TimingTyped
    <3>2. ASSUME NEW n, NEW f, NEW head, Chain(n, f, head, next), ~InChain(n, f, t)
          PROVE Chain(n, f, head, next')
      BY <2>2, <3>2, ChainAside DEF InChain
    <3>3. ListComplete'
      BY <2>2, <2>6, <3>1, <3>2 DEF RecordsInv, ListComplete
    <3>4. ASSUME main = "printing" PROVE WalkSound'
      <4>1. PICK n, f : /\ Chain(n, f, cur, next)
                        /\ \A u \in Threads : InChain(n, f, u) => thread_stats[u] /\ Unread(u)
                        /\ \A u \in owed : Settled(u) \/ InChain(n, f, u)
        BY <3>4 DEF RecordsInv, WalkSound
      <4>2. Chain(n, f, cur, next')
        BY <2>2, <3>2, <4>1
      <4>3. /\ \A u \in Threads : InChain(n, f, u) => thread_stats'[u] /\ Unread(u)'
            /\ \A u \in owed : Settled(u)' \/ InChain(n, f, u)
        BY <2>6, <3>1, <4>1 DEF RecordsInv, TimingTyped
      <4>4. stats_l' = END /\ (\A u \in owed : time_history'[u] # {}) /\ \A u \in Threads : OneLine(u)'
        BY <2>2, <2>6, <3>1, <3>4 DEF RecordsInv, WalkSound
      <4> QED
        BY <2>2, <4>2, <4>3, <4>4 DEF WalkSound
    <3>5. WalkDone'
      BY <2>2, <3>1 DEF RecordsInv, WalkDone, EachRecordPrintedOnce
    <3> QED
      BY <2>1, <2>2, <2>5, <3>3, <3>4, <3>5 DEF RecordsInv, WalkSound
  <2> QED
    BY <2>3, <2>4
<1>6. CASE DestroyTake
  <2>1. TimingTyped' /\ Registers' /\ ListComplete' /\ WalkDone'
    BY <1>6 DEF DestroyTake, RecordsInv, TimingTyped, Registers, ListComplete, WalkDone
  <2>2. LastTimed'
    BY <1>6 DEF DestroyTake, RecordsInv, LastTimed, LastSlot
  <2>3. PICK n, f : Chain(n, f, stats_l, next) /\ \A u \in Threads : thread_stats[u] <=> InChain(n, f, u)
    BY <1>6 DEF DestroyTake, RecordsInv, ListComplete
  <2>4. \A u \in Threads : Unread(u)' /\ OneLine(u)'
    BY <1>6 DEF DestroyTake, RecordsInv, ListComplete, Unread, OneLine
  <2>5. /\ main' = "printing" /\ stats_l' = END /\ cur' = stats_l
        /\ owed' = {u \in Threads : time_history[u] # {}} /\ UNCHANGED <<next, thread_stats, time_history>>
    BY <1>6 DEF DestroyTake
  <2>6. \A u \in owed' : time_history'[u] # {} /\ InChain(n, f, u)
    BY <2>3, <2>5 DEF RecordsInv, Registers
  <2>7. WalkSound'
    BY <2>3, <2>4, <2>5, <2>6 DEF WalkSound
  <2> QED
    BY <2>1, <2>2, <2>7 DEF RecordsInv
<1>7. CASE DestroyPrint
  <2> USE DEF DestroyPrint, ThreadStatsOut
  <2>1. PICK n, f : /\ Chain(n, f, cur, next)
                    /\ \A t \in Threads : InChain(n, f, t) => thread_stats[t] /\ Unread(t)
                    /\ \A t \in owed : Settled(t) \/ InChain(n, f, t)
    BY <1>7 DEF RecordsInv, WalkSound
  <2> DEFINE g == [i \in 1 .. n - 1 |-> f[i]]
  <2>2. n \in Nat \ {0} /\ f[n] = cur /\ cur \in Threads /\ Chain(n - 1, g, cur', next')
    BY <1>7, <2>1, ChainPop DEF RecordsInv, TimingTyped
  <2>3. \A t \in Threads : InChain(n, f, t) <=> t = cur \/ InChain(n - 1, g, t)
    BY <2>2 DEF InChain
  <2>4. ~InChain(n - 1, g, cur)
    BY <2>1, <2>2 DEF InChain, Chain
  <2> HIDE DEF g
  <2>5. printed[cur] = 0 /\ no_times[cur] = 0 /\ thread_stats[cur]
    BY <2>1, <2>2, <2>3 DEF Unread
  <2>6. PICK figured, missed \in {0, 1} :
          /\ printed' = [printed EXCEPT ![cur] = figured] /\ no_times' = [no_times EXCEPT ![cur] = missed]
          /\ figured + missed <= 1
          /\ figured = 1 <=> counted[cur] > 0 /\ LastSlot(cur) \in time_history[cur]
          /\ missed = 1 <=> counted[cur] > 0 /\ LastSlot(cur) \notin time_history[cur]
    <3> DEFINE timed == LastSlot(cur) \in time_history[cur]
               Lines(figured, missed) ==
                 printed' = [printed EXCEPT ![cur] = figured] /\ no_times' = [no_times EXCEPT ![cur] = missed]
    <3>1. /\ printed' = [printed EXCEPT ![cur] = IF counted[cur] > 0 /\ timed THEN @ + 1 ELSE @]
          /\ no_times' = [no_times EXCEPT ![cur] = IF counted[cur] > 0 /\ ~timed THEN @ + 1 ELSE @]
      BY <1>7
    <3>8. printed[cur] + 1 = 1 /\ no_times[cur] + 1 = 1
      BY <2>5
    <3> HIDE DEF timed
    <3>2. ASSUME counted[cur] > 0, timed PROVE Lines(1, 0)
      <4>1. printed' = [printed EXCEPT ![cur] = 1]
        BY <2>5, <3>1, <3>8, <3>2
      <4>2. no_times' = [no_times EXCEPT ![cur] = 0]
        BY <2>5, <3>1, <3>8, <3>2
      <4> QED
        BY <4>1, <4>2
    <3>3. ASSUME counted[cur] > 0, ~timed PROVE Lines(0, 1)
      <4>1. printed' = [printed EXCEPT ![cur] = 0]
        BY <2>5, <3>1, <3>8, <3>3
      <4>2. no_times' = [no_times EXCEPT ![cur] = 1]
        BY <2>5, <3>1, <3>8, <3>3
      <4> QED
        BY <4>1, <4>2
    <3>4. ASSUME ~(counted[cur] > 0) PROVE Lines(0, 0)
      BY <2>5, <3>1, <3>4
    <3>5. CASE counted[cur] > 0 /\ timed
      BY <3>2, <3>5 DEF timed
    <3>6. CASE counted[cur] > 0 /\ ~timed
      BY <3>3, <3>6 DEF timed
    <3>7. CASE ~(counted[cur] > 0)
      BY <3>4, <3>7
    <3> QED
      BY <3>5, <3>6, <3>7
  <2>7. UNCHANGED <<main, stats_l, owed, thread_stats, time_history, counted, pc, warmup, expec, next, history_idx>>
    BY <1>7
  <2>8. /\ torn \subseteq torn' /\ torn' \subseteq Threads
        /\ pc[cur] = "history" => cur \in torn'
    BY <1>7, <2>2 DEF RecordsInv, TimingTyped
  <2>9. TimingTyped'
    <3>1. cur' \in Threads \cup {NULL, END}
      BY <1>7, <2>2 DEF RecordsInv, TimingTyped, Links
    <3> QED
      BY <2>2, <2>6, <2>7, <2>8, <3>1 DEF RecordsInv, TimingTyped
  <2>10. Registers' /\ ListComplete' /\ WalkDone'
    BY <1>7, <2>7 DEF RecordsInv, Registers, ListComplete, WalkDone
  <2>11. LastTimed'
    BY <2>7 DEF RecordsInv, LastTimed, LastSlot
  <2>12. \A t \in Threads \ {cur} : /\ printed'[t] = printed[t] /\ no_times'[t] = no_times[t]
    BY <2>2, <2>6 DEF RecordsInv, TimingTyped
  <2>13. printed'[cur] = figured /\ no_times'[cur] = missed
    BY <2>2, <2>6 DEF RecordsInv, TimingTyped
  <2>14. \A t \in Threads : OneLine(t)' /\ (InChain(n - 1, g, t) => thread_stats[t] /\ Unread(t)')
    BY <1>7, <2>1, <2>3, <2>4, <2>6, <2>12, <2>13 DEF RecordsInv, WalkSound, OneLine, Unread
  <2>15. ASSUME NEW c \in owed, c = cur PROVE Settled(c)'
    <3>1. time_history[cur] # {} /\ counted[cur] > 0
      BY <1>7, <2>2, <2>15 DEF RecordsInv, WalkSound, Registers
    <3>2. pc[cur] # "history" => LastSlot(cur) \in time_history[cur]
      BY <2>2, <3>1 DEF RecordsInv, LastTimed
    <3>3. CASE pc[cur] = "history"
      <4>1. figured = 1 \/ missed = 1
        BY <2>6, <3>1
      <4> QED
        BY <2>8, <2>13, <2>15, <3>3, <4>1 DEF Settled
    <3>4. CASE pc[cur] # "history"
      <4>1. figured = 1
        BY <2>6, <3>1, <3>2, <3>4
      <4> QED
        BY <2>13, <2>15, <4>1 DEF Settled
    <3> QED
      BY <3>3, <3>4
  <2>16. \A t \in owed : Settled(t)' \/ InChain(n - 1, g, t)
    <3>1. owed \subseteq Threads
      BY DEF RecordsInv, TimingTyped
    <3>2. \A t \in owed \ {cur} : Settled(t) => Settled(t)'
      BY <2>8, <2>12, <3>1 DEF Settled
    <3> QED
      BY <2>1, <2>3, <2>15, <3>1, <3>2
  <2>17. WalkSound'
    BY <1>7, <2>2, <2>7, <2>14, <2>16 DEF RecordsInv, WalkSound
  <2> QED
    BY <2>9, <2>10, <2>11, <2>17 DEF RecordsInv
<1>8. CASE DestroyEnd
  <2>1. PICK n, f : Chain(n, f, cur, next) /\ \A t \in owed : Settled(t) \/ InChain(n, f, t)
    BY <1>8 DEF DestroyEnd, RecordsInv, WalkSound
  <2>2. \A t \in owed : Settled(t)
    BY <1>8, <2>1 DEF DestroyEnd, Chain, InChain
  <2>3. WalkDone'
    BY <1>8, <2>2 DEF DestroyEnd, RecordsInv, TimingTyped, WalkSound, WalkDone, EachRecordPrintedOnce, OneLine, Settled
  <2>4. LastTimed'
    BY <1>8 DEF DestroyEnd, RecordsInv, LastTimed, LastSlot
  <2> QED
    BY <1>8, <2>3, <2>4 DEF DestroyEnd, RecordsInv, TimingTyped, Registers, ListComplete, WalkSound
<1>9. CASE UNCHANGED vars
  <2>1. TimingTyped' /\ Registers'
    BY <1>9 DEF vars, RecordsInv, TimingTyped, Registers
  <2>2. LastTimed'
    BY <1>9 DEF vars, RecordsInv, LastTimed, LastSlot
  <2> QED
    BY <1>9, <2>1, <2>2, RecordsApart DEF vars
<1> QED
  BY <1>1, <1>2, <1>3, <1>4, <1>5, <1>6, <1>7, <1>8, <1>9, <1>10, <1>11 DEF Next, Step, Destructor

\* However threads register their records and store to them while the destructor
\* takes and walks the list, each record that had a time then gets one line, with
\* its figures unless it was read between two stores of its thread.
THEOREM EachRecordPrintedOnceHolds ==
  ASSUME I_WARMUP_CALLS > 0 PROVE Programs => []EachRecordPrintedOnce
<1>1. RecordsInv => EachRecordPrintedOnce
  BY DEF RecordsInv, TimingTyped, ListComplete, WalkSound, WalkDone, EachRecordPrintedOnce, Unread, OneLine
<1> QED
  BY <1>1, RecordsInit, RecordsNext, InterposeRuns, PTL

-----------------------------------------------------------------------------
\* The workers of a trial go through its stages together: they are created and
\* wait at the first barrier, wait while one initialises the lock, work and
\* wait for the last, and exit.
Workers == Bench!Workers
Waiting == {"at_start", "at_ready", "at_finish"}
Starting == {"start", "at_start"}
Initing == {"init", "ready", "at_ready"}
Critical == {"check", "cs", "store", "unlock", "break"}
Working == Critical \cup {"lock", "finish", "at_finish"}
Ending == {"destroy", "exited"}
BenchPcs == {"none"} \cup Starting \cup Initing \cup Working \cup Ending

LockWord == lock[0]
LockStates == {Bench!Zero, Bench!Free, Bench!Destroyed} \cup {Bench!Held(t) : t \in Workers}

BenchTyped ==
  /\ bench_main \in {"cpus", "died", "reset", "create", "join", "check", "done"}
  /\ bench_j \in 0 .. num_threads
  /\ bench_pc \in [Workers -> BenchPcs]
  /\ lock \in [Bench!Locks -> LockStates]
  /\ global_state \in Nat
  /\ is_unique \in [Workers -> BOOLEAN]
  /\ iter \in [Workers -> 0 .. outer_iter]
  /\ work \in [Workers -> 0 .. cs_iter]
  /\ reg \in [Workers -> Nat]

\* Where the workers can be at each point of main() ...
Created ==
  /\ bench_main \notin {"create", "join"} => \A t \in Workers : bench_pc[t] = "none"
  /\ bench_main \in {"create", "join"} => bench_j < num_threads
  /\ bench_main = "create" =>
       \A t \in Workers : bench_pc[t] \in IF t <= bench_j THEN Starting ELSE {"none"}
  /\ bench_main = "join" =>
       \A t \in Workers : /\ bench_pc[t] = "none" <=> t <= bench_j
                          /\ bench_j > 0 /\ t > bench_j => bench_pc[t] \in Ending

\* ... and that they share a stage; who has come to a barrier has not left it.
Together ==
  /\ arrived = {t \in Workers : bench_pc[t] \in Waiting}
  /\ \A t, u \in Workers :
       /\ bench_pc[t] \in Initing => bench_pc[u] \in Initing
       /\ bench_pc[t] \in Working => bench_pc[u] \in Working
       /\ bench_pc[t] \in Ending => bench_pc[u] \in Ending \cup {"none"}

\* The last barrier that opened told one thread that it is unique.
OneUnique ==
  (\E t \in Workers : bench_pc[t] \in Initing \cup Working \cup Ending) =>
    \E u \in Workers : \A t \in Workers : is_unique[t] <=> t = u

\* The lock is free once the unique thread is ready, and then says who is in the
\* critical section.
LockTrue ==
  \A t \in Workers :
    /\ is_unique[t] /\ bench_pc[t] \in {"ready", "at_ready"} => LockWord = Bench!Free
    /\ bench_pc[t] \in Working => LockWord = Bench!Free \/ \E u \in Workers : LockWord = Bench!Held(u)
    /\ bench_pc[t] \in Critical <=> LockWord = Bench!Held(t)

\* The loop counters where they are used.
Loops ==
  \A t \in Workers :
    /\ bench_pc[t] \in {"ready", "at_ready"} => iter[t] = outer_iter
    /\ bench_pc[t] \in {"lock"} \cup Critical => iter[t] # 0
    /\ bench_pc[t] = "store" => work[t] # 0 /\ reg[t] = global_state
    /\ bench_pc[t] = "unlock" => work[t] = 0

\* Once a thread has found the total work done, it is and stays done.
TotalCounted ==
  bench_type = 0 =>
    /\ \A t \in Workers : bench_pc[t] \in {"break", "finish", "at_finish"} \cup Ending =>
         /\ global_state = outer_iter
         /\ \A u \in Workers : bench_pc[u] \notin {"cs", "store", "unlock"}
    /\ bench_main = "check" => global_state = outer_iter

\* The increments of the other benchmark, and those that were made: the iterations
\* that are over, and what the loop of the critical section has behind it.
Increments == (Workers \X (1 .. outer_iter)) \X (1 .. cs_iter)
Made(t, i, k) ==
  i > iter[t] \/ (i = iter[t] /\ bench_pc[t] \in {"cs", "store", "unlock"} /\ k > work[t])
AllMade == {e \in Increments : Made(e[1][1], e[1][2], e[2])}

EachCounted ==
  bench_type # 0 =>
    /\ bench_main = "create" => global_state = 0
    /\ \A t \in Workers :
         /\ bench_pc[t] \notin {"check", "break"}
         /\ bench_pc[t] \in {"finish", "at_finish"} => iter[t] = 0
         /\ bench_pc[t] \in Starting \cup Initing => global_state = 0
         /\ bench_pc[t] \in Working => global_state = Cardinality(AllMade)
         /\ bench_pc[t] \in Ending => global_state = num_threads * outer_iter * cs_iter
    /\ bench_main = "check" => global_state = num_threads * outer_iter * cs_iter

BenchInv ==
  BenchTyped /\ Created /\ Together /\ OneUnique /\ LockTrue /\ Loops /\ TotalCounted /\ EachCounted

-----------------------------------------------------------------------------
LEMMA BenchConstants ==
  /\ num_threads \in Nat \ {0} /\ outer_iter \in Nat \ {0} /\ cs_iter \in Nat /\ MAX_STATE \in Nat
  /\ num_threads * outer_iter * cs_iter < MAX_STATE
  /\ 0 \in Bench!Locks /\ Bench!num_locks = 0 /\ Bench!idx = 0 /\ Workers = 1 .. num_threads
  /\ Bench!BENCH_TOTAL_WORK = 0
  BY ProgramsAssumption
     DEF Bench!LockBenchAssumption, Bench!Locks, Bench!num_locks, Bench!BENCH_TOTAL_WORK, Bench!idx, Workers,
         Bench!Workers

\* The states of a lock are different.
LEMMA LockStatesDiffer ==
  /\ \A t, u : Bench!Held(t) = Bench!Held(u) => t = u
  /\ \A t : Bench!Held(t) \notin {Bench!Zero, Bench!Free, Bench!Destroyed}
<1>1. ASSUME NEW t, NEW u, Bench!Held(t) = Bench!Held(u) PROVE t = u
  BY <1>1 DEF Bench!Held
<1>2. ASSUME NEW t, NEW x, <<"held", t>> = <<x>> PROVE FALSE
  <2>1. Len(<<"held", t>>) = 2 /\ Len(<<x>>) = 1
    OBVIOUS
  <2> QED
    BY <1>2, <2>1
<1> QED
  BY <1>1, <1>2 DEF Bench!Held, Bench!Zero, Bench!Free, Bench!Destroyed

\* A step of one worker within its stage.
LEMMA StageMove ==
  ASSUME BenchTyped, Created, Together, OneUnique, NEW t \in Workers, NEW to,
         bench_pc' = [bench_pc EXCEPT ![t] = to], UNCHANGED <<bench_main, bench_j, is_unique>>,
         arrived' = {u \in Workers : bench_pc'[u] \in Waiting},
         \/ bench_pc[t] \in Starting /\ to \in Starting
         \/ bench_pc[t] \in Initing /\ to \in Initing
         \/ bench_pc[t] \in Working /\ to \in Working
         \/ bench_pc[t] \in Ending /\ to \in Ending
  PROVE  Created' /\ Together' /\ OneUnique'
<1>1. /\ bench_pc'[t] = to /\ \A u \in Workers \ {t} : bench_pc'[u] = bench_pc[u]
      /\ bench_pc[t] # "none" /\ to # "none"
      /\ bench_pc[t] \in Starting <=> to \in Starting
      /\ bench_pc[t] \in Initing <=> to \in Initing
      /\ bench_pc[t] \in Working <=> to \in Working
      /\ bench_pc[t] \in Ending <=> to \in Ending
  BY DEF BenchTyped, Starting, Initing, Working, Critical, Ending
<1>2. \A u \in Workers : /\ bench_pc[u] = "none" <=> bench_pc'[u] = "none"
                         /\ bench_pc[u] \in Starting <=> bench_pc'[u] \in Starting
                         /\ bench_pc[u] \in Initing <=> bench_pc'[u] \in Initing
                         /\ bench_pc[u] \in Working <=> bench_pc'[u] \in Working
                         /\ bench_pc[u] \in Ending <=> bench_pc'[u] \in Ending
  BY <1>1
<1>3. Created'
  <2>1. \A u \in Workers : bench_pc[u] \in {"none"} <=> bench_pc'[u] \in {"none"}
    BY <1>2
  <2> QED
    BY <1>2, <2>1 DEF Created
<1>4. Together'
  BY <1>2 DEF Together
<1>5. OneUnique'
  BY <1>2 DEF OneUnique
<1> QED
  BY <1>3, <1>4, <1>5

\* When a worker is the last to come to a barrier, all others wait there.
LEMMA LastToArrive ==
  ASSUME BenchTyped, Created, Together, NEW t \in Workers, NEW at,
         <<bench_pc[t], at>> \in {<<"start", "at_start">>, <<"ready", "at_ready">>, <<"finish", "at_finish">>},
         arrived \cup {t} = Workers
  PROVE  /\ bench_main = "join" /\ bench_j = 0
         /\ \A u \in Workers \ {t} : bench_pc[u] = at
<1>1. \A u \in Workers \ {t} : bench_pc[u] \in Waiting
  BY DEF Together
<1>2. bench_pc[t] \in {"start", "ready", "finish"}
  OBVIOUS
<1>3. bench_main # "create"
  <2> SUFFICES ASSUME bench_main = "create" PROVE FALSE
    OBVIOUS
  <2>1. num_threads \in Workers /\ bench_j < num_threads /\ bench_j \in Nat /\ ~(num_threads <= bench_j)
    BY BenchConstants DEF Created, BenchTyped
  <2>2. bench_pc[num_threads] = "none"
    BY <2>1 DEF Created
  <2> QED
    BY <1>1, <1>2, <2>1, <2>2 DEF Waiting
<1>4. bench_main = "join"
  BY <1>2, <1>3 DEF Created
<1>5. bench_pc[t] \notin Ending \cup {"none"}
  BY <1>2 DEF Ending
<1>6. bench_j = 0
  BY <1>4, <1>5, BenchConstants DEF Created, BenchTyped
<1>7. ASSUME NEW u \in Workers \ {t} PROVE bench_pc[u] = at
  <2>1. /\ bench_pc[t] \in Initing <=> bench_pc[u] \in Initing
        /\ bench_pc[t] \in Working <=> bench_pc[u] \in Working
    BY DEF Together
  <2> QED
    BY <1>1, <2>1 DEF Waiting, Initing, Working, Critical
<1> QED
  BY <1>4, <1>6, <1>7

\* A barrier opens.
LEMMA StageEnds ==
  ASSUME BenchTyped, bench_main = "join", bench_j = 0, UNCHANGED <<bench_main, bench_j>>, arrived' = {},
         NEW to \in {"init", "lock", "destroy"}, bench_pc' = [u \in Workers |-> to],
         NEW unique \in Workers, is_unique' = [u \in Workers |-> u = unique]
  PROVE  Created' /\ Together' /\ OneUnique'
<1> USE BenchConstants DEF BenchTyped, Starting, Initing, Working, Critical, Ending, BenchPcs, Waiting
<1>1. \A u \in Workers : bench_pc'[u] = to /\ (is_unique'[u] <=> u = unique)
  OBVIOUS
<1>2. Created'
  BY <1>1 DEF Created
<1>3. Together'
  BY <1>1 DEF Together
<1>4. OneUnique'
  BY <1>1 DEF OneUnique
<1> QED
  BY <1>2, <1>3, <1>4

-----------------------------------------------------------------------------
\* The increments made are the same when every worker's are.
LEMMA SameMade ==
  ASSUME \A t \in Workers, i \in 1 .. outer_iter, k \in 1 .. cs_iter : Made(t, i, k)' <=> Made(t, i, k)
  PROVE  AllMade' = AllMade
  BY DEF AllMade, Increments

LEMMA IncrementsFinite ==
  /\ IsFiniteSet(Increments) /\ Cardinality(Increments) = num_threads * outer_iter * cs_iter
  /\ IsFiniteSet(AllMade) /\ Cardinality(AllMade) \in Nat
<1>0. ASSUME NEW n \in Nat PROVE IsFiniteSet(1 .. n) /\ Cardinality(1 .. n) = n
  <2>1. IsFiniteSet(1 .. n) /\ Cardinality(1 .. n) = IF 1 > n THEN 0 ELSE n - 1 + 1
    BY FS_Interval
  <2> QED
    BY <2>1
<1>1. /\ IsFiniteSet(Workers) /\ Cardinality(Workers) = num_threads
      /\ IsFiniteSet(1 .. outer_iter) /\ Cardinality(1 .. outer_iter) = outer_iter
      /\ IsFiniteSet(1 .. cs_iter) /\ Cardinality(1 .. cs_iter) = cs_iter
  BY <1>0, BenchConstants
<1>2. /\ IsFiniteSet(Workers \X (1 .. outer_iter))
      /\ Cardinality(Workers \X (1 .. outer_iter)) = num_threads * outer_iter
  BY <1>1, FS_Product
<1>3. IsFiniteSet(Increments) /\ Cardinality(Increments) = num_threads * outer_iter * cs_iter
  <2>1. /\ IsFiniteSet(Increments)
        /\ Cardinality(Increments) = Cardinality(Workers \X (1 .. outer_iter)) * Cardinality(1 .. cs_iter)
    BY <1>1, <1>2, FS_Product, Zenon DEF Increments
  <2> QED
    BY <1>1, <1>2, <2>1, Zenon
<1>4. AllMade \in SUBSET Increments
  BY DEF AllMade
<1> QED
  BY <1>3, <1>4, FS_Subset, FS_CardinalityType

\* One more increment.
LEMMA MakeOne ==
  ASSUME NEW t \in Workers, NEW i \in 1 .. outer_iter, NEW k \in 1 .. cs_iter, ~Made(t, i, k),
         \A u \in Workers, m \in 1 .. outer_iter, n \in 1 .. cs_iter :
           Made(u, m, n)' <=> Made(u, m, n) \/ (u = t /\ m = i /\ n = k)
  PROVE  /\ Cardinality(AllMade') = Cardinality(AllMade) + 1
         /\ Cardinality(AllMade) < num_threads * outer_iter * cs_iter
<1> DEFINE e == <<<<t, i>>, k>>
<1>1. e \in Increments /\ e \notin AllMade
  BY DEF AllMade, Increments
<1>2. AllMade' = AllMade \cup {e}
  BY DEF AllMade, Increments
<1> HIDE DEF e
<1>3. Cardinality(AllMade \cup {e}) = Cardinality(AllMade) + 1
  BY <1>1, IncrementsFinite, FS_AddElement
<1>4. AllMade \cup {e} \in SUBSET Increments
  BY <1>1 DEF AllMade
<1>5. Cardinality(AllMade \cup {e}) <= Cardinality(Increments)
  BY <1>4, IncrementsFinite, FS_Subset
<1>6. Cardinality(AllMade') = Cardinality(AllMade) + 1
  BY <1>2, <1>3
<1>7. Cardinality(AllMade) < Cardinality(Increments)
  BY <1>3, <1>5, IncrementsFinite, FS_CardinalityType
<1> QED
  BY <1>6, <1>7, IncrementsFinite

LEMMA BenchInvInit == Bench!Init => BenchInv
<1> SUFFICES ASSUME Bench!Init PROVE BenchInv
  OBVIOUS
<1> USE BenchConstants DEF Bench!Init
<1>1. \A t \in Workers : bench_pc[t] = "none"
  BY DEF Workers
<1>2. BenchTyped
  BY DEF BenchTyped, BenchPcs, LockStates, Workers
<1>3. Created /\ Together /\ OneUnique
  BY <1>1 DEF Created, Together, OneUnique, Waiting, Initing, Working, Critical, Ending
<1>4. LockWord = Bench!Zero
  BY DEF LockWord
<1>5. LockTrue /\ Loops /\ TotalCounted /\ EachCounted
  BY <1>1, <1>4, LockStatesDiffer DEF LockTrue, Loops, TotalCounted, EachCounted, Starting, Initing, Working, Critical, Ending
<1> QED
  BY <1>2, <1>3, <1>5 DEF BenchInv

-----------------------------------------------------------------------------
\* main() makes its steps while no worker is in a trial, or all are starting or ending.
LEMMA MainNext == ASSUME BenchInv, Bench!Main PROVE BenchInv'
<1> USE BenchConstants DEF BenchInv, Bench!config, Bench!locals
<1>1. CASE Bench!SetAllowable
  <2>1. /\ bench_main = "cpus" /\ bench_main' \in {"died", "reset"}
        /\ UNCHANGED <<bench_type, bench_j, lock, global_state, arrived, bench_pc, is_unique, iter, work, reg>>
    BY <1>1 DEF Bench!SetAllowable
  <2>2. BenchTyped'
    BY <2>1 DEF BenchTyped
  <2>3. Created' /\ Together' /\ OneUnique'
    BY <2>1 DEF Created, Together, OneUnique
  <2>4. LockTrue' /\ Loops' /\ TotalCounted'
    BY <2>1 DEF LockTrue, LockWord, Loops, TotalCounted
  <2>5. AllMade' = AllMade
    BY <2>1 DEF AllMade, Made
  <2>6. EachCounted'
    BY <2>1, <2>5 DEF EachCounted
  <2> QED
    BY <2>2, <2>3, <2>4, <2>6
<1>2. CASE Bench!Reset
  <2>1. /\ bench_main = "reset" /\ bench_main' = "create" /\ bench_j' = 0 /\ global_state' = 0
        /\ lock' = [l \in Bench!Locks |-> Bench!Zero]
        /\ UNCHANGED <<bench_type, arrived, bench_pc, is_unique, iter, work, reg>>
    BY <1>2 DEF Bench!Reset
  <2>2. \A t \in Workers : bench_pc[t] = "none" /\ bench_pc'[t] = "none"
    BY <2>1 DEF Created
  <2>3. BenchTyped'
    BY <2>1 DEF BenchTyped, LockStates
  <2>4. Created' /\ Together' /\ OneUnique'
    BY <2>1, <2>2 DEF Created, Together, OneUnique, Waiting, Initing, Working, Critical, Ending
  <2>5. LockWord' = Bench!Zero
    BY <2>1 DEF LockWord
  <2>6. LockTrue' /\ Loops' /\ TotalCounted' /\ EachCounted'
    BY <2>1, <2>2, <2>5, LockStatesDiffer
       DEF LockTrue, Loops, TotalCounted, EachCounted, Starting, Initing, Working, Critical, Ending
  <2> QED
    BY <2>3, <2>4, <2>6
<1>3. CASE Bench!Create
  <2> DEFINE t == bench_j + 1
  <2>1. /\ bench_main = "create" /\ bench_pc' = [bench_pc EXCEPT ![t] = "start"]
        /\ IF t = num_threads THEN bench_main' = "join" /\ bench_j' = 0
           ELSE bench_main' = "create" /\ bench_j' = t
        /\ UNCHANGED <<bench_type, lock, global_state, arrived, is_unique, iter, work, reg>>
    BY <1>3 DEF Bench!Create
  <2>2. t \in Workers /\ bench_j \in Nat /\ bench_j < num_threads
    BY <2>1 DEF BenchTyped, Created
  <2>3. \A u \in Workers : /\ bench_pc[u] \in IF u <= bench_j THEN Starting ELSE {"none"}
                           /\ bench_pc'[u] = IF u = t THEN "start" ELSE bench_pc[u]
    BY <2>1 DEF BenchTyped, Created
  <2> HIDE DEF t
  <2>4. \A u \in Workers : bench_pc'[u] \in IF u <= t THEN Starting ELSE {"none"}
    BY <2>2, <2>3 DEF t, Starting
  <2>5. \A u \in Workers : /\ bench_pc[u] \in Starting \cup {"none"} /\ bench_pc'[u] \in Starting \cup {"none"}
                           /\ bench_pc[u] \in Waiting <=> bench_pc'[u] \in Waiting
    BY <2>2, <2>3 DEF t, Starting, Waiting
  <2>6. BenchTyped'
    <3>1. bench_j' \in 0 .. num_threads /\ bench_main' \in {"create", "join"}
      BY <2>1, <2>2
    <3>2. bench_pc' \in [Workers -> BenchPcs]
      BY <2>1 DEF BenchTyped, BenchPcs, Starting
    <3> QED
      BY <2>1, <3>1, <3>2 DEF BenchTyped
  <2>7. Created'
    <3>1. CASE t = num_threads
      <4>1. \A u \in Workers : u <= t /\ bench_pc'[u] # "none" /\ ~(u <= 0)
        BY <2>4, <3>1 DEF Starting
      <4> QED
        BY <2>1, <3>1, <4>1 DEF Created
    <3>2. CASE t # num_threads
      BY <2>1, <2>2, <2>4, <3>2 DEF Created
    <3> QED
      BY <3>1, <3>2
  <2>8. Together' /\ OneUnique'
    BY <2>1, <2>5 DEF Together, OneUnique, Starting, Initing, Working, Critical, Ending
  <2>9. LockTrue' /\ Loops' /\ TotalCounted' /\ EachCounted'
    BY <2>1, <2>5 DEF LockTrue, LockWord, Loops, TotalCounted, EachCounted, Starting, Initing, Working, Critical, Ending
  <2> QED
    BY <2>6, <2>7, <2>8, <2>9
<1>4. CASE Bench!Join
  <2> DEFINE t == bench_j + 1
  <2>1. /\ bench_main = "join" /\ bench_pc[t] = "exited" /\ bench_pc' = [bench_pc EXCEPT ![t] = "none"]
        /\ bench_j' = t /\ bench_main' = IF t = num_threads THEN "check" ELSE "join"
        /\ UNCHANGED <<bench_type, lock, global_state, arrived, is_unique, iter, work, reg>>
    BY <1>4 DEF Bench!Join
  <2>2. t \in Workers /\ bench_j \in Nat /\ bench_j < num_threads
    BY <2>1 DEF BenchTyped, Created
  <2>3. \A u \in Workers : bench_pc'[u] = IF u = t THEN "none" ELSE bench_pc[u]
    BY <2>1 DEF BenchTyped
  <2>4. \A u \in Workers : IF u <= bench_j THEN bench_pc[u] = "none" ELSE bench_pc[u] \in Ending
    <3>1. \A u \in Workers : bench_pc[u] \in Ending \cup {"none"}
      BY <2>1, <2>2 DEF Together, Ending
    <3> QED
      BY <2>1, <3>1 DEF Created, Ending
  <2> HIDE DEF t
  <2>5. \A u \in Workers : IF u <= t THEN bench_pc'[u] = "none" ELSE bench_pc'[u] \in Ending
    BY <2>2, <2>3, <2>4 DEF t
  <2>6. \A u \in Workers : bench_pc[u] \in Ending \cup {"none"} /\ bench_pc'[u] \in Ending \cup {"none"}
    BY <2>4, <2>5
  <2>7. BenchTyped'
    <3>1. bench_j' \in 0 .. num_threads /\ bench_main' \in {"check", "join"}
      BY <2>1, <2>2
    <3>2. bench_pc' \in [Workers -> BenchPcs]
      BY <2>1 DEF BenchTyped, BenchPcs
    <3> QED
      BY <2>1, <3>1, <3>2 DEF BenchTyped
  <2>8. Created'
    <3>1. CASE t = num_threads
      <4>1. \A u \in Workers : bench_pc'[u] = "none"
        BY <2>5, <3>1
      <4> QED
        BY <2>1, <3>1, <4>1 DEF Created
    <3>2. CASE t # num_threads
      BY <2>1, <2>2, <2>5, <3>2 DEF Created, t, Ending
    <3> QED
      BY <3>1, <3>2
  <2>9. Together' /\ OneUnique'
    <3>1. arrived = {} /\ \A u \in Workers : bench_pc'[u] \notin Waiting
      BY <2>6 DEF Together, Waiting, Ending
    <3>2. Together'
      BY <2>1, <2>6, <3>1 DEF Together, Initing, Working, Critical, Ending
    <3>3. OneUnique'
      BY <2>1, <2>2 DEF OneUnique, Ending
    <3> QED
      BY <3>2, <3>3
  <2>10. LockTrue' /\ Loops'
    BY <2>1, <2>6 DEF LockTrue, LockWord, Loops, Starting, Initing, Working, Critical, Ending
  <2>11. TotalCounted'
    BY <2>1, <2>2, <2>6 DEF TotalCounted, Ending
  <2>12. EachCounted'
    BY <2>1, <2>2, <2>6 DEF EachCounted, Starting, Initing, Working, Critical, Ending
  <2> QED
    BY <2>7, <2>8, <2>9, <2>10, <2>11, <2>12
<1>5. CASE Bench!Check
  <2>1. /\ bench_main = "check"
        /\ bench_main' = IF global_state # Bench!expec THEN "failed"
                         ELSE IF trial + 1 = num_trials THEN "done" ELSE "reset"
        /\ UNCHANGED <<bench_type, bench_j, lock, global_state, arrived, bench_pc, is_unique, iter, work, reg>>
    BY <1>5 DEF Bench!Check
  <2>2. global_state = Bench!expec
    BY <2>1 DEF TotalCounted, EachCounted, Bench!expec
  <2>3. bench_main' \in {"done", "reset"} /\ \A t \in Workers : bench_pc[t] = "none"
    BY <2>1, <2>2 DEF Created
  <2>4. BenchTyped'
    BY <2>1, <2>3 DEF BenchTyped
  <2>5. Created' /\ Together' /\ OneUnique'
    BY <2>1, <2>3 DEF Created, Together, OneUnique
  <2>6. LockTrue' /\ Loops' /\ TotalCounted' /\ EachCounted'
    BY <2>1, <2>3 DEF LockTrue, LockWord, Loops, TotalCounted, EachCounted, Starting, Initing, Working, Critical, Ending
  <2> QED
    BY <2>4, <2>5, <2>6
<1> QED
  BY <1>1, <1>2, <1>3, <1>4, <1>5 DEF Bench!Main

-----------------------------------------------------------------------------
\* A worker at a barrier waits there, or is the last to come and all go on.
LEMMA BarrierStep ==
  ASSUME BenchInv, NEW t \in Workers, NEW from, NEW at,
         <<from, at>> \in {<<"start", "at_start">>, <<"ready", "at_ready">>, <<"finish", "at_finish">>},
         Bench!Barrier(t, from, at)
  PROVE  /\ Created' /\ Together' /\ OneUnique'
         /\ bench_pc[t] = from
         /\ UNCHANGED <<bench_type, bench_main, bench_j, lock, global_state, work, reg>>
         /\ is_unique' \in [Workers -> BOOLEAN]
         /\ \/ /\ bench_pc' = [bench_pc EXCEPT ![t] = at] /\ UNCHANGED is_unique
            \/ /\ bench_pc' = [u \in Workers |-> Bench!After(at)]
               /\ \A u \in Workers \ {t} : bench_pc[u] = at
<1>1. /\ bench_pc[t] = from
      /\ UNCHANGED <<bench_type, bench_main, bench_j, lock, global_state, work, reg>>
  BY DEF Bench!Barrier, Bench!config, Bench!runner
<1>2. BenchTyped /\ Created /\ Together /\ OneUnique
  BY DEF BenchInv
<1>3. CASE arrived \cup {t} = Workers
  <2>1. PICK unique \in Workers : is_unique' = [u \in Workers |-> u = unique]
    BY <1>3 DEF Bench!Barrier, Workers
  <2>2. arrived' = {} /\ bench_pc' = [u \in Workers |-> Bench!After(IF u = t THEN at ELSE bench_pc[u])]
    BY <1>3 DEF Bench!Barrier, Workers
  <2>3. bench_main = "join" /\ bench_j = 0 /\ \A u \in Workers \ {t} : bench_pc[u] = at
    BY <1>1, <1>2, <1>3, LastToArrive
  <2>4. bench_pc' = [u \in Workers |-> Bench!After(at)]
    BY <2>2, <2>3
  <2>5. Bench!After(at) \in {"init", "lock", "destroy"}
    BY DEF Bench!After
  <2>6. Created' /\ Together' /\ OneUnique'
    BY <1>1, <1>2, <2>1, <2>2, <2>3, <2>4, <2>5, StageEnds
  <2> QED
    BY <1>1, <2>1, <2>3, <2>4, <2>6
<1>4. CASE arrived \cup {t} # Workers
  <2>1. /\ arrived' = arrived \cup {t} /\ bench_pc' = [bench_pc EXCEPT ![t] = at] /\ UNCHANGED is_unique
    BY <1>4 DEF Bench!Barrier, Workers
  <2>2. arrived' = {u \in Workers : bench_pc'[u] \in Waiting}
    BY <1>1, <1>2, <2>1 DEF Together, BenchTyped, Waiting
  <2>3. \/ bench_pc[t] \in Starting /\ at \in Starting
        \/ bench_pc[t] \in Initing /\ at \in Initing
        \/ bench_pc[t] \in Working /\ at \in Working
    BY <1>1 DEF Starting, Initing, Working
  <2>4. Created' /\ Together' /\ OneUnique'
    BY <1>1, <1>2, <2>1, <2>2, <2>3, StageMove
  <2> QED
    BY <1>1, <1>2, <2>1, <2>4 DEF BenchTyped
<1> QED
  BY <1>3, <1>4

LEMMA ArriveNext == ASSUME BenchInv, NEW t \in Workers, Bench!Arrive(t) PROVE BenchInv'
<1> USE BenchConstants
<1>1. Bench!Barrier(t, "start", "at_start") /\ UNCHANGED iter
  BY DEF Bench!Arrive
<1>2. /\ Created' /\ Together' /\ OneUnique' /\ bench_pc[t] = "start"
      /\ UNCHANGED <<bench_type, bench_main, bench_j, lock, global_state, work, reg>>
      /\ is_unique' \in [Workers -> BOOLEAN]
      /\ \/ bench_pc' = [bench_pc EXCEPT ![t] = "at_start"] /\ UNCHANGED is_unique
         \/ /\ bench_pc' = [u \in Workers |-> Bench!After("at_start")]
            /\ \A u \in Workers \ {t} : bench_pc[u] = "at_start"
  BY <1>1, BarrierStep
<1>3. BenchTyped
  BY DEF BenchInv
<1>4. \A u \in Workers : \/ bench_pc'[u] = bench_pc[u] /\ is_unique'[u] = is_unique[u]
                         \/ bench_pc[u] \in Starting /\ bench_pc'[u] \in {"at_start", "init"}
  BY <1>2, <1>3 DEF BenchTyped, Bench!After, Starting
<1>5. BenchTyped'
  BY <1>1, <1>2, <1>3, <1>4 DEF BenchTyped, Bench!After, BenchPcs, Starting, Initing
<1>6. LockTrue'
  BY <1>2, <1>4 DEF BenchInv, LockTrue, LockWord, Starting, Working, Critical
<1>7. Loops'
  BY <1>1, <1>2, <1>4 DEF BenchInv, Loops, Starting, Critical
<1>8. TotalCounted'
  <2>1. bench_main # "check"
    BY <1>2 DEF BenchInv, Created
  <2> QED
    BY <1>2, <1>4, <2>1 DEF BenchInv, TotalCounted, Starting, Ending
<1>9. EachCounted'
  <2>1. bench_main # "check"
    BY <1>2 DEF BenchInv, Created
  <2>2. \A u \in Workers : bench_pc'[u] \notin Working
    <3>1. \A u \in Workers : bench_pc[u] \notin Working
      BY <1>2 DEF BenchInv, Together, Working, Critical
    <3> QED
      BY <1>4, <3>1 DEF Starting, Working, Critical
  <2> QED
    BY <1>1, <1>2, <1>4, <2>1, <2>2 DEF BenchInv, EachCounted, Starting, Initing, Ending, Working, Critical
<1> QED
  BY <1>2, <1>5, <1>6, <1>7, <1>8, <1>9 DEF BenchInv

LEMMA ReadyNext == ASSUME BenchInv, NEW t \in Workers, Bench!Ready(t) PROVE BenchInv'
<1> USE BenchConstants
<1>1. Bench!Barrier(t, "ready", "at_ready") /\ UNCHANGED iter
  BY DEF Bench!Ready
<1>2. /\ Created' /\ Together' /\ OneUnique' /\ bench_pc[t] = "ready"
      /\ UNCHANGED <<bench_type, bench_main, bench_j, lock, global_state, work, reg>>
      /\ is_unique' \in [Workers -> BOOLEAN]
      /\ \/ bench_pc' = [bench_pc EXCEPT ![t] = "at_ready"] /\ UNCHANGED is_unique
         \/ /\ bench_pc' = [u \in Workers |-> Bench!After("at_ready")]
            /\ \A u \in Workers \ {t} : bench_pc[u] = "at_ready"
  BY <1>1, BarrierStep
<1>3. BenchTyped /\ \A u \in Workers : bench_pc[u] \in Initing
  BY <1>2 DEF BenchInv, Together, Initing
<1>4. bench_main # "check"
  BY <1>2 DEF BenchInv, Created
<1>5. CASE bench_pc' = [bench_pc EXCEPT ![t] = "at_ready"] /\ UNCHANGED is_unique
  <2>1. \A u \in Workers : bench_pc'[u] = IF u = t THEN "at_ready" ELSE bench_pc[u]
    BY <1>3, <1>5 DEF BenchTyped
  <2>2. \A u \in Workers : bench_pc'[u] \in Initing
    BY <1>3, <2>1 DEF Initing
  <2>3. BenchTyped'
    BY <1>1, <1>2, <1>3, <1>5, <2>1 DEF BenchTyped, BenchPcs, Initing
  <2>4. LockTrue'
    BY <1>2, <1>3, <1>5, <2>1, <2>2 DEF BenchInv, LockTrue, LockWord, Initing, Working, Critical
  <2>5. Loops'
    BY <1>1, <1>2, <2>1 DEF BenchInv, Loops, Critical
  <2>6. TotalCounted'
    BY <1>2, <1>4, <2>2 DEF BenchInv, TotalCounted, Initing, Ending
  <2>7. EachCounted'
    BY <1>2, <1>3, <1>4, <2>2 DEF BenchInv, EachCounted, Created, Starting, Initing, Working, Critical, Ending
  <2> QED
    BY <1>2, <2>3, <2>4, <2>5, <2>6, <2>7 DEF BenchInv
<1>6. CASE /\ bench_pc' = [u \in Workers |-> Bench!After("at_ready")]
           /\ \A u \in Workers \ {t} : bench_pc[u] = "at_ready"
  <2>1. \A u \in Workers : bench_pc'[u] = "lock" /\ bench_pc[u] \in {"ready", "at_ready"}
    BY <1>2, <1>6 DEF Bench!After
  <2>2. \A u \in Workers : iter[u] = outer_iter /\ iter'[u] = outer_iter
    BY <1>1, <2>1 DEF BenchInv, Loops
  <2>3. BenchTyped'
    BY <1>1, <1>2, <1>3, <1>6 DEF BenchTyped, BenchPcs, Working, Bench!After
  <2>4. LockTrue'
    <3>1. PICK u \in Workers : is_unique[u]
      BY <1>2, <1>3 DEF BenchInv, OneUnique
    <3>2. LockWord = Bench!Free
      BY <2>1, <3>1 DEF BenchInv, LockTrue
    <3>3. LockWord' = Bench!Free
      BY <1>2, <3>2 DEF LockWord
    <3> QED
      BY <2>1, <3>3, LockStatesDiffer DEF LockTrue, Critical
  <2>5. Loops'
    BY <2>1, <2>2 DEF Loops, Critical
  <2>6. TotalCounted'
    BY <1>2, <1>4, <2>1 DEF TotalCounted, Ending
  <2>7. EachCounted'
    <3>1. \A u \in Workers, i \in 1 .. outer_iter, k \in 1 .. cs_iter : ~Made(u, i, k)'
      BY <2>1, <2>2 DEF Made
    <3>2. AllMade' = {}
      BY <3>1 DEF AllMade, Increments
    <3>3. Cardinality(AllMade') = 0
      BY <3>2, FS_EmptySet
    <3>4. bench_type # 0 => global_state' = 0
      BY <1>2, <1>3 DEF BenchInv, EachCounted
    <3>5. bench_main # "create"
      BY <1>2 DEF BenchInv, Created, Starting
    <3> QED
      BY <1>2, <1>4, <2>1, <3>3, <3>4, <3>5 DEF EachCounted, Starting, Initing, Ending
  <2> QED
    BY <1>2, <2>3, <2>4, <2>5, <2>6, <2>7 DEF BenchInv
<1> QED
  BY <1>2, <1>5, <1>6

LEMMA FinishNext == ASSUME BenchInv, NEW t \in Workers, Bench!Finish(t) PROVE BenchInv'
<1> USE BenchConstants
<1>1. Bench!Barrier(t, "finish", "at_finish") /\ iter' = [iter EXCEPT ![t] = 0]
  BY DEF Bench!Finish
<1>2. /\ Created' /\ Together' /\ OneUnique' /\ bench_pc[t] = "finish"
      /\ UNCHANGED <<bench_type, bench_main, bench_j, lock, global_state, work, reg>>
      /\ is_unique' \in [Workers -> BOOLEAN]
      /\ \/ bench_pc' = [bench_pc EXCEPT ![t] = "at_finish"] /\ UNCHANGED is_unique
         \/ /\ bench_pc' = [u \in Workers |-> Bench!After("at_finish")]
            /\ \A u \in Workers \ {t} : bench_pc[u] = "at_finish"
  BY <1>1, BarrierStep
<1>3. BenchTyped /\ \A u \in Workers : bench_pc[u] \in Working
  BY <1>2 DEF BenchInv, Together, Working
<1>4. bench_main # "check"
  BY <1>2 DEF BenchInv, Created
<1>5. bench_main # "create"
  BY <1>2 DEF BenchInv, Created, Starting
<1>6. \A u \in Workers : iter'[u] = IF u = t THEN 0 ELSE iter[u]
  BY <1>1, <1>3 DEF BenchTyped
<1>7. bench_type # 0 => iter' = iter
  <2>1. bench_type # 0 => iter[t] = 0
    BY <1>2 DEF BenchInv, EachCounted
  <2> QED
    BY <1>1, <1>3, <2>1 DEF BenchTyped
<1>8. CASE bench_pc' = [bench_pc EXCEPT ![t] = "at_finish"] /\ UNCHANGED is_unique
  <2>1. \A u \in Workers : bench_pc'[u] = IF u = t THEN "at_finish" ELSE bench_pc[u]
    BY <1>3, <1>8 DEF BenchTyped
  <2>2. \A u \in Workers : bench_pc'[u] \in Working
    BY <1>3, <2>1 DEF Working
  <2>3. BenchTyped'
    BY <1>1, <1>2, <1>3, <1>8 DEF BenchTyped, BenchPcs, Working
  <2>4. LockTrue'
    BY <1>2, <1>3, <1>8, <2>1, <2>2 DEF BenchInv, LockTrue, LockWord, Critical
  <2>5. Loops'
    BY <1>2, <1>6, <2>1 DEF BenchInv, Loops, Critical
  <2>6. TotalCounted'
    BY <1>2, <1>4, <2>1 DEF BenchInv, TotalCounted, Ending
  <2>7. EachCounted'
    <3>1. bench_type # 0 => AllMade' = AllMade
      <4>1. ASSUME bench_type # 0, NEW u \in Workers, NEW i \in 1 .. outer_iter, NEW k \in 1 .. cs_iter
            PROVE  Made(u, i, k)' <=> Made(u, i, k)
        BY <1>2, <1>7, <2>1, <4>1 DEF Made
      <4> QED
        BY <4>1, SameMade
    <3>2. \A u \in Workers : bench_pc'[u] \notin Starting \cup Initing \cup Ending
      BY <2>2 DEF Starting, Initing, Working, Critical, Ending
    <3> QED
      BY <1>2, <1>3, <1>4, <1>5, <1>7, <2>1, <3>1, <3>2 DEF BenchInv, EachCounted
  <2> QED
    BY <1>2, <2>3, <2>4, <2>5, <2>6, <2>7 DEF BenchInv
<1>9. CASE /\ bench_pc' = [u \in Workers |-> Bench!After("at_finish")]
           /\ \A u \in Workers \ {t} : bench_pc[u] = "at_finish"
  <2>1. \A u \in Workers : bench_pc'[u] = "destroy" /\ bench_pc[u] \in {"finish", "at_finish"}
    BY <1>2, <1>9 DEF Bench!After
  <2>2. BenchTyped'
    BY <1>1, <1>2, <1>3, <1>9 DEF BenchTyped, BenchPcs, Ending, Bench!After
  <2>3. LockTrue'
    BY <1>2, <2>1 DEF BenchInv, LockTrue, LockWord, Working, Critical
  <2>4. Loops'
    BY <2>1 DEF Loops, Critical
  <2>5. TotalCounted'
    BY <1>2, <1>4, <2>1 DEF BenchInv, TotalCounted
  <2>6. EachCounted'
    <3>1. bench_type # 0 => AllMade = Increments
      <4>1. ASSUME bench_type # 0, NEW u \in Workers, NEW i \in 1 .. outer_iter, NEW k \in 1 .. cs_iter
            PROVE  Made(u, i, k)
        BY <2>1, <4>1 DEF BenchInv, EachCounted, Made
      <4> QED
        BY <4>1 DEF AllMade, Increments
    <3>2. bench_type # 0 => global_state = num_threads * outer_iter * cs_iter
      BY <1>2, <1>3, <3>1, IncrementsFinite DEF BenchInv, EachCounted
    <3> QED
      BY <1>2, <1>4, <1>5, <2>1, <3>2 DEF EachCounted, Starting, Initing, Working, Critical
  <2> QED
    BY <1>2, <2>2, <2>3, <2>4, <2>5, <2>6 DEF BenchInv
<1> QED
  BY <1>2, <1>8, <1>9

-----------------------------------------------------------------------------
\* A worker goes on within its stage, away from the barriers.
LEMMA WorkerMove ==
  ASSUME BenchInv, NEW t \in Workers, NEW from, NEW to, Bench!Goto(t, from, to),
         UNCHANGED <<bench_main, bench_j, arrived, is_unique>>,
         from \notin Waiting, to \notin Waiting,
         \/ from \in Initing /\ to \in Initing
         \/ from \in Working /\ to \in Working
         \/ from \in Ending /\ to \in Ending
  PROVE  /\ Created' /\ Together' /\ OneUnique'
         /\ bench_pc[t] = from /\ bench_pc' = [bench_pc EXCEPT ![t] = to]
         /\ \A u \in Workers : bench_pc'[u] = IF u = t THEN to ELSE bench_pc[u]
<1>1. /\ bench_pc[t] = from /\ bench_pc' = [bench_pc EXCEPT ![t] = to]
      /\ BenchTyped /\ Created /\ Together /\ OneUnique
  BY DEF Bench!Goto, BenchInv
<1>2. \A u \in Workers : bench_pc'[u] = IF u = t THEN to ELSE bench_pc[u]
  BY <1>1 DEF BenchTyped
<1>3. arrived' = {u \in Workers : bench_pc'[u] \in Waiting}
  BY <1>1, <1>2 DEF Together
<1> QED
  BY <1>1, <1>2, <1>3, StageMove

\* A thread in the critical section is alone there.
LEMMA Alone ==
  ASSUME BenchInv, NEW t \in Workers, bench_pc[t] \in Critical
  PROVE  /\ LockWord = Bench!Held(t)
         /\ \A u \in Workers \ {t} : bench_pc[u] \notin Critical
         /\ \A u \in Workers : bench_pc[u] \in Working
<1>1. LockWord = Bench!Held(t) /\ \A u \in Workers : bench_pc[u] \in Critical <=> LockWord = Bench!Held(u)
  BY DEF BenchInv, LockTrue
<1> QED
  BY <1>1, LockStatesDiffer DEF BenchInv, Together, Working

LEMMA InitLocksNext == ASSUME BenchInv, NEW t \in Workers, Bench!InitLocks(t) PROVE BenchInv'
<1> USE BenchConstants
<1>1. /\ Bench!Goto(t, "init", "ready") /\ iter' = [iter EXCEPT ![t] = outer_iter]
      /\ lock' = IF is_unique[t] THEN [l \in Bench!Locks |-> IF l <= Bench!num_locks THEN Bench!Free ELSE lock[l]]
                 ELSE lock
      /\ UNCHANGED <<bench_type, bench_main, bench_j, global_state, arrived, is_unique, work, reg>>
  BY DEF Bench!InitLocks, Bench!config, Bench!runner
<1>2. /\ Created' /\ Together' /\ OneUnique'
      /\ bench_pc[t] = "init" /\ bench_pc' = [bench_pc EXCEPT ![t] = "ready"]
      /\ \A u \in Workers : bench_pc'[u] = IF u = t THEN "ready" ELSE bench_pc[u]
  BY <1>1, WorkerMove DEF Initing, Waiting
<1>3. BenchTyped /\ \A u \in Workers : bench_pc[u] \in Initing
  BY <1>2 DEF BenchInv, Together, Initing
<1>4. \A u \in Workers : bench_pc'[u] \in Initing
  BY <1>2, <1>3 DEF Initing
<1>5. bench_main \notin {"check", "create"}
  BY <1>2 DEF BenchInv, Created, Starting
<1>6. BenchTyped'
  <2>1. lock' \in [Bench!Locks -> LockStates]
    BY <1>1, <1>3 DEF BenchTyped, LockStates
  <2> QED
    BY <1>1, <1>2, <1>3, <2>1 DEF BenchTyped, BenchPcs, Initing
<1>7. LockTrue'
  <2>1. LockWord' = IF is_unique[t] THEN Bench!Free ELSE LockWord
    BY <1>1 DEF LockWord
  <2> QED
    BY <1>1, <1>2, <1>3, <1>4, <2>1, LockStatesDiffer DEF BenchInv, LockTrue, Initing, Working, Critical
<1>8. Loops'
  BY <1>1, <1>2, <1>3 DEF BenchInv, BenchTyped, Loops, Critical
<1>9. TotalCounted' /\ EachCounted'
  BY <1>1, <1>3, <1>4, <1>5 DEF BenchInv, TotalCounted, EachCounted, Starting, Initing, Working, Critical, Ending
<1> QED
  BY <1>2, <1>6, <1>7, <1>8, <1>9 DEF BenchInv

LEMMA LockNext == ASSUME BenchInv, NEW t \in Workers, Bench!Lock(t) PROVE BenchInv'
<1> USE BenchConstants
<1> DEFINE to == IF bench_type = 0 THEN "check" ELSE "cs"
<1>1. /\ Bench!Goto(t, "lock", to) /\ lock' = [lock EXCEPT ![0] = Bench!Held(t)]
      /\ LockWord \in {Bench!Free, Bench!Zero} /\ work' = [work EXCEPT ![t] = cs_iter]
      /\ UNCHANGED <<bench_type, bench_main, bench_j, global_state, arrived, is_unique, iter, reg>>
  BY DEF Bench!Lock, Bench!config, Bench!runner, LockWord
<1>2. /\ Created' /\ Together' /\ OneUnique'
      /\ bench_pc[t] = "lock" /\ bench_pc' = [bench_pc EXCEPT ![t] = to]
      /\ \A u \in Workers : bench_pc'[u] = IF u = t THEN to ELSE bench_pc[u]
  BY <1>1, WorkerMove DEF Working, Critical, Waiting
<1>3. BenchTyped /\ \A u \in Workers : bench_pc[u] \in Working
  BY <1>2 DEF BenchInv, Together, Working
<1>4. \A u \in Workers : bench_pc'[u] \in Working
  BY <1>2, <1>3 DEF Working, Critical
<1>5. bench_main \notin {"check", "create"}
  BY <1>2 DEF BenchInv, Created, Starting
<1>6. \A u \in Workers : bench_pc[u] \notin Critical
  BY <1>1, LockStatesDiffer DEF BenchInv, LockTrue
<1>7. BenchTyped'
  <2>1. lock' \in [Bench!Locks -> LockStates]
    BY <1>1, <1>3 DEF BenchTyped, LockStates
  <2> QED
    BY <1>1, <1>2, <1>3, <2>1 DEF BenchTyped, BenchPcs, Working, Critical
<1>8. LockTrue'
  <2>1. LockWord' = Bench!Held(t)
    BY <1>1, <1>3 DEF LockWord, BenchTyped
  <2>2. \A u \in Workers : bench_pc'[u] \in Critical <=> u = t
    BY <1>2, <1>6 DEF Critical
  <2>3. \A u \in Workers : bench_pc'[u] \in Critical <=> LockWord' = Bench!Held(u)
    BY <2>1, <2>2, LockStatesDiffer
  <2>4. \A u \in Workers : bench_pc'[u] \notin {"ready", "at_ready"}
    BY <1>4 DEF Working, Critical
  <2> QED
    BY <2>1, <2>3, <2>4 DEF LockTrue
<1>9. Loops'
  BY <1>1, <1>2, <1>6 DEF BenchInv, Loops, Critical
<1>10. TotalCounted'
  BY <1>1, <1>2, <1>3, <1>4, <1>5 DEF BenchInv, TotalCounted, Working, Critical, Ending
<1>11. EachCounted'
  <2>1. ASSUME NEW u \in Workers, NEW i \in 1 .. outer_iter, NEW k \in 1 .. cs_iter
        PROVE  Made(u, i, k)' <=> Made(u, i, k)
    BY <1>1, <1>2, <1>3 DEF Made, BenchTyped
  <2>2. AllMade' = AllMade
    BY <2>1, SameMade
  <2>3. \A u \in Workers : bench_pc'[u] \notin Starting \cup Initing \cup Ending
    BY <1>4 DEF Starting, Initing, Working, Critical, Ending
  <2> QED
    BY <1>1, <1>2, <1>3, <1>5, <2>2, <2>3 DEF BenchInv, EachCounted
<1> QED
  BY <1>2, <1>7, <1>8, <1>9, <1>10, <1>11 DEF BenchInv

LEMMA WorkDoneNext == ASSUME BenchInv, NEW t \in Workers, Bench!WorkDone(t) PROVE BenchInv'
<1> USE BenchConstants
<1> DEFINE to == IF global_state = outer_iter THEN "break" ELSE "cs"
<1>1. /\ Bench!Goto(t, "check", to)
      /\ UNCHANGED <<bench_type, bench_main, bench_j, lock, global_state, arrived, is_unique, iter, work, reg>>
  BY DEF Bench!WorkDone, Bench!config, Bench!runner, Bench!locals
<1>2. /\ Created' /\ Together' /\ OneUnique'
      /\ bench_pc[t] = "check" /\ bench_pc' = [bench_pc EXCEPT ![t] = to]
      /\ \A u \in Workers : bench_pc'[u] = IF u = t THEN to ELSE bench_pc[u]
  BY <1>1, WorkerMove DEF Working, Critical, Waiting
<1>3. BenchTyped /\ LockWord = Bench!Held(t) /\ \A u \in Workers \ {t} : bench_pc[u] \notin Critical
  BY <1>2, Alone DEF BenchInv, Critical
<1>4. BenchTyped'
  BY <1>1, <1>2, <1>3 DEF BenchTyped, BenchPcs, Working, Critical
<1>5. LockTrue'
  BY <1>1, <1>2 DEF BenchInv, LockTrue, LockWord, Working, Critical
<1>6. Loops'
  BY <1>1, <1>2 DEF BenchInv, Loops, Critical
<1>7. TotalCounted'
  BY <1>1, <1>2, <1>3 DEF BenchInv, TotalCounted, Critical, Ending, Created
<1>8. EachCounted'
  BY <1>1, <1>2 DEF BenchInv, EachCounted, Created
<1> QED
  BY <1>2, <1>4, <1>5, <1>6, <1>7, <1>8 DEF BenchInv

LEMMA CsLoadNext == ASSUME BenchInv, NEW t \in Workers, Bench!CsLoad(t) PROVE BenchInv'
<1> USE BenchConstants
<1> DEFINE to == IF work[t] = 0 THEN "unlock" ELSE "store"
<1>1. /\ Bench!Goto(t, "cs", to) /\ reg' = [reg EXCEPT ![t] = global_state]
      /\ UNCHANGED <<bench_type, bench_main, bench_j, lock, global_state, arrived, is_unique, iter, work>>
  BY DEF Bench!CsLoad, Bench!config, Bench!runner
<1>2. /\ Created' /\ Together' /\ OneUnique'
      /\ bench_pc[t] = "cs" /\ bench_pc' = [bench_pc EXCEPT ![t] = to]
      /\ \A u \in Workers : bench_pc'[u] = IF u = t THEN to ELSE bench_pc[u]
  BY <1>1, WorkerMove DEF Working, Critical, Waiting
<1>3. /\ BenchTyped /\ LockWord = Bench!Held(t) /\ \A u \in Workers \ {t} : bench_pc[u] \notin Critical
      /\ \A u \in Workers : bench_pc[u] \in Working
  BY <1>2, Alone DEF BenchInv, Critical
<1>4. BenchTyped'
  BY <1>1, <1>2, <1>3 DEF BenchTyped, BenchPcs, Working, Critical
<1>5. LockTrue'
  BY <1>1, <1>2 DEF BenchInv, LockTrue, LockWord, Working, Critical
<1>6. Loops'
  BY <1>1, <1>2, <1>3 DEF BenchInv, BenchTyped, Loops, Critical
<1>7. TotalCounted'
  BY <1>1, <1>2 DEF BenchInv, TotalCounted, Ending
<1>8. EachCounted'
  <2>1. ASSUME NEW u \in Workers, NEW i \in 1 .. outer_iter, NEW k \in 1 .. cs_iter
        PROVE  Made(u, i, k)' <=> Made(u, i, k)
    BY <1>1, <1>2 DEF Made
  <2>2. AllMade' = AllMade
    BY <2>1, SameMade
  <2>3. bench_main \notin {"check", "create"}
    BY <1>2 DEF BenchInv, Created, Starting
  <2>4. \A u \in Workers : bench_pc'[u] \notin Starting \cup Initing \cup Ending
    BY <1>2, <1>3 DEF Starting, Initing, Working, Critical, Ending
  <2> QED
    BY <1>1, <1>2, <1>3, <2>2, <2>3, <2>4 DEF BenchInv, EachCounted
<1> QED
  BY <1>2, <1>4, <1>5, <1>6, <1>7, <1>8 DEF BenchInv

LEMMA CsStoreNext == ASSUME BenchInv, NEW t \in Workers, Bench!CsStore(t) PROVE BenchInv'
<1> USE BenchConstants
<1>1. /\ Bench!Goto(t, "store", "cs") /\ work' = [work EXCEPT ![t] = @ - 1]
      /\ global_state' = IF reg[t] + 1 > MAX_STATE THEN MAX_STATE ELSE reg[t] + 1
      /\ UNCHANGED <<bench_type, bench_main, bench_j, lock, arrived, is_unique, iter, reg>>
  BY DEF Bench!CsStore, Bench!config, Bench!runner
<1>2. /\ Created' /\ Together' /\ OneUnique'
      /\ bench_pc[t] = "store" /\ bench_pc' = [bench_pc EXCEPT ![t] = "cs"]
      /\ \A u \in Workers : bench_pc'[u] = IF u = t THEN "cs" ELSE bench_pc[u]
  BY <1>1, WorkerMove DEF Working, Critical, Waiting
<1>3. /\ BenchTyped /\ LockWord = Bench!Held(t) /\ \A u \in Workers \ {t} : bench_pc[u] \notin Critical
      /\ \A u \in Workers : bench_pc[u] \in Working
  BY <1>2, Alone DEF BenchInv, Critical
<1>4. work[t] \in 1 .. cs_iter /\ reg[t] = global_state /\ iter[t] \in 1 .. outer_iter
  BY <1>2, <1>3 DEF BenchInv, BenchTyped, Loops, Critical
<1>5. \A u \in Workers : work'[u] = IF u = t THEN work[t] - 1 ELSE work[u]
  BY <1>1, <1>3 DEF BenchTyped
<1>6. BenchTyped'
  <2>1. work' \in [Workers -> 0 .. cs_iter]
    BY <1>1, <1>3, <1>4 DEF BenchTyped
  <2>2. global_state' \in Nat
    <3>1. global_state \in Nat
      BY <1>3 DEF BenchTyped
    <3> QED
      BY <1>1, <1>4, <3>1
  <2> QED
    BY <1>1, <1>2, <1>3, <2>1, <2>2 DEF BenchTyped, BenchPcs, Working, Critical
<1>7. LockTrue'
  BY <1>1, <1>2 DEF BenchInv, LockTrue, LockWord, Working, Critical
<1>8. Loops'
  BY <1>1, <1>2, <1>3, <1>5 DEF BenchInv, Loops, Critical
<1>9. bench_main \notin {"check", "create"}
  BY <1>2 DEF BenchInv, Created, Starting
<1>10. \A u \in Workers : bench_pc'[u] \notin Starting \cup Initing \cup Ending
  BY <1>2, <1>3 DEF Starting, Initing, Working, Critical, Ending
<1>11. TotalCounted'
  <2>1. ASSUME bench_type = 0, NEW u \in Workers, bench_pc'[u] \in {"break", "finish", "at_finish"} PROVE FALSE
    BY <1>2, <2>1 DEF BenchInv, TotalCounted
  <2> QED
    BY <1>1, <1>9, <1>10, <2>1 DEF TotalCounted
<1>12. EachCounted'
  <2>1. PICK m \in 1 .. outer_iter : m = iter[t]
    BY <1>4
  <2>2. PICK n \in 1 .. cs_iter : n = work[t]
    BY <1>4
  <2>3. ~Made(t, m, n)
    BY <1>3, <1>4, <2>1, <2>2 DEF Made, BenchTyped
  <2>4. ASSUME NEW u \in Workers, NEW i \in 1 .. outer_iter, NEW k \in 1 .. cs_iter
        PROVE  Made(u, i, k)' <=> Made(u, i, k) \/ (u = t /\ i = m /\ k = n)
    <3>1. CASE u = t
      BY <1>1, <1>2, <1>4, <1>5, <2>1, <2>2, <3>1 DEF Made
    <3>2. CASE u # t
      BY <1>1, <1>2, <1>5, <3>2 DEF Made
    <3> QED
      BY <3>1, <3>2
  <2>5. /\ Cardinality(AllMade') = Cardinality(AllMade) + 1
        /\ Cardinality(AllMade) < num_threads * outer_iter * cs_iter
    BY <2>3, <2>4, MakeOne
  <2>6. bench_type # 0 => global_state = Cardinality(AllMade)
    BY <1>3 DEF BenchInv, EachCounted
  <2>7. bench_type # 0 => global_state' = Cardinality(AllMade')
    <3> DEFINE all == num_threads * outer_iter * cs_iter
    <3>1. all \in Int /\ all < MAX_STATE /\ Cardinality(AllMade) < all
      BY <2>5, IncrementsFinite, FS_CardinalityType
    <3> HIDE DEF all
    <3> QED
      BY <1>1, <1>4, <2>5, <2>6, <3>1, IncrementsFinite
  <2> QED
    BY <1>1, <1>2, <1>9, <1>10, <2>7 DEF BenchInv, EachCounted
<1> QED
  BY <1>2, <1>6, <1>7, <1>8, <1>11, <1>12 DEF BenchInv

LEMMA UnlockNext == ASSUME BenchInv, NEW t \in Workers, Bench!Unlock(t) PROVE BenchInv'
<1> USE BenchConstants
<1> DEFINE left == IF bench_type = 0 THEN iter[t] ELSE iter[t] - 1
           to == IF left = 0 THEN "finish" ELSE "lock"
<1>1. /\ Bench!Goto(t, "unlock", to) /\ iter' = [iter EXCEPT ![t] = left]
      /\ lock' = [lock EXCEPT ![0] = Bench!Free]
      /\ UNCHANGED <<bench_type, bench_main, bench_j, global_state, arrived, is_unique, work, reg>>
  BY DEF Bench!Unlock, Bench!config, Bench!runner
<1>2. /\ Created' /\ Together' /\ OneUnique'
      /\ bench_pc[t] = "unlock" /\ bench_pc' = [bench_pc EXCEPT ![t] = to]
      /\ \A u \in Workers : bench_pc'[u] = IF u = t THEN to ELSE bench_pc[u]
  BY <1>1, WorkerMove DEF Working, Critical, Waiting
<1>3. /\ BenchTyped /\ LockWord = Bench!Held(t) /\ \A u \in Workers \ {t} : bench_pc[u] \notin Critical
      /\ \A u \in Workers : bench_pc[u] \in Working
  BY <1>2, Alone DEF BenchInv, Critical
<1>4. work[t] = 0 /\ iter[t] \in 1 .. outer_iter /\ left \in 0 .. outer_iter
  BY <1>2, <1>3 DEF BenchInv, BenchTyped, Loops, Critical
<1>5. \A u \in Workers : iter'[u] = IF u = t THEN left ELSE iter[u]
  BY <1>1, <1>3 DEF BenchTyped
<1>6. BenchTyped'
  <2>1. lock' \in [Bench!Locks -> LockStates]
    BY <1>1, <1>3 DEF BenchTyped, LockStates
  <2>2. iter' \in [Workers -> 0 .. outer_iter]
    BY <1>1, <1>3, <1>4 DEF BenchTyped
  <2> QED
    BY <1>1, <1>2, <1>3, <2>1, <2>2 DEF BenchTyped, BenchPcs, Working, Critical
<1>7. LockTrue'
  <2>1. LockWord' = Bench!Free
    BY <1>1, <1>3 DEF LockWord, BenchTyped
  <2> QED
    BY <1>2, <1>3, <2>1, LockStatesDiffer DEF LockTrue, Critical
<1>8. Loops'
  BY <1>1, <1>2, <1>3, <1>5 DEF BenchInv, Loops, Critical
<1>9. bench_main \notin {"check", "create"}
  BY <1>2 DEF BenchInv, Created, Starting
<1>10. \A u \in Workers : bench_pc'[u] \notin Starting \cup Initing \cup Ending
  BY <1>2, <1>3 DEF Starting, Initing, Working, Critical, Ending
<1>11. TotalCounted'
  <2>1. ASSUME bench_type = 0, NEW u \in Workers, bench_pc'[u] \in {"break", "finish", "at_finish"} PROVE FALSE
    <3>1. to = "lock"
      BY <1>4, <2>1
    <3> QED
      BY <1>2, <2>1, <3>1 DEF BenchInv, TotalCounted
  <2> QED
    BY <1>1, <1>9, <1>10, <2>1 DEF TotalCounted
<1>12. EachCounted'
  <2> SUFFICES ASSUME bench_type # 0 PROVE EachCounted'
    BY <1>1 DEF EachCounted
  <2>1. ASSUME NEW u \in Workers, NEW i \in 1 .. outer_iter, NEW k \in 1 .. cs_iter
        PROVE  Made(u, i, k)' <=> Made(u, i, k)
    <3>1. CASE u = t
      BY <1>1, <1>2, <1>4, <1>5, <3>1 DEF Made
    <3>2. CASE u # t
      BY <1>1, <1>2, <1>5, <3>2 DEF Made
    <3> QED
      BY <3>1, <3>2
  <2>2. AllMade' = AllMade
    BY <2>1, SameMade
  <2>3. \A u \in Workers : bench_pc'[u] \in {"finish", "at_finish"} => iter'[u] = 0
    BY <1>2, <1>5 DEF BenchInv, EachCounted
  <2>4. \A u \in Workers : bench_pc'[u] \notin {"check", "break"}
    BY <1>2 DEF BenchInv, EachCounted
  <2> QED
    BY <1>1, <1>3, <1>9, <1>10, <2>2, <2>3, <2>4 DEF BenchInv, EachCounted
<1> QED
  BY <1>2, <1>6, <1>7, <1>8, <1>11, <1>12 DEF BenchInv

LEMMA BreakNext == ASSUME BenchInv, NEW t \in Workers, Bench!Break(t) PROVE BenchInv'
<1> USE BenchConstants
<1>1. /\ Bench!Goto(t, "break", "finish") /\ lock' = [lock EXCEPT ![0] = Bench!Free]
      /\ UNCHANGED <<bench_type, bench_main, bench_j, global_state, arrived, is_unique, iter, work, reg>>
  BY DEF Bench!Break, Bench!config, Bench!runner, Bench!locals
<1>2. /\ Created' /\ Together' /\ OneUnique'
      /\ bench_pc[t] = "break" /\ bench_pc' = [bench_pc EXCEPT ![t] = "finish"]
      /\ \A u \in Workers : bench_pc'[u] = IF u = t THEN "finish" ELSE bench_pc[u]
  BY <1>1, WorkerMove DEF Working, Critical, Waiting
<1>3. /\ BenchTyped /\ LockWord = Bench!Held(t) /\ \A u \in Workers \ {t} : bench_pc[u] \notin Critical
      /\ bench_type = 0
  BY <1>2, Alone DEF BenchInv, Critical, EachCounted
<1>4. BenchTyped'
  <2>1. lock' \in [Bench!Locks -> LockStates]
    BY <1>1, <1>3 DEF BenchTyped, LockStates
  <2> QED
    BY <1>1, <1>2, <1>3, <2>1 DEF BenchTyped, BenchPcs, Working
<1>5. LockTrue'
  <2>1. LockWord' = Bench!Free
    BY <1>1, <1>3 DEF LockWord, BenchTyped
  <2> QED
    BY <1>2, <1>3, <2>1, LockStatesDiffer DEF LockTrue, Critical
<1>6. Loops'
  BY <1>1, <1>2 DEF BenchInv, Loops, Critical
<1>7. TotalCounted' /\ EachCounted'
  BY <1>1, <1>2, <1>3 DEF BenchInv, TotalCounted, EachCounted
<1> QED
  BY <1>2, <1>4, <1>5, <1>6, <1>7 DEF BenchInv

LEMMA DestroyNext == ASSUME BenchInv, NEW t \in Workers, Bench!Destroy(t) PROVE BenchInv'
<1> USE BenchConstants
<1>1. /\ Bench!Goto(t, "destroy", "exited")
      /\ lock' = IF is_unique[t] THEN [l \in Bench!Locks |-> IF l <= Bench!num_locks THEN Bench!Destroyed ELSE lock[l]]
                 ELSE lock
      /\ UNCHANGED <<bench_type, bench_main, bench_j, global_state, arrived, is_unique, iter, work, reg>>
  BY DEF Bench!Destroy, Bench!config, Bench!runner, Bench!locals
<1>2. /\ Created' /\ Together' /\ OneUnique'
      /\ bench_pc[t] = "destroy" /\ bench_pc' = [bench_pc EXCEPT ![t] = "exited"]
      /\ \A u \in Workers : bench_pc'[u] = IF u = t THEN "exited" ELSE bench_pc[u]
  BY <1>1, WorkerMove DEF Ending, Waiting
<1>3. BenchTyped /\ \A u \in Workers : bench_pc[u] \in Ending \cup {"none"}
  BY <1>2 DEF BenchInv, Together, Ending
<1>4. \A u \in Workers : bench_pc'[u] \in Ending \cup {"none"}
  BY <1>2, <1>3 DEF Ending
<1>5. BenchTyped'
  <2>1. lock' \in [Bench!Locks -> LockStates]
    BY <1>1, <1>3 DEF BenchTyped, LockStates
  <2> QED
    BY <1>1, <1>2, <1>3, <2>1 DEF BenchTyped, BenchPcs, Ending
<1>6. LockTrue'
  <2>1. LockWord' = IF is_unique[t] THEN Bench!Destroyed ELSE LockWord
    BY <1>1 DEF LockWord
  <2> QED
    BY <1>3, <1>4, <2>1, LockStatesDiffer DEF BenchInv, LockTrue, Working, Critical, Ending
<1>7. Loops'
  BY <1>4 DEF Loops, Critical, Ending
<1>8. bench_main # "check"
  BY <1>2 DEF BenchInv, Created
<1>9. TotalCounted'
  BY <1>1, <1>2, <1>4, <1>8 DEF BenchInv, TotalCounted, Ending
<1>10. EachCounted'
  <2>1. bench_main # "create"
    BY <1>2 DEF BenchInv, Created, Starting
  <2> QED
    BY <1>1, <1>2, <1>4, <1>8, <2>1 DEF BenchInv, EachCounted, Starting, Initing, Working, Critical, Ending
<1> QED
  BY <1>2, <1>5, <1>6, <1>7, <1>9, <1>10 DEF BenchInv

-----------------------------------------------------------------------------
LEMMA BenchUnchanged == ASSUME BenchInv, UNCHANGED Bench!vars PROVE BenchInv'
<1>1. UNCHANGED <<bench_type, bench_main, bench_j, lock, global_state, arrived, bench_pc, is_unique, iter, work, reg>>
  BY DEF Bench!vars, Bench!config, Bench!runner, Bench!locals
<1>2. AllMade' = AllMade
  BY <1>1 DEF AllMade, Made
<1>3. BenchTyped' /\ Created' /\ Together' /\ OneUnique'
  BY <1>1 DEF BenchInv, BenchTyped, Created, Together, OneUnique
<1>4. LockTrue' /\ Loops' /\ TotalCounted' /\ EachCounted'
  BY <1>1, <1>2 DEF BenchInv, LockTrue, LockWord, Loops, TotalCounted, EachCounted
<1> QED
  BY <1>3, <1>4 DEF BenchInv

LEMMA BenchInvNext == BenchInv /\ [Bench!Next]_(Bench!vars) => BenchInv'
<1> SUFFICES ASSUME BenchInv, [Bench!Next]_(Bench!vars) PROVE BenchInv'
  OBVIOUS
<1>1. CASE Bench!Main
  BY <1>1, MainNext
<1>2. ASSUME NEW t \in Workers, Bench!Step(t) PROVE BenchInv'
  BY <1>2, ArriveNext, InitLocksNext, ReadyNext, LockNext, WorkDoneNext, CsLoadNext, CsStoreNext, UnlockNext,
     BreakNext, FinishNext, DestroyNext DEF Bench!Step
<1>3. CASE UNCHANGED Bench!vars
  BY <1>3, BenchUnchanged
<1> QED
  BY <1>1, <1>2, <1>3 DEF Bench!Next, Workers

\* The workers of a trial stay together, the unique thread of a barrier initialises
\* and destroys the lock alone, and the counter is the number of increments made.
THEOREM BenchInvHolds == Programs => []BenchInv
  BY BenchInvInit, BenchInvNext, BenchRuns, PTL

\* test_assert(..., "Bad count") of I_run() passes in every trial of both benchmarks:
\* whichever threads did the work, no increment is lost and none is made twice.
THEOREM CountIsExpectedHolds == Programs => []CountIsExpected
<1>1. BenchInv => CountIsExpected
  BY DEF BenchInv, BenchTyped, CountIsExpected, Bench!CountIsExpected
<1> QED
  BY <1>1, BenchInvHolds, PTL

\* The barriers keep the use of the lock between its initialisation and its
\* destruction, each by one thread that any of them may be.
THEOREM LockReadyWhenUsedHolds == Programs => []LockReadyWhenUsed
<1>1. BenchInv => LockReadyWhenUsed
  BY BenchConstants
     DEF BenchInv, LockTrue, LockWord, Working, Critical, Workers, LockReadyWhenUsed, Bench!LockReadyWhenUsed
<1> QED
  BY <1>1, BenchInvHolds, PTL

-----------------------------------------------------------------------------
\* The choice of the locks: behind each lock it is known of each name whether it
\* was compiled, whether one lock is enough for it, and whether one matched.
NamesKnown ==
  \A n \in DOMAIN lock_names :
    /\ "re_built" \in decl_states[n] <=> decl > 1
    /\ "did_one" \in decl_states[n] <=> decl > 1 /\ lock_names[n] \notin Wild
    /\ "ran" \in decl_states[n] <=> \E e \in Bin!MatchesOf(lock_names[n]) : e < decl

\* The locks before this one that are asked for were run, in their order.
RanInOrder ==
  /\ decl \in Nat \ {0} /\ done \in Seq(1 .. decl - 1)
  /\ \A m, n \in DOMAIN done : m < n => done[m] < done[n]
  /\ Bin!ToSet(done) = {d \in 1 .. decl - 1 : Bin!Asked(d)}

MissingAsked ==
  /\ decl > Len(lock_list)
  /\ missing = {n \in DOMAIN lock_names : Bin!Filtered /\ Bin!MatchesOf(lock_names[n]) = {}}

ChoiceInv ==
  /\ driver_main \in {"parse", "validate"} => decl = 1 /\ done = <<>>
  /\ driver_main \in {"run", "print", "done"} => RanInOrder
  /\ driver_main = "run" => DOMAIN decl_states = DOMAIN lock_names /\ (Bin!Filtered => NamesKnown)
  /\ driver_main \in {"print", "done"} => MissingAsked

LEMMA DriverConstants ==
  /\ Len(lock_list) \in Nat /\ DOMAIN lock_list = 1 .. Len(lock_list)
  /\ \A w : Bin!MatchesOf(w) \subseteq 1 .. Len(lock_list)
<1>1. lock_list \in Seq(STRING) /\ \A w \in DOMAIN MatchOf : MatchOf[w] \subseteq DOMAIN lock_list
  BY ProgramsAssumption DEF Bin!DriverAssumption
<1>2. Len(lock_list) \in Nat /\ DOMAIN lock_list = 1 .. Len(lock_list)
  BY <1>1
<1> QED
  BY <1>1, <1>2 DEF Bin!MatchesOf

\* Steps after the words are parsed that leave what was chosen as it is.
LEMMA ChoiceApart ==
  ASSUME ChoiceInv, UNCHANGED <<opts, lock_names, decl, decl_states, done, missing>>,
         \/ driver_main' = driver_main
         \/ driver_main' \notin {"parse", "validate", "run", "print", "done"}
         \/ driver_main = "print" /\ driver_main' = "done"
  PROVE  ChoiceInv'
<1>1. /\ Bin!Filtered' <=> Bin!Filtered
      /\ \A d : Bin!Asked(d)' <=> Bin!Asked(d)
  BY DEF Bin!Filtered, Bin!Asked, Bin!MatchesOf, Bin!ToSet
<1>2. (RanInOrder' <=> RanInOrder) /\ (NamesKnown' <=> NamesKnown) /\ (MissingAsked' <=> MissingAsked)
  BY <1>1 DEF RanInOrder, NamesKnown, MissingAsked, Bin!MatchesOf, Bin!ToSet
<1> QED
  BY <1>1, <1>2 DEF ChoiceInv

\* A lock is run exactly if it is asked for.
LEMMA HitIsAsked ==
  ASSUME Bin!Filtered, NamesKnown, DOMAIN decl_states = DOMAIN lock_names, decl \in 1 .. Len(lock_list)
  PROVE  Bin!Hit <=> Bin!Asked(decl)
<1>1. ASSUME NEW n \in DOMAIN lock_names
      PROVE  Bin!Exhausted(n) <=> lock_names[n] \notin Wild /\ \E e \in Bin!MatchesOf(lock_names[n]) : e < decl
  BY DriverConstants DEF NamesKnown, Bin!Exhausted
<1>2. ASSUME NEW n \in DOMAIN lock_names
      PROVE  (\A e \in Bin!MatchesOf(lock_names[n]) : decl <= e)
               <=> ~\E e \in Bin!MatchesOf(lock_names[n]) : e < decl
  BY DriverConstants
<1>3. Bin!Asked(decl) <=>
        \E n \in DOMAIN lock_names : /\ decl \in Bin!MatchesOf(lock_names[n])
                                     /\ lock_names[n] \in Wild
                                        \/ \A e \in Bin!MatchesOf(lock_names[n]) : decl <= e
  BY DEF Bin!Asked, Bin!ToSet
<1> QED
  BY <1>1, <1>2, <1>3 DEF Bin!Hit, Bin!Matches

LEMMA NamesKnownNext ==
  ASSUME Bin!Filtered, NamesKnown, DOMAIN decl_states = DOMAIN lock_names, decl \in 1 .. Len(lock_list),
         UNCHANGED lock_names, decl' = decl + 1, decl_states' = [n \in DOMAIN lock_names |-> Bin!Seen(n)]
  PROVE  NamesKnown'
<1> SUFFICES ASSUME NEW n \in DOMAIN lock_names
    PROVE  /\ "re_built" \in Bin!Seen(n) <=> decl + 1 > 1
           /\ "did_one" \in Bin!Seen(n) <=> decl + 1 > 1 /\ lock_names[n] \notin Wild
           /\ "ran" \in Bin!Seen(n) <=> \E e \in Bin!MatchesOf(lock_names[n]) : e < decl + 1
  BY DEF NamesKnown, Bin!MatchesOf
<1>1. (\E e \in Bin!MatchesOf(lock_names[n]) : e < decl + 1)
        <=> (\E e \in Bin!MatchesOf(lock_names[n]) : e < decl) \/ Bin!Matches(n)
  BY DriverConstants DEF Bin!Matches
<1>2. /\ "re_built" \in decl_states[n] <=> decl > 1
      /\ "did_one" \in decl_states[n] <=> decl > 1 /\ lock_names[n] \notin Wild
      /\ "ran" \in decl_states[n] <=> \E e \in Bin!MatchesOf(lock_names[n]) : e < decl
  BY DEF NamesKnown
<1>3. CASE Bin!Exhausted(n)
  BY <1>1, <1>2, <1>3, DriverConstants DEF Bin!Seen, Bin!Exhausted
<1>4. CASE ~Bin!Exhausted(n)
  BY <1>1, <1>2, <1>4, DriverConstants DEF Bin!Seen
<1> QED
  BY <1>3, <1>4

LEMMA RunDeclNext == ASSUME ChoiceInv, Bin!RunDecl PROVE ChoiceInv'
<1>1. /\ driver_main = "run" /\ decl <= Len(lock_list) /\ decl' = decl + 1
      /\ UNCHANGED <<opts, lock_names, missing>>
      /\ decl_states' = IF Bin!Filtered THEN [n \in DOMAIN lock_names |-> Bin!Seen(n)] ELSE decl_states
  BY DEF Bin!RunDecl, Bin!parse
<1>2. RanInOrder /\ DOMAIN decl_states = DOMAIN lock_names /\ (Bin!Filtered => NamesKnown)
  BY <1>1 DEF ChoiceInv
<1>3. decl \in 1 .. Len(lock_list)
  BY <1>1, <1>2, DriverConstants DEF RanInOrder
<1>4. /\ Bin!Filtered' <=> Bin!Filtered
      /\ \A d : Bin!Asked(d)' <=> Bin!Asked(d)
  BY <1>1 DEF Bin!Filtered, Bin!Asked, Bin!MatchesOf, Bin!ToSet
<1>5. CASE driver_main' = "died"
  BY <1>5 DEF ChoiceInv
<1>6. CASE driver_main' = driver_main
  <2>1. done' = IF Bin!Asked(decl) THEN Append(done, decl) ELSE done
    <3>1. CASE Bin!Filtered
      BY <1>1, <1>2, <1>3, <1>6, <3>1, HitIsAsked DEF Bin!RunDecl
    <3>2. CASE ~Bin!Filtered
      BY <1>1, <3>2 DEF Bin!RunDecl, Bin!Asked
    <3> QED
      BY <3>1, <3>2
  <2>2. RanInOrder'
    <3>1. /\ done \in Seq(1 .. decl - 1) /\ \A m, n \in DOMAIN done : m < n => done[m] < done[n]
          /\ Bin!ToSet(done) = {d \in 1 .. decl - 1 : Bin!Asked(d)}
      BY <1>2 DEF RanInOrder
    <3>2. done' \in Seq(1 .. decl)
      <4>1. PICK locks : locks = 1 .. decl
        OBVIOUS
      <4>2. done \in Seq(locks) /\ decl \in locks
        BY <1>3, <3>1, <4>1
      <4>3. done' \in Seq(locks)
        BY <2>1, <4>2
      <4> QED
        BY <4>1, <4>3
    <3>3. \A m, n \in DOMAIN done' : m < n => done'[m] < done'[n]
      BY <1>3, <2>1, <3>1
    <3>4. Bin!ToSet(done') = IF Bin!Asked(decl) THEN Bin!ToSet(done) \cup {decl} ELSE Bin!ToSet(done)
      BY <2>1, <3>1 DEF Bin!ToSet
    <3>5. Bin!ToSet(done') = {d \in 1 .. decl : Bin!Asked(d)}
      BY <1>3, <3>1, <3>4
    <3>6. decl' \in Nat \ {0} /\ decl' - 1 = decl
      BY <1>1, <1>3, DriverConstants
    <3> QED
      BY <1>4, <3>2, <3>3, <3>5, <3>6 DEF RanInOrder
  <2>3. DOMAIN decl_states' = DOMAIN lock_names' /\ (Bin!Filtered' => NamesKnown')
    BY <1>1, <1>2, <1>3, <1>4, NamesKnownNext
  <2> QED
    BY <1>1, <1>6, <2>2, <2>3 DEF ChoiceInv
<1> QED
  BY <1>5, <1>6 DEF Bin!RunDecl

LEMMA ReportNext == ASSUME ChoiceInv, Bin!Report PROVE ChoiceInv'
<1>1. /\ driver_main = "run" /\ decl > Len(lock_list) /\ driver_main' \in {"print", "done"}
      /\ missing' = {n \in DOMAIN lock_names : Bin!Filtered /\ "ran" \notin decl_states[n]}
      /\ UNCHANGED <<opts, lock_names, decl, decl_states, done>>
  BY DEF Bin!Report, Bin!parse
<1>2. RanInOrder /\ (Bin!Filtered => NamesKnown)
  BY <1>1 DEF ChoiceInv
<1>3. /\ Bin!Filtered' <=> Bin!Filtered
      /\ \A d : Bin!Asked(d)' <=> Bin!Asked(d)
  BY <1>1 DEF Bin!Filtered, Bin!Asked, Bin!MatchesOf, Bin!ToSet
<1>4. RanInOrder'
  BY <1>1, <1>2, <1>3 DEF RanInOrder, Bin!ToSet
<1>5. ASSUME Bin!Filtered, NEW n \in DOMAIN lock_names
      PROVE  "ran" \notin decl_states[n] <=> Bin!MatchesOf(lock_names[n]) = {}
  <2>1. "ran" \in decl_states[n] <=> \E e \in Bin!MatchesOf(lock_names[n]) : e < decl
    BY <1>2, <1>5 DEF NamesKnown
  <2>2. \A e \in Bin!MatchesOf(lock_names[n]) : e < decl
    BY <1>1, <1>2, DriverConstants DEF RanInOrder
  <2> QED
    BY <2>1, <2>2
<1>6. MissingAsked'
  BY <1>1, <1>3, <1>5 DEF MissingAsked, Bin!MatchesOf
<1> QED
  BY <1>1, <1>4, <1>6 DEF ChoiceInv

LEMMA ValidateNext == ASSUME ChoiceInv, Bin!Validate PROVE ChoiceInv'
<1>1. /\ driver_main = "validate" /\ driver_main' \in {"run", "died"}
      /\ decl_states' = [n \in DOMAIN lock_names |-> {}] /\ UNCHANGED <<opts, lock_names, decl, done>>
  BY DEF Bin!Validate, Bin!parse
<1>2. decl' = 1 /\ done' = <<>>
  BY <1>1 DEF ChoiceInv
<1>3. RanInOrder'
  BY <1>2 DEF RanInOrder, Bin!ToSet
<1>4. NamesKnown'
  BY <1>1, <1>2, DriverConstants DEF NamesKnown, Bin!MatchesOf
<1> QED
  BY <1>1, <1>3, <1>4 DEF ChoiceInv

LEMMA ChoiceInit == Bin!Init => ChoiceInv
  BY DEF Bin!Init, ChoiceInv

LEMMA ChoiceNext == ChoiceInv /\ [Bin!Next]_(Bin!vars) => ChoiceInv'
<1> SUFFICES ASSUME ChoiceInv, [Bin!Next]_(Bin!vars) PROVE ChoiceInv'
  OBVIOUS
<1>1. CASE Bin!ParseSet \/ Bin!ParseInteger \/ Bin!ParseString \/ Bin!ParseRest
  BY <1>1 DEF Bin!ParseSet, Bin!ParseInteger, Bin!ParseString, Bin!ParseRest, Bin!AtOption, Bin!search, ChoiceInv
<1>2. CASE Bin!ParseExits
  BY <1>2 DEF Bin!ParseExits, ChoiceInv
<1>3. CASE Bin!RunFails \/ Bin!PrintStats
  BY <1>3, ChoiceApart DEF Bin!RunFails, Bin!PrintStats, Bin!parse, Bin!search
<1>4. CASE UNCHANGED Bin!vars
  BY <1>4, ChoiceApart DEF Bin!vars, Bin!parse, Bin!search
<1> QED
  BY <1>1, <1>2, <1>3, <1>4, ValidateNext, RunDeclNext, ReportNext DEF Bin!Next

\* should_run_decl() with the states it keeps of each name runs what the names
\* mean: each lock once, in the order of the list, and the names without a '*'
\* only the first lock they match; run_decls() reports the names that match none.
THEOREM RunsWhatWasAskedHolds == Programs => []RunsWhatWasAsked
<1>1. ChoiceInv => RunsWhatWasAsked
  BY DEF ChoiceInv, RanInOrder, MissingAsked, RunsWhatWasAsked, Bin!RunsWhatWasAsked
<1> QED
  BY <1>1, ChoiceInit, ChoiceNext, DriverRuns, PTL
-----------------------------------------------------------------------------
\* The parser: the words before the next one are options and their values, and
\* the variables are what they make of them.
Read(n, values) ==
  /\ values \subseteq 1 .. n /\ Bin!OptionWords(argv, n, values)
  /\ \A w \in DOMAIN Bin!Integer : opts[Bin!Integer[w]] = Bin!Number(argv, Bin!Integer[w], values)
  /\ \A w \in DOMAIN Bin!Set : opts[Bin!Set[w]] = 1 <=> Bin!IsGiven(argv, Bin!Set[w], n, values)
  /\ cpu_list = Bin!Text(argv, values)

\* The steps of the parser, on the word after the first n.
TakesFlag(n) ==
  /\ argv[n + 1] \in DOMAIN Bin!Set
  /\ opts' = [opts EXCEPT ![Bin!Set[argv[n + 1]]] = 1] /\ argv' = argv /\ cpu_list' = cpu_list

TakesNumber(n) ==
  /\ argv[n + 1] \in DOMAIN Bin!Integer
  /\ opts' = IF argv[n + 2] \in DOMAIN NumberOf
             THEN [opts EXCEPT ![Bin!Integer[argv[n + 1]]] = Bin!Truncated(Bin!Integer[argv[n + 1]], NumberOf[argv[n + 2]])]
             ELSE opts
  /\ argv' = argv /\ cpu_list' = cpu_list

TakesText(n) == argv[n + 1] \in Bin!String /\ cpu_list' = argv[n + 2] /\ argv' = argv /\ opts' = opts

ContinuesAt(n) ==
  /\ driver_main = "parse" /\ driver_main' = "parse" /\ n <= Len(argv) /\ driver_i' = n + 1
  /\ argv' = argv /\ DOMAIN opts' = DOMAIN opts

ParseInv ==
  /\ argv \in Seq(STRING) /\ driver_i \in 1 .. Len(argv) + 1 /\ DOMAIN opts = Bin!Dests
  /\ driver_main = "parse" => \E n \in Nat : driver_i = n + 1 /\ \E values : Read(n, values)
  /\ ParsedAsWritten

\* No word is an option of two kinds, and no variable is assigned by two kinds.
LEMMA OptionTables ==
  /\ \A w \in DOMAIN Bin!Set : /\ w \notin DOMAIN Bin!Integer \cup Bin!String
                               /\ Bin!Set[w] \in Bin!Dests /\ Bin!Defaults[Bin!Set[w]] = 0
                               /\ \A v \in DOMAIN Bin!Integer : Bin!Set[w] # Bin!Integer[v]
  /\ \A w \in DOMAIN Bin!Integer : w \notin Bin!String /\ Bin!Integer[w] \in Bin!Dests
  /\ DOMAIN Bin!Defaults = Bin!Dests
<1> DEFINE flags == {"do_list", "do_bench", "do_test", "stats_csv", "run_all", "with_sched_stats", "bench_per_thread_work",
                     "bench_total_work", "prefer_hyper_threads", "pin_cpus"}
           numbers == {"verbosity", "contention", "num_cpus", "outer_iter", "cs_iter", "extra_iter", "num_threads", "num_trials"}
<1>1. \A w \in DOMAIN Bin!Set : Bin!Set[w] \in flags /\ w \notin DOMAIN Bin!Integer \cup Bin!String
  BY DEF Bin!Set, Bin!Integer, Bin!String
<1>2. \A w \in DOMAIN Bin!Integer : Bin!Integer[w] \in numbers /\ w \notin Bin!String
  BY DEF Bin!Integer, Bin!String
<1>3. /\ \A w \in DOMAIN Bin!Set : Bin!Set[w] \in Bin!Dests
      /\ \A w \in DOMAIN Bin!Integer : Bin!Integer[w] \in Bin!Dests
  BY DEF Bin!Dests
<1>4. DOMAIN Bin!Defaults = Bin!Dests /\ \A d \in Bin!Dests : d \in flags => Bin!Defaults[d] = 0
  BY DEF Bin!Defaults
<1>5. flags \cap numbers = {}
  OBVIOUS
<1> HIDE DEF flags, numbers
<1> QED
  BY <1>1, <1>2, <1>3, <1>4, <1>5

\* A word that is an option without a value.
LEMMA FlagWord ==
  ASSUME NEW words, NEW n \in Nat, NEW values, values \subseteq 1 .. n, Bin!OptionWords(words, n, values),
         words[n + 1] \in DOMAIN Bin!Set
  PROVE  /\ Bin!OptionWords(words, n + 1, values)
         /\ \A d : Bin!IsGiven(words, d, n + 1, values) <=> Bin!IsGiven(words, d, n, values) \/ Bin!Set[words[n + 1]] = d
<1>1. n + 1 \notin values /\ (1 .. n + 1) \ values = ((1 .. n) \ values) \cup {n + 1}
  OBVIOUS
<1>2. ~Bin!TakesValue(words[n + 1]) /\ words[n + 1] \in Bin!Dashed
  BY OptionTables DEF Bin!TakesValue, Bin!Dashed, Bin!Flags
<1>3. Bin!OptionWords(words, n + 1, values)
  <2>1. \A p \in 1 .. n + 1 : p \in 1 .. n \/ p = n + 1
    OBVIOUS
  <2>2. n + 1 - 1 = n /\ (n + 1 > 1 => n # 0)
    OBVIOUS
  <2>3. \A p \in 1 .. n : p \in values <=> p > 1 /\ p - 1 \notin values /\ Bin!TakesValue(words[p - 1])
    BY DEF Bin!OptionWords
  <2>4. ~(n + 1 > 1 /\ n \notin values /\ Bin!TakesValue(words[n]))
    BY <2>2 DEF Bin!OptionWords
  <2>5. \A p \in 1 .. n + 1 : p \in values <=> p > 1 /\ p - 1 \notin values /\ Bin!TakesValue(words[p - 1])
    BY <1>1, <2>1, <2>2, <2>3, <2>4
  <2>6. \A p \in (1 .. n + 1) \ values : words[p] \in Bin!Dashed
    BY <1>1, <1>2 DEF Bin!OptionWords
  <2> QED
    BY <1>2, <2>5, <2>6 DEF Bin!OptionWords
<1>4. \A d : Bin!IsGiven(words, d, n + 1, values) <=> Bin!IsGiven(words, d, n, values) \/ Bin!Set[words[n + 1]] = d
  BY <1>1 DEF Bin!IsGiven
<1> QED
  BY <1>3, <1>4

\* An option and its value.
LEMMA PairOfWords ==
  ASSUME NEW words, NEW n \in Nat, NEW values, values \subseteq 1 .. n, Bin!OptionWords(words, n, values),
         words[n + 1] \in DOMAIN Bin!Integer \cup Bin!String
  PROVE  /\ values \cup {n + 2} \subseteq 1 .. n + 2
         /\ Bin!OptionWords(words, n + 2, values \cup {n + 2})
         /\ \A w \in DOMAIN Bin!Set :
              Bin!IsGiven(words, Bin!Set[w], n + 2, values \cup {n + 2}) <=> Bin!IsGiven(words, Bin!Set[w], n, values)
<1> DEFINE more == values \cup {n + 2}
<1>1. more \subseteq 1 .. n + 2 /\ n + 1 \notin more /\ n + 2 \in more /\ \A p \in 0 .. n : p \in more <=> p \in values
  <2>1. n + 2 \in 1 .. n + 2 /\ n + 1 # n + 2 /\ n + 1 \notin 1 .. n /\ \A p \in 1 .. n : p \in 1 .. n + 2
    OBVIOUS
  <2>2. \A p \in 0 .. n : p # n + 2
    OBVIOUS
  <2> QED
    BY <2>1, <2>2
<1>2. Bin!TakesValue(words[n + 1]) /\ words[n + 1] \in Bin!Dashed /\ words[n + 1] \notin DOMAIN Bin!Set
  BY OptionTables DEF Bin!TakesValue, Bin!Dashed, Bin!Flags
<1>3. n + 1 - 1 = n /\ n + 2 - 1 = n + 1 /\ (n + 1 > 1 => n # 0) /\ n + 2 > 1 /\ n + 2 # 0 /\ n \in 0 .. n
  OBVIOUS
<1>4. \A p \in 1 .. n + 2 : p \in 1 .. n \/ p = n + 1 \/ p = n + 2
  OBVIOUS
<1>5. \A p \in 1 .. n : p \in 0 .. n /\ p - 1 \in 0 .. n
  OBVIOUS
<1> HIDE DEF more
<1>6. Bin!OptionWords(words, n + 2, more)
  <2>1. \A p \in 1 .. n : p \in more <=> p > 1 /\ p - 1 \notin more /\ Bin!TakesValue(words[p - 1])
    BY <1>1, <1>5 DEF Bin!OptionWords
  <2>2. ~(n + 1 > 1 /\ n \notin more /\ Bin!TakesValue(words[n]))
    BY <1>1, <1>3 DEF Bin!OptionWords
  <2>3. \A p \in 1 .. n + 2 : p \in more <=> p > 1 /\ p - 1 \notin more /\ Bin!TakesValue(words[p - 1])
    <3> TAKE p \in 1 .. n + 2
    <3>1. CASE p \in 1 .. n
      BY <2>1, <3>1
    <3>2. CASE p = n + 1
      BY <1>1, <1>3, <2>2, <3>2
    <3>3. CASE p = n + 2
      BY <1>1, <1>2, <1>3, <3>3
    <3> QED
      BY <1>4, <3>1, <3>2, <3>3
  <2>4. \A p \in (1 .. n) \ values : words[p] \in Bin!Dashed
    BY DEF Bin!OptionWords
  <2>5. \A p \in (1 .. n + 2) \ more : words[p] \in Bin!Dashed
    BY <1>1, <1>2, <1>4, <1>5, <2>4
  <2> QED
    BY <1>1, <2>3, <2>5 DEF Bin!OptionWords
<1>7. \A p : p \in (1 .. n + 2) \ more <=> p \in (1 .. n) \ values \/ p = n + 1
  <2>1. n + 1 \in 1 .. n + 2 /\ \A p \in 1 .. n : p \in 1 .. n + 2
    OBVIOUS
  <2> QED
    BY <1>1, <1>4, <1>5, <2>1
<1>8. \A w \in DOMAIN Bin!Set : Bin!IsGiven(words, Bin!Set[w], n + 2, more) <=> Bin!IsGiven(words, Bin!Set[w], n, values)
  BY <1>2, <1>7 DEF Bin!IsGiven
<1> QED
  BY <1>1, <1>6, <1>8 DEF more

LEMMA LastIsMax == ASSUME NEW n \in Nat, NEW S \in SUBSET (1 .. n) PROVE Bin!Max(S \cup {n + 2}) = n + 2
<1> DEFINE more == S \cup {n + 2}
<1>1. n + 2 \in more /\ \A y \in more : y \in Int /\ n + 2 >= y
  OBVIOUS
<1> HIDE DEF more
<1>2. Bin!Max(more) \in more /\ \A y \in more : Bin!Max(more) >= y
  BY <1>1, Zenon DEF Bin!Max
<1>3. Bin!Max(more) >= n + 2 /\ n + 2 >= Bin!Max(more) /\ Bin!Max(more) \in Int
  BY <1>1, <1>2
<1>4. Bin!Max(more) = n + 2
  BY <1>3
<1> QED
  BY <1>4 DEF more

\* What an option and its value make of a number.
WithPair(words, n, d, before) ==
  IF words[n + 1] \in DOMAIN Bin!Integer /\ Bin!Integer[words[n + 1]] = d /\ words[n + 2] \in DOMAIN NumberOf
  THEN Bin!Truncated(d, NumberOf[words[n + 2]]) ELSE before

\* The value of an option for a number replaces what was given before.
LEMMA NumberPair ==
  ASSUME NEW n \in Nat, NEW values, values \subseteq 1 .. n, NEW d
  PROVE  /\ Bin!Number(argv, d, values \cup {n + 2}) = WithPair(argv, n, d, Bin!Number(argv, d, values))
         /\ argv[n + 1] \notin DOMAIN Bin!Integer =>
              Bin!Number(argv, d, values \cup {n + 2}) = Bin!Number(argv, d, values)
<1> DEFINE old == Bin!Numbers(argv, d, values)
           new == Bin!Numbers(argv, d, values \cup {n + 2})
           counts == argv[n + 1] \in DOMAIN Bin!Integer /\ Bin!Integer[argv[n + 1]] = d /\ argv[n + 2] \in DOMAIN NumberOf
<1>1. n + 2 - 1 = n + 1
  OBVIOUS
<1>2. new = IF counts THEN old \cup {n + 2} ELSE old
  BY <1>1 DEF Bin!Numbers
<1>3. old \in SUBSET (1 .. n)
  BY DEF Bin!Numbers
<1>4. Bin!Max(old \cup {n + 2}) = n + 2 /\ old \cup {n + 2} # {}
  BY <1>3, LastIsMax
<1> HIDE DEF old, new, counts
<1>5. Bin!Number(argv, d, values) = IF old = {} THEN Bin!Defaults[d] ELSE Bin!Truncated(d, NumberOf[argv[Bin!Max(old)]])
  BY DEF Bin!Number, old
<1>6. Bin!Number(argv, d, values \cup {n + 2}) =
        IF new = {} THEN Bin!Defaults[d] ELSE Bin!Truncated(d, NumberOf[argv[Bin!Max(new)]])
  BY DEF Bin!Number, new
<1>7. CASE counts
  <2>1. new # {} /\ Bin!Max(new) = n + 2
    BY <1>2, <1>4, <1>7
  <2>2. Bin!Number(argv, d, values \cup {n + 2}) = Bin!Truncated(d, NumberOf[argv[n + 2]])
    BY <1>6, <2>1, Zenon
  <2> QED
    BY <1>7, <2>2, Zenon DEF counts, WithPair
<1>8. CASE ~counts
  <2>1. Bin!Number(argv, d, values \cup {n + 2}) = Bin!Number(argv, d, values)
    <3>1. new = old
      BY <1>2, <1>8
    <3> QED
      BY <1>5, <1>6, <3>1
  <2> QED
    BY <1>8, <2>1, Zenon DEF counts, WithPair
<1> QED
  BY <1>7, <1>8

LEMMA TextPair ==
  ASSUME NEW words, NEW n \in Nat, NEW values, values \subseteq 1 .. n
  PROVE  Bin!Text(words, values \cup {n + 2}) = IF words[n + 1] \in Bin!String THEN words[n + 2] ELSE Bin!Text(words, values)
<1> DEFINE old == Bin!CpuLists(words, values)
           new == Bin!CpuLists(words, values \cup {n + 2})
<1>1. n + 2 - 1 = n + 1
  OBVIOUS
<1>2. new = IF words[n + 1] \in Bin!String THEN old \cup {n + 2} ELSE old
  BY <1>1 DEF Bin!CpuLists
<1>3. old \in SUBSET (1 .. n)
  BY DEF Bin!CpuLists
<1>4. Bin!Max(old \cup {n + 2}) = n + 2 /\ old \cup {n + 2} # {}
  BY <1>3, LastIsMax
<1> HIDE DEF old, new
<1>5. Bin!Text(words, values) = IF old = {} THEN "" ELSE words[Bin!Max(old)]
  BY Zenon DEF Bin!Text, old
<1>6. Bin!Text(words, values \cup {n + 2}) = IF new = {} THEN "" ELSE words[Bin!Max(new)]
  BY Zenon DEF Bin!Text, new
<1> QED
  BY <1>2, <1>4, <1>5, <1>6, Zenon

LEMMA ReadFlag ==
  ASSUME DOMAIN opts = Bin!Dests, NEW n \in Nat, NEW values, Read(n, values), TakesFlag(n)
  PROVE  Read(n + 1, values)'
<1>0. /\ argv[n + 1] \in DOMAIN Bin!Set /\ argv' = argv /\ cpu_list' = cpu_list
      /\ opts' = [opts EXCEPT ![Bin!Set[argv[n + 1]]] = 1]
  BY DEF TakesFlag
<1>1. /\ values \subseteq 1 .. n /\ Bin!OptionWords(argv, n, values) /\ cpu_list = Bin!Text(argv, values)
      /\ \A w \in DOMAIN Bin!Integer : opts[Bin!Integer[w]] = Bin!Number(argv, Bin!Integer[w], values)
      /\ \A w \in DOMAIN Bin!Set : opts[Bin!Set[w]] = 1 <=> Bin!IsGiven(argv, Bin!Set[w], n, values)
  BY DEF Read
<1>2. /\ Bin!OptionWords(argv, n + 1, values)
      /\ \A d : Bin!IsGiven(argv, d, n + 1, values) <=> Bin!IsGiven(argv, d, n, values) \/ Bin!Set[argv[n + 1]] = d
  BY <1>0, <1>1, FlagWord
<1>3. \A w \in DOMAIN Bin!Integer : opts'[Bin!Integer[w]] = opts[Bin!Integer[w]]
  BY <1>0, OptionTables
<1>4. \A w \in DOMAIN Bin!Set : opts'[Bin!Set[w]] = IF Bin!Set[w] = Bin!Set[argv[n + 1]] THEN 1 ELSE opts[Bin!Set[w]]
  BY <1>0, OptionTables
<1>5. values \subseteq 1 .. n + 1
  BY <1>1
<1>6. \A w \in DOMAIN Bin!Set : opts'[Bin!Set[w]] = 1 <=> Bin!IsGiven(argv, Bin!Set[w], n + 1, values)
  BY <1>1, <1>2, <1>4, Zenon
<1>7. \A w \in DOMAIN Bin!Integer : opts'[Bin!Integer[w]] = Bin!Number(argv, Bin!Integer[w], values)
  BY <1>1, <1>3, Zenon
<1> QED
  BY <1>0, <1>1, <1>2, <1>5, <1>6, <1>7, Zenon DEF Read

LEMMA ReadNumber ==
  ASSUME DOMAIN opts = Bin!Dests, NEW n \in Nat, NEW values, Read(n, values), TakesNumber(n)
  PROVE  Read(n + 2, values \cup {n + 2})'
<1> DEFINE more == values \cup {n + 2}
           dest == Bin!Integer[argv[n + 1]]
<1>0. /\ argv[n + 1] \in DOMAIN Bin!Integer /\ argv' = argv /\ cpu_list' = cpu_list
      /\ opts' = IF argv[n + 2] \in DOMAIN NumberOf
                 THEN [opts EXCEPT ![dest] = Bin!Truncated(dest, NumberOf[argv[n + 2]])] ELSE opts
  BY DEF TakesNumber
<1>1. /\ values \subseteq 1 .. n /\ Bin!OptionWords(argv, n, values) /\ cpu_list = Bin!Text(argv, values)
      /\ \A w \in DOMAIN Bin!Integer : opts[Bin!Integer[w]] = Bin!Number(argv, Bin!Integer[w], values)
      /\ \A w \in DOMAIN Bin!Set : opts[Bin!Set[w]] = 1 <=> Bin!IsGiven(argv, Bin!Set[w], n, values)
  BY DEF Read
<1>2. /\ more \subseteq 1 .. n + 2 /\ Bin!OptionWords(argv, n + 2, more)
      /\ \A w \in DOMAIN Bin!Set : Bin!IsGiven(argv, Bin!Set[w], n + 2, more) <=> Bin!IsGiven(argv, Bin!Set[w], n, values)
  BY <1>0, <1>1, PairOfWords
<1>3. \A d : Bin!Number(argv, d, more) =
        IF dest = d /\ argv[n + 2] \in DOMAIN NumberOf
        THEN Bin!Truncated(d, NumberOf[argv[n + 2]]) ELSE Bin!Number(argv, d, values)
  <2> TAKE d
  <2>1. Bin!Number(argv, d, more) =
          IF argv[n + 1] \in DOMAIN Bin!Integer /\ dest = d /\ argv[n + 2] \in DOMAIN NumberOf
          THEN Bin!Truncated(d, NumberOf[argv[n + 2]]) ELSE Bin!Number(argv, d, values)
    <3>1. Bin!Number(argv, d, more) = WithPair(argv, n, d, Bin!Number(argv, d, values))
      BY <1>1, NumberPair, Zenon
    <3>2. argv[n + 1] \in DOMAIN Bin!Integer => Bin!Integer[argv[n + 1]] = dest
      BY <1>0, Zenon
    <3> QED
      BY <3>1, <3>2, <1>0, Zenon DEF WithPair
  <2> QED
    BY <1>0, <2>1, Zenon
<1>4. Bin!Text(argv, more) = Bin!Text(argv, values)
  <2>1. argv[n + 1] \notin Bin!String
    BY <1>0, OptionTables
  <2> QED
    BY <1>1, <2>1, TextPair
<1>5. \A w \in DOMAIN Bin!Set : opts'[Bin!Set[w]] = opts[Bin!Set[w]]
  BY <1>0, OptionTables
<1>6. ASSUME NEW w \in DOMAIN Bin!Integer
      PROVE  opts'[Bin!Integer[w]] = Bin!Number(argv, Bin!Integer[w], more)
  <2>1. Bin!Integer[w] \in DOMAIN opts
    BY <1>0, OptionTables
  <2>2. opts'[Bin!Integer[w]] = IF dest = Bin!Integer[w] /\ argv[n + 2] \in DOMAIN NumberOf
                                THEN Bin!Truncated(dest, NumberOf[argv[n + 2]]) ELSE opts[Bin!Integer[w]]
    BY <1>0, <2>1
  <2> QED
    BY <1>1, <1>3, <2>2, Zenon
<1>7. \A w \in DOMAIN Bin!Set : opts'[Bin!Set[w]] = 1 <=> Bin!IsGiven(argv, Bin!Set[w], n + 2, more)
  BY <1>1, <1>2, <1>5, Zenon
<1> HIDE DEF more
<1>9. Read(n + 2, more)'
  BY <1>0, <1>1, <1>2, <1>4, <1>6, <1>7, Zenon DEF Read
<1> QED
  BY <1>9 DEF more

LEMMA ReadString ==
  ASSUME NEW n \in Nat, NEW values, Read(n, values), TakesText(n)
  PROVE  Read(n + 2, values \cup {n + 2})'
<1> DEFINE more == values \cup {n + 2}
<1>0. argv[n + 1] \in Bin!String /\ cpu_list' = argv[n + 2] /\ argv' = argv /\ opts' = opts
  BY DEF TakesText
<1>1. /\ values \subseteq 1 .. n /\ Bin!OptionWords(argv, n, values)
      /\ \A w \in DOMAIN Bin!Integer : opts[Bin!Integer[w]] = Bin!Number(argv, Bin!Integer[w], values)
      /\ \A w \in DOMAIN Bin!Set : opts[Bin!Set[w]] = 1 <=> Bin!IsGiven(argv, Bin!Set[w], n, values)
  BY DEF Read
<1>2. /\ more \subseteq 1 .. n + 2 /\ Bin!OptionWords(argv, n + 2, more)
      /\ \A w \in DOMAIN Bin!Set : Bin!IsGiven(argv, Bin!Set[w], n + 2, more) <=> Bin!IsGiven(argv, Bin!Set[w], n, values)
  BY <1>0, <1>1, PairOfWords
<1>3. \A d : Bin!Number(argv, d, more) = Bin!Number(argv, d, values)
  <2>1. argv[n + 1] \notin DOMAIN Bin!Integer
    BY <1>0, OptionTables
  <2> QED
    <3>1. ASSUME NEW d PROVE Bin!Number(argv, d, more) = Bin!Number(argv, d, values)
      BY <1>1, <2>1, NumberPair, Zenon
    <3> QED
      BY <3>1, Zenon
<1>4. Bin!Text(argv, more) = argv[n + 2]
  BY <1>0, <1>1, TextPair
<1> HIDE DEF more
<1>6. Read(n + 2, more)'
  BY <1>0, <1>1, <1>2, <1>3, <1>4, Zenon DEF Read
<1> QED
  BY <1>6 DEF more

LEMMA ParseInit == Bin!Init => ParseInv
<1> SUFFICES ASSUME Bin!Init PROVE ParseInv
  OBVIOUS
<1>0. cpu_list = ""
  BY Zenon DEF Bin!Init
<1>1. argv \in Seq(STRING) /\ driver_i = 1 /\ driver_main = "parse" /\ opts = Bin!Defaults
  BY ProgramsAssumption, Zenon DEF Bin!Init, Bin!DriverAssumption
<1>2. Read(0, {})
  <2>1. Bin!OptionWords(argv, 0, {})
    BY DEF Bin!OptionWords
  <2>2. \A d : Bin!Number(argv, d, {}) = Bin!Defaults[d]
    <3>1. \A d : Bin!Numbers(argv, d, {}) = {}
      BY DEF Bin!Numbers
    <3> QED
      BY <3>1, Zenon DEF Bin!Number
  <2>3. Bin!Text(argv, {}) = ""
    <3>1. Bin!CpuLists(argv, {}) = {}
      BY DEF Bin!CpuLists
    <3> QED
      BY <3>1, Zenon DEF Bin!Text
  <2>4. \A d : ~Bin!IsGiven(argv, d, 0, {})
    BY DEF Bin!IsGiven
  <2>5. \A w \in DOMAIN Bin!Set : opts[Bin!Set[w]] # 1
    BY <1>1, OptionTables
  <2>6. {} \subseteq 1 .. 0
    OBVIOUS
  <2> QED
    BY <1>0, <1>1, <2>1, <2>2, <2>3, <2>4, <2>5, <2>6, Zenon DEF Read
<1>3. driver_i \in 1 .. Len(argv) + 1 /\ driver_i = 0 + 1 /\ 0 \in Nat
  BY <1>1
<1>4. DOMAIN opts = Bin!Dests
  BY <1>1, OptionTables
<1>5. ParsedAsWritten
  BY <1>1 DEF ParsedAsWritten, Bin!ParsedAsWritten
<1> QED
  BY <1>1, <1>2, <1>3, <1>4, <1>5, Zenon DEF ParseInv

LEMMA ParseNext == ParseInv /\ [Bin!Next]_(Bin!vars) => ParseInv'
<1> SUFFICES ASSUME ParseInv, [Bin!Next]_(Bin!vars) PROVE ParseInv'
  OBVIOUS
<1>0. PICK n \in Nat : driver_i = n + 1
  BY DEF ParseInv
<1>1. argv \in Seq(STRING) /\ Len(argv) \in Nat /\ n \in Nat /\ driver_i = n + 1 /\ n <= Len(argv) /\ DOMAIN opts = Bin!Dests
  BY <1>0 DEF ParseInv
<1>2. ASSUME driver_main = "parse" PROVE \E values : Read(n, values)
  <2>1. PICK m \in Nat : driver_i = m + 1 /\ \E values : Read(m, values)
    BY <1>2, Zenon DEF ParseInv
  <2>2. m = n
    BY <1>0, <2>1
  <2> QED
    BY <2>1, <2>2, Zenon
<1>3. ParsedAsWritten
  BY DEF ParseInv
<1>4. ASSUME NEW m \in Nat, ContinuesAt(m), NEW values, Read(m, values)'
      PROVE  ParseInv'
  <2>1. /\ driver_main = "parse" /\ driver_main' = "parse" /\ m <= Len(argv) /\ driver_i' = m + 1
        /\ argv' = argv /\ DOMAIN opts' = DOMAIN opts
    BY <1>4 DEF ContinuesAt
  <2>2. argv' \in Seq(STRING) /\ driver_i' \in 1 .. Len(argv') + 1 /\ driver_i' = m + 1 /\ DOMAIN opts' = Bin!Dests
    BY <1>1, <2>1
  <2>3. ParsedAsWritten'
    BY <2>1 DEF ParsedAsWritten, Bin!ParsedAsWritten
  <2>4. \E k \in Nat : driver_i' = k + 1 /\ \E v : Read(k, v)'
    BY <1>4, <2>2, Zenon
  <2> QED
    BY <2>2, <2>3, <2>4, Zenon DEF ParseInv
<1>6. CASE Bin!ParseSet
  <2>1. /\ driver_main = "parse" /\ driver_main' = "parse" /\ argv' = argv /\ cpu_list' = cpu_list /\ driver_i <= Len(argv)
        /\ argv[driver_i] \in DOMAIN Bin!Set /\ driver_i' = driver_i + 1 /\ opts' = [opts EXCEPT ![Bin!Set[argv[driver_i]]] = 1]
    BY <1>6 DEF Bin!ParseSet, Bin!AtOption
  <2>2. TakesFlag(n)
    BY <1>1, <2>1, Zenon DEF TakesFlag
  <2>3. ContinuesAt(n + 1) /\ n + 1 \in Nat
    BY <1>1, <2>1 DEF ContinuesAt
  <2>4. PICK values : Read(n, values)
    BY <1>2, <2>1
  <2>5. Read(n + 1, values)'
    BY <1>1, <2>2, <2>4, ReadFlag
  <2> QED
    BY <1>4, <2>3, <2>5
<1>7. CASE Bin!ParseInteger
  <2>1. /\ driver_main = "parse" /\ driver_main' = "parse" /\ argv' = argv /\ cpu_list' = cpu_list /\ driver_i < Len(argv)
        /\ argv[driver_i] \in DOMAIN Bin!Integer /\ driver_i' = driver_i + 2
        /\ opts' = IF argv[driver_i + 1] \in DOMAIN NumberOf
                   THEN [opts EXCEPT ![Bin!Integer[argv[driver_i]]] =
                           Bin!Truncated(Bin!Integer[argv[driver_i]], NumberOf[argv[driver_i + 1]])]
                   ELSE opts
    BY <1>7 DEF Bin!ParseInteger, Bin!AtOption
  <2>2. driver_i + 1 = n + 2 /\ driver_i' = n + 2 + 1 /\ n + 2 <= Len(argv) /\ n + 2 \in Nat
    BY <1>1, <2>1
  <2>3. TakesNumber(n)
    BY <1>1, <2>1, <2>2, Zenon DEF TakesNumber
  <2>4. ContinuesAt(n + 2)
    BY <2>1, <2>2 DEF ContinuesAt
  <2>5. PICK values : Read(n, values)
    BY <1>2, <2>1
  <2>6. Read(n + 2, values \cup {n + 2})'
    BY <1>1, <2>3, <2>5, ReadNumber
  <2> QED
    BY <1>4, <2>2, <2>4, <2>6
<1>8. CASE Bin!ParseString
  <2>1. /\ driver_main = "parse" /\ driver_main' = "parse" /\ argv' = argv /\ opts' = opts /\ driver_i < Len(argv)
        /\ argv[driver_i] \in Bin!String /\ driver_i' = driver_i + 2 /\ cpu_list' = argv[driver_i + 1]
    BY <1>8 DEF Bin!ParseString, Bin!AtOption
  <2>2. driver_i + 1 = n + 2 /\ driver_i' = n + 2 + 1 /\ n + 2 <= Len(argv) /\ n + 2 \in Nat
    BY <1>1, <2>1
  <2>3. TakesText(n)
    BY <1>1, <2>1, <2>2, Zenon DEF TakesText
  <2>4. ContinuesAt(n + 2)
    BY <2>1, <2>2 DEF ContinuesAt
  <2>5. PICK values : Read(n, values)
    BY <1>2, <2>1
  <2>6. Read(n + 2, values \cup {n + 2})'
    BY <1>1, <2>3, <2>5, ReadString
  <2> QED
    BY <1>4, <2>2, <2>4, <2>6
<1>9. ASSUME UNCHANGED Bin!parse, driver_main \notin {"parse", "usage"} \/ driver_main' \in {"parse", "usage"},
             driver_main' # "parse" \/ driver_main = "parse"
      PROVE  ParseInv'
  <2>1. argv' = argv /\ driver_i' = driver_i /\ opts' = opts /\ cpu_list' = cpu_list /\ lock_names' = lock_names
    BY <1>9 DEF Bin!parse
  <2>2. ParsedAsWritten'
    BY <1>3, <1>9, <2>1, Zenon DEF ParsedAsWritten, Bin!ParsedAsWritten
  <2>3. Bin!Dests' = Bin!Dests
    BY DEF Bin!Dests
  <2>4. driver_main' = "parse" => \E k \in Nat : driver_i' = k + 1 /\ \E values : Read(k, values)'
    <3>1. \A k, values : Read(k, values) => Read(k, values)'
      BY <2>1, Zenon DEF Read
    <3> QED
      BY <1>9, <2>1, <3>1, Zenon DEF ParseInv
  <2> QED
    BY <2>1, <2>2, <2>3, <2>4, Zenon DEF ParseInv
<1>10. CASE Bin!ParseExits
  BY <1>9, <1>10 DEF Bin!ParseExits
<1>11. CASE Bin!ParseRest
  <2>1. /\ driver_main = "parse" /\ driver_main' = "validate" /\ argv' = argv /\ driver_i' = driver_i /\ opts' = opts
        /\ cpu_list' = cpu_list /\ lock_names' = SubSeq(argv, driver_i, Len(argv))
        /\ driver_i <= Len(argv) => argv[driver_i] \notin Bin!Dashed
    BY <1>11 DEF Bin!ParseRest, Bin!AtOption
  <2>2. PICK values : Read(n, values)
    BY <1>2, <2>1
  <2>3. n \in 0 .. Len(argv) /\ (n < Len(argv) => driver_i <= Len(argv))
    BY <1>1
  <2>4. /\ values \in SUBSET (1 .. n) /\ Bin!OptionWords(argv, n, values) /\ cpu_list = Bin!Text(argv, values)
        /\ \A w \in DOMAIN Bin!Integer : opts[Bin!Integer[w]] = Bin!Number(argv, Bin!Integer[w], values)
        /\ \A w \in DOMAIN Bin!Set : opts[Bin!Set[w]] = 1 <=> Bin!IsGiven(argv, Bin!Set[w], n, values)
    BY <2>2, Zenon DEF Read
  <2>5. n < Len(argv) => argv[n + 1] \notin Bin!Dashed
    BY <1>1, <2>1, <2>3, Zenon
  <2>6. lock_names' = SubSeq(argv, n + 1, Len(argv))
    BY <1>1, <2>1, Zenon
  <2>7. ParsedAsWritten'
    BY <2>1, <2>3, <2>4, <2>5, <2>6, Zenon DEF ParsedAsWritten, Bin!ParsedAsWritten
  <2>8. Bin!Dests' = Bin!Dests
    BY DEF Bin!Dests
  <2> QED
    BY <1>1, <2>1, <2>7, <2>8 DEF ParseInv
<1>12. CASE Bin!Validate
  BY <1>9, <1>12 DEF Bin!Validate
<1>13. CASE Bin!RunDecl \/ Bin!RunFails \/ Bin!Report \/ Bin!PrintStats
  BY <1>9, <1>13 DEF Bin!RunDecl, Bin!RunFails, Bin!Report, Bin!PrintStats
<1>14. CASE UNCHANGED Bin!vars
  BY <1>9, <1>14 DEF Bin!vars
<1> QED
  BY <1>6, <1>7, <1>8, <1>10, <1>11, <1>12, <1>13, <1>14 DEF Bin!Next

\* doParse() takes the words for what they are, for any command line: a number is
\* the last one given for its option that strtol() can parse, in the width of its
\* variable, and the names begin at the first word that is neither option nor
\* value.
THEOREM ParsedAsWrittenHolds == Programs => []ParsedAsWritten
<1>1. ParseInv => ParsedAsWritten
  BY DEF ParseInv
<1> QED
  BY <1>1, ParseInit, ParseNext, DriverRuns, PTL
-----------------------------------------------------------------------------
\* Induction up to n with a set for the predicate.
LEMMA Climb ==
  ASSUME NEW n \in Nat, NEW S, 0 \in S, \A k \in 1 .. n : k - 1 \in S => k \in S
  PROVE  0 .. n \subseteq S
<1> DEFINE rest == (0 .. n) \ S
<1>1. SUFFICES ASSUME rest # {} PROVE FALSE
  OBVIOUS
<1>2. rest \subseteq Nat
  OBVIOUS
<1>3. PICK m \in rest : \A k \in rest : ~(<<k, m>> \in OpToRel(<, Nat))
  <2> HIDE DEF rest
  <2> QED
    BY <1>1, <1>2, NatLessThanWellFounded, WFMin
<1>4. \A k \in rest : ~(k < m)
  BY <1>2, <1>3 DEF OpToRel
<1>5. m \in 1 .. n /\ m - 1 \in (0 .. n) \ rest
  BY <1>4
<1> QED
  BY <1>5

\* The sums of the first elements, one by one.
Sums(s, f, n) == s = [k \in 0 .. n |-> IF k = 0 THEN 0 ELSE s[k - 1] + f[k]]

\* They exist for every length: each one more is the last one and an element.
LEMMA SumsExist ==
  ASSUME NEW n \in Nat, NEW f PROVE \E s : Sums(s, f, n)
<1> DEFINE S == {m \in 0 .. n : \E s : Sums(s, f, m)}
<1>1. 0 \in S
  <2>1. Sums([k \in 0 .. 0 |-> 0], f, 0)
    BY DEF Sums
  <2> QED
    BY <2>1
<1>2. ASSUME NEW m \in 1 .. n, m - 1 \in S PROVE m \in S
  <2>2. PICK s : Sums(s, f, m - 1)
    BY <1>2
  <2> DEFINE t == [k \in 0 .. m |-> IF k = m THEN s[m - 1] + f[m] ELSE s[k]]
  <2>3. \A k \in 0 .. m - 1 : s[k] = IF k = 0 THEN 0 ELSE s[k - 1] + f[k]
    BY <2>2 DEF Sums
  <2>4. \A k \in 0 .. m : t[k] = IF k = 0 THEN 0 ELSE t[k - 1] + f[k]
    BY <2>3
  <2>5. Sums(t, f, m)
    BY <2>4 DEF Sums
  <2> QED
    BY <2>5
<1>3. n \in S
  <2> HIDE DEF S
  <2> QED
    BY <1>1, <1>2, Climb
<1> QED
  BY <1>3

\* The loop of the code computes them.
LEMMA Sum ==
  ASSUME NEW n \in Nat, NEW f, \A k \in 1 .. n : f[k] \in Int
  PROVE  \E s \in [0 .. n -> Int] :
           s[n] = Bin!Added(f, n) /\ s[0] = 0 /\ \A k \in 1 .. n : s[k] = s[k - 1] + f[k]
<1> DEFINE s == CHOOSE t : t = [k \in 0 .. n |-> IF k = 0 THEN 0 ELSE t[k - 1] + f[k]]
<1>1. Bin!Added(f, n) = s[n]
  BY DEF Bin!Added
<1>2. s = [k \in 0 .. n |-> IF k = 0 THEN 0 ELSE s[k - 1] + f[k]]
  BY SumsExist DEF Sums
<1> HIDE DEF s
<1>3. DOMAIN s = 0 .. n /\ s[0] = 0 /\ \A k \in 1 .. n : s[k] = s[k - 1] + f[k]
  BY <1>2
<1> DEFINE S == {k \in 0 .. n : s[k] \in Int}
<1>4. 0 .. n \subseteq S
  <2>1. 0 \in S /\ \A k \in 1 .. n : k - 1 \in S => k \in S
    BY <1>3
  <2> HIDE DEF S
  <2> QED
    BY <2>1, Climb
<1>5. s \in [0 .. n -> Int]
  BY <1>2, <1>4
<1> QED
  BY <1>1, <1>3, <1>5

\* The sum of numbers lies between so many times the least and the greatest.
LEMMA SumBetween ==
  ASSUME NEW n \in Nat, NEW f, \A k \in 1 .. n : f[k] \in Int,
         NEW lo \in Int, NEW hi \in Int, \A k \in 1 .. n : lo <= f[k] /\ f[k] <= hi
  PROVE  Bin!Added(f, n) \in Int /\ n * lo <= Bin!Added(f, n) /\ Bin!Added(f, n) <= n * hi
<1>1. PICK s \in [0 .. n -> Int] :
           s[n] = Bin!Added(f, n) /\ s[0] = 0 /\ \A k \in 1 .. n : s[k] = s[k - 1] + f[k]
  BY Sum
<1> DEFINE S == {k \in 0 .. n : k * lo <= s[k] /\ s[k] <= k * hi}
<1>2. 0 \in S
  BY <1>1
<1>3. ASSUME NEW k \in 1 .. n, k - 1 \in S PROVE k \in S
  <2>1. s[k] = s[k - 1] + f[k] /\ s[k] \in Int /\ s[k - 1] \in Int /\ f[k] \in Int /\ lo <= f[k] /\ f[k] <= hi
    BY <1>1
  <2>2. (k - 1) * lo <= s[k - 1] /\ s[k - 1] <= (k - 1) * hi
    BY <1>3
  <2>3. (k - 1) * lo = k * lo - lo /\ (k - 1) * hi = k * hi - hi /\ k * lo \in Int /\ k * hi \in Int
    OBVIOUS
  <2> QED
    BY <2>1, <2>2, <2>3
<1>4. 0 .. n \subseteq S
  <2> HIDE DEF S
  <2> QED
    BY <1>2, <1>3, Climb
<1> QED
  BY <1>1, <1>4

\* The sum of numbers that are not negative is 0 when they all are.
LEMMA SumZero ==
  ASSUME NEW n \in Nat, NEW f, \A k \in 1 .. n : f[k] \in Nat
  PROVE  Bin!Added(f, n) = 0 <=> \A k \in 1 .. n : f[k] = 0
<1>0. \A k \in 1 .. n : f[k] \in Int
  OBVIOUS
<1>1. PICK s \in [0 .. n -> Int] :
           s[n] = Bin!Added(f, n) /\ s[0] = 0 /\ \A k \in 1 .. n : s[k] = s[k - 1] + f[k]
  BY <1>0, Sum
<1> DEFINE S == {k \in 0 .. n : s[k] >= 0 /\ (s[k] = 0 <=> \A l \in 1 .. k : f[l] = 0)}
<1>2. 0 \in S
  BY <1>1
<1>3. ASSUME NEW k \in 1 .. n, k - 1 \in S PROVE k \in S
  <2>1. s[k] = s[k - 1] + f[k] /\ s[k] \in Int /\ s[k - 1] \in Int /\ f[k] \in Nat
    BY <1>1
  <2>2. s[k - 1] >= 0 /\ (s[k - 1] = 0 <=> \A l \in 1 .. k - 1 : f[l] = 0)
    BY <1>3
  <2>3. s[k] >= 0 /\ (s[k] = 0 <=> s[k - 1] = 0 /\ f[k] = 0)
    BY <2>1, <2>2
  <2>4. (\A l \in 1 .. k : f[l] = 0) <=> f[k] = 0 /\ \A l \in 1 .. k - 1 : f[l] = 0
    OBVIOUS
  <2> QED
    BY <2>2, <2>3, <2>4
<1>4. 0 .. n \subseteq S
  <2> HIDE DEF S
  <2> QED
    BY <1>2, <1>3, Climb
<1> QED
  BY <1>1, <1>4

\* The instance of the driver has a Cardinality of its own, the same.
LEMMA SameCardinality == ASSUME NEW S PROVE Bin!Cardinality(S) = Cardinality(S)
  BY DEF Bin!Cardinality, Cardinality, Bin!IsFiniteSet, IsFiniteSet

\* The elements that go before an element or take its place, and their number.
UpTo(f, i) == {j \in DOMAIN f : f[j] < f[i] \/ (f[j] = f[i] /\ j <= i)}
Place(f) == [i \in DOMAIN f |-> Cardinality(UpTo(f, i))]

\* Each element has its own place, and before it go those that are not larger.
LEMMA Places ==
  ASSUME NEW n \in Nat, NEW f \in [1 .. n -> Int]
  PROVE  /\ Place(f) \in [1 .. n -> 1 .. n]
         /\ \A i, j \in 1 .. n : Place(f)[i] = Place(f)[j] => i = j
         /\ \A p \in 1 .. n : \E i \in 1 .. n : Place(f)[i] = p
         /\ \A i, j \in 1 .. n : Place(f)[i] <= Place(f)[j] => f[i] <= f[j]
<1>1. IsFiniteSet(1 .. n) /\ Cardinality(1 .. n) = n
  <2>1. IsFiniteSet(1 .. n) /\ Cardinality(1 .. n) = IF 1 > n THEN 0 ELSE n - 1 + 1
    BY FS_Interval
  <2> QED
    BY <2>1
<1>2. ASSUME NEW i \in 1 .. n
      PROVE  /\ UpTo(f, i) \in SUBSET (1 .. n) /\ i \in UpTo(f, i)
             /\ IsFiniteSet(UpTo(f, i)) /\ Cardinality(UpTo(f, i)) \in 1 .. n
  <2>1. UpTo(f, i) \in SUBSET (1 .. n) /\ i \in UpTo(f, i)
    BY DEF UpTo
  <2>2. IsFiniteSet(UpTo(f, i)) /\ Cardinality(UpTo(f, i)) <= n
    BY <1>1, <2>1, FS_Subset
  <2>3. Cardinality(UpTo(f, i)) \in Nat /\ Cardinality(UpTo(f, i)) # 0
    BY <2>1, <2>2, FS_CardinalityType, FS_EmptySet
  <2> QED
    BY <2>1, <2>2, <2>3
<1>3. ASSUME NEW i \in 1 .. n, NEW j \in 1 .. n, f[i] < f[j] \/ (f[i] = f[j] /\ i < j)
      PROVE  Cardinality(UpTo(f, i)) < Cardinality(UpTo(f, j))
  <2>1. UpTo(f, i) \in SUBSET UpTo(f, j)
    BY <1>3 DEF UpTo
  <2>2. j \notin UpTo(f, i) /\ j \in UpTo(f, j)
    BY <1>3 DEF UpTo
  <2>3. Cardinality(UpTo(f, i)) <= Cardinality(UpTo(f, j)) /\ Cardinality(UpTo(f, i)) # Cardinality(UpTo(f, j))
    BY <1>2, <2>1, <2>2, FS_Subset
  <2> QED
    BY <1>2, <2>3
<1>4. \A i \in 1 .. n : Place(f)[i] = Cardinality(UpTo(f, i))
  BY DEF Place
<1>5. Place(f) \in [1 .. n -> 1 .. n]
  BY <1>2 DEF Place
<1>6. ASSUME NEW i \in 1 .. n, NEW j \in 1 .. n
      PROVE  /\ Place(f)[i] = Place(f)[j] => i = j
             /\ Place(f)[i] <= Place(f)[j] => f[i] <= f[j]
  <2>1. \/ f[i] < f[j] \/ (f[i] = f[j] /\ i < j)
        \/ f[j] < f[i] \/ (f[j] = f[i] /\ j < i)
        \/ i = j
    OBVIOUS
  <2>2. Place(f)[i] \in Int /\ Place(f)[j] \in Int /\ f[i] \in Int /\ f[j] \in Int
    BY <1>5
  <2> QED
    BY <1>3, <1>4, <2>1, <2>2
<1>7. Place(f) \in Injection(1 .. n, 1 .. n)
  BY <1>5, <1>6 DEF Injection, IsInjective
<1>8. Place(f) \in Surjection(1 .. n, 1 .. n)
  BY <1>1, <1>7, FS_Injection
<1>9. \A p \in 1 .. n : \E i \in 1 .. n : Place(f)[i] = p
  BY <1>8 DEF Surjection
<1> QED
  BY <1>5, <1>6, <1>9

\* What sorting yields: the same elements in the order of their places.
LEMMA SortedByPlace ==
  ASSUME NEW n \in Nat, NEW f \in [1 .. n -> Int]
  PROVE  /\ Bin!Sorted(f) \in [1 .. n -> Int]
         /\ \A i \in 1 .. n : Bin!Sorted(f)[Place(f)[i]] = f[i]
         /\ \A p, q \in 1 .. n : p <= q => Bin!Sorted(f)[p] <= Bin!Sorted(f)[q]
<1>0. /\ Place(f) \in [1 .. n -> 1 .. n]
      /\ \A i, j \in 1 .. n : Place(f)[i] = Place(f)[j] => i = j
      /\ \A p \in 1 .. n : \E i \in 1 .. n : Place(f)[i] = p
      /\ \A i, j \in 1 .. n : Place(f)[i] <= Place(f)[j] => f[i] <= f[j]
  BY Places
<1> DEFINE at(p) == CHOOSE i \in 1 .. n : Place(f)[i] = p
<1>1. \A p \in 1 .. n : Bin!Sorted(f)[p] = f[at(p)]
  <2>1. ASSUME NEW i \in 1 .. n
        PROVE  Bin!Cardinality({j \in DOMAIN f : f[j] < f[i] \/ (f[j] = f[i] /\ j <= i)}) = Place(f)[i]
    BY SameCardinality DEF Place, UpTo
  <2>2. DOMAIN f = 1 .. n
    OBVIOUS
  <2> QED
    BY <2>1, <2>2 DEF Bin!Sorted
<1>2. DOMAIN Bin!Sorted(f) = 1 .. n /\ Bin!Sorted(f) = [p \in DOMAIN f |-> Bin!Sorted(f)[p]]
  BY DEF Bin!Sorted
<1>3. \A p \in 1 .. n : at(p) \in 1 .. n /\ Place(f)[at(p)] = p
  BY <1>0
<1>4. \A i \in 1 .. n : Place(f)[i] \in 1 .. n /\ at(Place(f)[i]) = i
  <2>1. \A i, j \in 1 .. n : Place(f)[i] \in 1 .. n /\ (Place(f)[i] = Place(f)[j] => i = j)
    BY <1>0
  <2> QED
    BY <1>3, <2>1
<1> HIDE DEF at
<1>5. \A p, q \in 1 .. n : p <= q => f[at(p)] <= f[at(q)]
  <2>1. ASSUME NEW p \in 1 .. n, NEW q \in 1 .. n, p <= q PROVE f[at(p)] <= f[at(q)]
    <3>1. at(p) \in 1 .. n /\ at(q) \in 1 .. n /\ Place(f)[at(p)] = p /\ Place(f)[at(q)] = q
      BY <1>3, Zenon
    <3>2. Place(f)[at(p)] <= Place(f)[at(q)]
      BY <2>1, <3>1, Zenon
    <3> QED
      BY <1>0, <3>1, <3>2, Zenon
  <2> QED
    BY <2>1
<1>6. \A p \in 1 .. n : f[at(p)] \in Int
  BY <1>3
<1> QED
  BY <1>1, <1>2, <1>4, <1>5, <1>6

\* An array of n elements.
LEMMA LengthOf ==
  ASSUME NEW n \in Nat, NEW S, NEW d \in [1 .. n -> S] PROVE Len(d) = n /\ DOMAIN d = 1 .. n
<1>1. d \in Seq(S)
  OBVIOUS
<1> QED
  BY <1>1

\* An array in order, as it is after sorting.
InOrder(d, n) == d \in [1 .. n -> Int] /\ \A p, q \in 1 .. n : p <= q => d[p] <= d[q]

\* Percentile p is the element at index idx, or between this and the next.
LiesAt(d, n, p, idx, r) ==
  /\ p * (n - 1) = 100 * idx + r
  /\ \/ r = 0 /\ Bin!calc_percentile(d, p) = 100 * d[idx + 1]
     \/ idx + 2 <= n /\ Bin!calc_percentile(d, p) = (100 - r) * d[idx + 1] + r * d[idx + 2]

\* The same with the bounds that an array in order gives.
LiesBetween(d, n, p, idx, r) ==
  /\ p * (n - 1) = 100 * idx + r
  /\ Bin!calc_percentile(d, p) \in Int
  /\ 100 * d[idx + 1] <= Bin!calc_percentile(d, p)
  /\ idx + 2 <= n => /\ Bin!calc_percentile(d, p) <= 100 * d[idx + 2]
                     /\ Bin!calc_percentile(d, p) = (100 - r) * d[idx + 1] + r * d[idx + 2]
  /\ idx + 2 > n => Bin!calc_percentile(d, p) = 100 * d[n] /\ r = 0

\* Each percentile lies at some element.
LEMMA PercentileAt ==
  ASSUME NEW n \in Nat \ {0}, NEW d, InOrder(d, n), NEW p \in 0 .. 100
  PROVE  \E idx \in 0 .. n - 1, r \in 0 .. 99 : LiesAt(d, n, p, idx, r)
<1>1. Len(d) = n
  BY LengthOf DEF InOrder
<1> DEFINE idx == (p * (n - 1)) \div 100
           r == (p * (n - 1)) % 100
<1>2. p * (n - 1) \in Nat /\ p * (n - 1) <= 100 * (n - 1)
  OBVIOUS
<1>3. p * (n - 1) = 100 * idx + r /\ idx \in Nat /\ r \in 0 .. 99
  BY <1>2
<1>4. idx <= n - 1 /\ (r # 0 => idx + 2 <= n)
  <2> HIDE DEF idx, r
  <2> QED
    BY <1>2, <1>3
<1>5. Bin!calc_percentile(d, p) = IF r = 0 \/ idx + 1 >= n THEN 100 * d[idx + 1]
                                  ELSE (100 - r) * d[idx + 1] + r * d[idx + 1 + 1]
  BY <1>1 DEF Bin!calc_percentile, Bin!At
<1> HIDE DEF idx, r
<1>6. idx \in 0 .. n - 1 /\ r \in 0 .. 99 /\ idx + 1 + 1 = idx + 2
  BY <1>3, <1>4
<1>7. LiesAt(d, n, p, idx, r)
  BY <1>3, <1>4, <1>5, <1>6 DEF LiesAt
<1> QED
  BY <1>6, <1>7, Zenon

\* Products with elements in order.
LEMMA Weighted ==
  ASSUME NEW r \in 0 .. 99, NEW s \in 0 .. 99, r <= s, NEW lo \in Int, NEW hi \in Int, lo <= hi
  PROVE  /\ 100 * lo <= (100 - r) * lo + r * hi
         /\ (100 - r) * lo + r * hi <= (100 - s) * lo + s * hi
         /\ (100 - s) * lo + s * hi <= 100 * hi
<1> DEFINE gap == hi - lo
<1>1. gap \in Nat /\ hi = lo + gap
  OBVIOUS
<1>2. ASSUME NEW x \in 0 .. 100 PROVE (100 - x) * lo + x * hi = 100 * lo + x * gap
  OBVIOUS
<1> HIDE DEF gap
<1>3. 0 <= r * gap /\ r * gap <= s * gap /\ s * gap <= 100 * gap
  BY <1>1
<1> QED
  BY <1>1, <1>2, <1>3

\* A percentile lies between the element at its index and the next.
LEMMA PercentileBetween ==
  ASSUME NEW n \in Nat \ {0}, NEW d, InOrder(d, n), NEW p \in 0 .. 100
  PROVE  \E idx \in 0 .. n - 1, r \in 0 .. 99 : LiesBetween(d, n, p, idx, r)
<1>0. PICK idx \in 0 .. n - 1, r \in 0 .. 99 : LiesAt(d, n, p, idx, r)
  BY PercentileAt, Zenon
<1>1. /\ p * (n - 1) = 100 * idx + r
      /\ \/ r = 0 /\ Bin!calc_percentile(d, p) = 100 * d[idx + 1]
         \/ idx + 2 <= n /\ Bin!calc_percentile(d, p) = (100 - r) * d[idx + 1] + r * d[idx + 2]
  BY <1>0, Zenon DEF LiesAt
<1>2. d[idx + 1] \in Int
  BY DEF InOrder
<1>3. ASSUME idx + 2 > n PROVE LiesBetween(d, n, p, idx, r)
  <2>1. idx + 1 = n
    BY <1>3
  <2> QED
    BY <1>1, <1>2, <1>3, <2>1 DEF LiesBetween
<1>4. ASSUME idx + 2 <= n PROVE LiesBetween(d, n, p, idx, r)
  <2>1. d[idx + 2] \in Int /\ d[idx + 1] <= d[idx + 2]
    BY <1>4 DEF InOrder
  <2>2. Bin!calc_percentile(d, p) = (100 - r) * d[idx + 1] + r * d[idx + 2]
    <3>1. ASSUME r = 0 PROVE (100 - r) * d[idx + 1] + r * d[idx + 2] = 100 * d[idx + 1]
      BY <1>2, <2>1, <3>1
    <3> QED
      BY <1>1, <3>1, Zenon
  <2>3. Bin!calc_percentile(d, p) \in Int
    BY <1>2, <2>1, <2>2
  <2>4. 100 * d[idx + 1] <= Bin!calc_percentile(d, p) /\ Bin!calc_percentile(d, p) <= 100 * d[idx + 2]
    <3>1. r <= r
      OBVIOUS
    <3>2. /\ 100 * d[idx + 1] <= (100 - r) * d[idx + 1] + r * d[idx + 2]
          /\ (100 - r) * d[idx + 1] + r * d[idx + 2] <= 100 * d[idx + 2]
      BY <1>2, <2>1, <3>1, Weighted, Zenon
    <3> QED
      BY <2>2, <3>2, Zenon
  <2>5. ~(idx + 2 > n)
    BY <1>4
  <2> QED
    BY <1>1, <1>4, <2>2, <2>3, <2>4, <2>5, Zenon DEF LiesBetween
<1>5. LiesBetween(d, n, p, idx, r)
  BY <1>3, <1>4
<1> QED
  BY <1>5, Zenon

\* Elements whose places are among some are no more than these.
LEMMA AsManyPlaces ==
  ASSUME NEW n \in Nat, NEW f \in [1 .. n -> Int], NEW a \in Int, NEW b \in Int, NEW B \in SUBSET (1 .. n),
         \A i \in B : Place(f)[i] \in a .. b, a <= b + 1
  PROVE  Bin!Cardinality(B) \in Nat /\ Bin!Cardinality(B) <= b - a + 1
<1>1. Place(f) \in [1 .. n -> 1 .. n] /\ \A i, j \in 1 .. n : Place(f)[i] = Place(f)[j] => i = j
  BY Places
<1> DEFINE g == [i \in B |-> Place(f)[i]]
<1>2. g \in Injection(B, a .. b)
  BY <1>1 DEF Injection, IsInjective
<1>3. IsFiniteSet(a .. b) /\ Cardinality(a .. b) = IF a > b THEN 0 ELSE b - a + 1
  BY FS_Interval
<1>4. IsFiniteSet(B) /\ Cardinality(B) <= Cardinality(a .. b)
  BY <1>2, <1>3, FS_Injection
<1>5. Cardinality(B) \in Nat
  BY <1>4, FS_CardinalityType
<1> QED
  BY <1>3, <1>4, <1>5, SameCardinality

\* How many elements lie below and above a percentile.
LEMMA SharesOfPercentile ==
  ASSUME NEW n \in Nat \ {0}, NEW f \in [1 .. n -> Int], NEW p \in 0 .. 100,
         NEW x, x = Bin!calc_percentile(Bin!Sorted(f), p)
  PROVE  /\ 100 * Bin!Cardinality({i \in DOMAIN f : f[i] * 100 < x}) <= p * (n - 1) + 100
         /\ 100 * Bin!Cardinality({i \in DOMAIN f : f[i] * 100 > x}) <= (100 - p) * (n - 1) + 100
<1> DEFINE d == Bin!Sorted(f)
           Below == {i \in DOMAIN f : f[i] * 100 < x}
           Above == {i \in DOMAIN f : f[i] * 100 > x}
<1>1. InOrder(d, n) /\ \A i \in 1 .. n : d[Place(f)[i]] = f[i]
  BY SortedByPlace DEF InOrder
<1>2. Place(f) \in [1 .. n -> 1 .. n]
  BY Places
<1> DEFINE y == Bin!calc_percentile(d, p)
<1>0. x = y
  OBVIOUS
<1> HIDE DEF d
<1>2a. PICK idx \in 0 .. n - 1, r \in 0 .. 99 : LiesBetween(d, n, p, idx, r)
  BY <1>1, PercentileBetween, Zenon
<1>3. /\ p * (n - 1) = 100 * idx + r
      /\ x \in Int
      /\ 100 * d[idx + 1] <= x
      /\ idx + 2 <= n => x <= 100 * d[idx + 2]
  BY <1>0, <1>2a, Zenon DEF LiesBetween
<1> HIDE DEF y
<1>4. ASSUME NEW i \in 1 .. n, f[i] * 100 < x PROVE Place(f)[i] \in 1 .. idx + 1
  <2> DEFINE k == Place(f)[i]
  <2>1. k \in 1 .. n /\ d[k] = f[i]
    BY <1>1, <1>2
  <2> HIDE DEF k
  <2>2. ASSUME idx + 2 <= k PROVE FALSE
    <3>1. d[idx + 2] <= d[k] /\ d[idx + 2] \in Int /\ d[k] \in Int
      BY <1>1, <2>1, <2>2 DEF InOrder
    <3>2. x <= 100 * d[idx + 2]
      BY <1>3, <2>1, <2>2
    <3> QED
      BY <1>3, <1>4, <2>1, <3>1, <3>2
  <2> QED
    BY <2>1, <2>2 DEF k
<1>5. ASSUME NEW i \in 1 .. n, f[i] * 100 > x PROVE Place(f)[i] \in idx + 2 .. n
  <2> DEFINE k == Place(f)[i]
  <2>1. k \in 1 .. n /\ d[k] = f[i]
    BY <1>1, <1>2
  <2> HIDE DEF k
  <2>2. ASSUME k <= idx + 1 PROVE FALSE
    <3>1. d[k] <= d[idx + 1] /\ d[idx + 1] \in Int /\ d[k] \in Int
      BY <1>1, <2>1, <2>2 DEF InOrder
    <3> QED
      BY <1>3, <1>5, <2>1, <3>1
  <2> QED
    BY <2>1, <2>2 DEF k
<1>6. Below \in SUBSET (1 .. n) /\ Above \in SUBSET (1 .. n)
  OBVIOUS
<1>7. /\ \A i \in Below : Place(f)[i] \in 1 .. idx + 1
      /\ \A i \in Above : Place(f)[i] \in idx + 2 .. n
  BY <1>4, <1>5, <1>6
<1> HIDE DEF Below, Above
<1>8. n \in Nat /\ idx \in Int /\ 1 \in Int /\ idx + 1 \in Int /\ idx + 2 \in Int /\ n \in Int /\ 1 <= idx + 1 + 1 /\ idx + 2 <= n + 1
  OBVIOUS
<1>9. Bin!Cardinality(Below) \in Nat /\ Bin!Cardinality(Below) <= (idx + 1) - 1 + 1
  BY <1>6, <1>7, <1>8, AsManyPlaces, Zenon
<1>10. Bin!Cardinality(Above) \in Nat /\ Bin!Cardinality(Above) <= n - (idx + 2) + 1
  BY <1>6, <1>7, <1>8, AsManyPlaces, Zenon
<1> DEFINE below == Bin!Cardinality(Below)
           above == Bin!Cardinality(Above)
           share == p * (n - 1)
<1>11. (100 - p) * (n - 1) = 100 * (n - 1) - share /\ share \in Int
  OBVIOUS
<1>12. below \in Nat /\ above \in Nat /\ below <= idx + 1 /\ above <= n - 1 - idx
  <2> HIDE DEF Below, Above
  <2> QED
    BY <1>9, <1>10
<1>13. share = 100 * idx + r
  BY <1>3
<1> HIDE DEF below, above, share
<1>14. 100 * below <= share + 100 /\ 100 * above <= (100 - p) * (n - 1) + 100
  BY <1>11, <1>12, <1>13
<1> QED
  BY <1>14, Zenon DEF below, above, share, Below, Above

\* A percentile is at most the next one.
LEMMA PercentilesAscend ==
  ASSUME NEW n \in Nat \ {0}, NEW d, InOrder(d, n), NEW p \in 0 .. 100, NEW q \in 0 .. 100, p <= q
  PROVE  Bin!calc_percentile(d, p) <= Bin!calc_percentile(d, q)
<1> DEFINE x == Bin!calc_percentile(d, p)
           y == Bin!calc_percentile(d, q)
<1>7. PICK a \in 0 .. n - 1, r \in 0 .. 99 : LiesBetween(d, n, p, a, r)
  BY PercentileBetween, Zenon
<1>1. /\ p * (n - 1) = 100 * a + r
      /\ x \in Int
      /\ 100 * d[a + 1] <= x
      /\ a + 2 <= n => x <= 100 * d[a + 2] /\ x = (100 - r) * d[a + 1] + r * d[a + 2]
      /\ a + 2 > n => x = 100 * d[n] /\ r = 0
  BY <1>7, Zenon DEF LiesBetween
<1>8. PICK b \in 0 .. n - 1, s \in 0 .. 99 : LiesBetween(d, n, q, b, s)
  BY PercentileBetween, Zenon
<1>2. /\ q * (n - 1) = 100 * b + s
      /\ y \in Int
      /\ 100 * d[b + 1] <= y
      /\ b + 2 <= n => y <= 100 * d[b + 2] /\ y = (100 - s) * d[b + 1] + s * d[b + 2]
      /\ b + 2 > n => y = 100 * d[n] /\ s = 0
  BY <1>8, Zenon DEF LiesBetween
<1> HIDE DEF x, y
<1>3. 100 * a + r <= 100 * b + s
  <2>1. p * (n - 1) <= q * (n - 1)
    OBVIOUS
  <2> QED
    BY <1>1, <1>2, <2>1
<1>4. CASE a < b
  <2>1. d[a + 2] <= d[b + 1] /\ d[a + 2] \in Int /\ d[b + 1] \in Int
    BY <1>4 DEF InOrder
  <2>2. x <= 100 * d[a + 2]
    BY <1>1, <1>4
  <2>3. x <= y
    BY <1>1, <1>2, <2>1, <2>2
  <2> QED
    BY <2>3 DEF x, y
<1>5. CASE a = b /\ a + 2 <= n
  <2>1. r <= s
    BY <1>3, <1>5
  <2>2. d[a + 1] \in Int /\ d[a + 2] \in Int /\ d[a + 1] <= d[a + 2]
    BY <1>5 DEF InOrder
  <2>3. (100 - r) * d[a + 1] + r * d[a + 2] <= (100 - s) * d[a + 1] + s * d[a + 2]
    BY <2>1, <2>2, Weighted
  <2> QED
    BY <1>1, <1>2, <1>5, <2>3 DEF x, y
<1>6. CASE a = b /\ a + 2 > n
  BY <1>1, <1>2, <1>6 DEF x, y
<1> QED
  BY <1>3, <1>4, <1>5, <1>6

\* Half way and at the ends.
LEMMA PercentilesMeet ==
  ASSUME NEW n \in Nat \ {0}, NEW d, InOrder(d, n)
  PROVE  /\ Bin!calc_percentile(d, 50) = 50 * Bin!calc_median(d)
         /\ Bin!calc_percentile(d, 0) = 100 * d[1]
         /\ Bin!calc_percentile(d, 100) = 100 * d[n]
<1>0. Len(d) = n
  BY LengthOf DEF InOrder
<1>4. d[1] \in Int /\ d[n] \in Int
  BY DEF InOrder
<1>5. Bin!calc_percentile(d, 0) = 100 * d[1]
  <2>0. PICK p \in 0 .. 100 : p = 0
    OBVIOUS
  <2>4. PICK b \in 0 .. n - 1, s \in 0 .. 99 : LiesAt(d, n, p, b, s)
    BY PercentileAt, Zenon
  <2>1. /\ p * (n - 1) = 100 * b + s
        /\ \/ s = 0 /\ Bin!calc_percentile(d, p) = 100 * d[b + 1]
           \/ b + 2 <= n /\ Bin!calc_percentile(d, p) = (100 - s) * d[b + 1] + s * d[b + 2]
    BY <2>4, Zenon DEF LiesAt
  <2>2. b = 0 /\ s = 0
    BY <2>0, <2>1
  <2>3. n >= 2 => d[2] \in Int
    BY DEF InOrder
  <2> QED
    BY <1>4, <2>0, <2>1, <2>2, <2>3
<1>6. Bin!calc_percentile(d, 100) = 100 * d[n]
  <2>0. PICK p \in 0 .. 100 : p = 100
    OBVIOUS
  <2>4. PICK b \in 0 .. n - 1, s \in 0 .. 99 : LiesAt(d, n, p, b, s)
    BY PercentileAt, Zenon
  <2>1. /\ p * (n - 1) = 100 * b + s
        /\ \/ s = 0 /\ Bin!calc_percentile(d, p) = 100 * d[b + 1]
           \/ b + 2 <= n /\ Bin!calc_percentile(d, p) = (100 - s) * d[b + 1] + s * d[b + 2]
    BY <2>4, Zenon DEF LiesAt
  <2>2. b + 1 = n /\ s = 0
    BY <2>0, <2>1
  <2> QED
    BY <2>0, <2>1, <2>2
<1>7. PICK half \in 0 .. 100 : half = 50
  OBVIOUS
<1>8. PICK a \in 0 .. n - 1, r \in 0 .. 99 : LiesAt(d, n, half, a, r)
  BY PercentileAt, Zenon
<1>1. /\ 50 * (n - 1) = 100 * a + r
      /\ \/ r = 0 /\ Bin!calc_percentile(d, 50) = 100 * d[a + 1]
         \/ a + 2 <= n /\ Bin!calc_percentile(d, 50) = (100 - r) * d[a + 1] + r * d[a + 2]
  BY <1>7, <1>8, Zenon DEF LiesAt
<1>2. ASSUME n % 2 = 1 PROVE Bin!calc_percentile(d, 50) = 50 * Bin!calc_median(d)
  <2>1. n \div 2 = a /\ r = 0
    BY <1>1, <1>2
  <2>2. a + 1 \in 1 .. n /\ d[a + 1] \in Int
    BY DEF InOrder
  <2>3. Bin!calc_percentile(d, 50) = 100 * d[a + 1]
    <3>1. ASSUME a + 2 <= n PROVE d[a + 2] \in Int
      BY <3>1 DEF InOrder
    <3> QED
      BY <1>1, <2>1, <2>2, <3>1
  <2>4. Bin!calc_median(d) = 2 * d[a + 1]
    BY <1>0, <1>2, <2>1 DEF Bin!calc_median, Bin!At
  <2> QED
    BY <2>2, <2>3, <2>4
<1>3. ASSUME n % 2 # 1 PROVE Bin!calc_percentile(d, 50) = 50 * Bin!calc_median(d)
  <2>1. n \div 2 = a + 1 /\ r = 50 /\ n % 2 = 0
    BY <1>1, <1>3
  <2>2. d[a + 1] \in Int /\ d[a + 2] \in Int
    <3>1. a + 1 \in 1 .. n /\ a + 2 \in 1 .. n
      BY <1>1, <2>1
    <3> QED
      BY <3>1 DEF InOrder
  <2>3. Bin!calc_percentile(d, 50) = (100 - 50) * d[a + 1] + 50 * d[a + 2]
    BY <1>1, <2>1
  <2>4. Bin!calc_median(d) = d[a + 2] + d[a + 1]
    <3>1. n \div 2 + 1 = a + 2 /\ (n \div 2) - 1 + 1 = a + 1
      BY <2>1
    <3> QED
      BY <1>0, <1>3, <3>1 DEF Bin!calc_median, Bin!At
  <2> QED
    BY <2>2, <2>3, <2>4
<1> QED
  BY <1>2, <1>3, <1>5, <1>6

\* The squares add up to nothing exactly if all elements are the same.
LEMMA SquaresOf ==
  ASSUME NEW n \in Nat \ {0}, NEW d, InOrder(d, n)
  PROVE  /\ Bin!calc_mean(d) \in Int
         /\ n * d[1] <= Bin!calc_mean(d) /\ Bin!calc_mean(d) <= n * d[n]
         /\ Bin!calc_squared_sum(d) = 0 <=> d[1] = d[n]
<1> DEFINE mean == Bin!calc_mean(d)
           tmp(k) == n * d[k] - mean
           squares == [i \in DOMAIN d |-> tmp(i) * tmp(i)]
<1>1. Len(d) = n /\ DOMAIN d = 1 .. n
  BY LengthOf DEF InOrder
<1>2. /\ d[1] \in Int /\ d[n] \in Int
      /\ \A k \in 1 .. n : d[k] \in Int /\ d[1] <= d[k] /\ d[k] <= d[n]
  BY DEF InOrder
<1>3. mean \in Int /\ n * d[1] <= mean /\ mean <= n * d[n]
  <2>1. mean = Bin!Added(d, n)
    BY <1>1 DEF Bin!calc_mean
  <2>2. Bin!Added(d, n) \in Int /\ n * d[1] <= Bin!Added(d, n) /\ Bin!Added(d, n) <= n * d[n]
    BY <1>2, SumBetween
  <2> QED
    BY <2>1, <2>2, Zenon
<1> HIDE DEF mean
<1>4. Bin!calc_squared_sum(d) = Bin!Added(squares, n)
  BY <1>1 DEF Bin!calc_squared_sum, mean
<1>5. ASSUME NEW k \in 1 .. n
      PROVE  squares[k] \in Nat /\ (squares[k] = 0 <=> n * d[k] = mean)
  <2> DEFINE x == tmp(k)
  <2>1. squares[k] = x * x
    BY <1>1
  <2>2. x \in Int /\ (x = 0 <=> n * d[k] = mean)
    BY <1>2, <1>3
  <2> HIDE DEF x
  <2>3. x * x \in Nat /\ (x * x = 0 <=> x = 0)
    BY <2>2
  <2> QED
    BY <2>1, <2>2, <2>3
<1> HIDE DEF squares
<1>6. Bin!Added(squares, n) = 0 <=> \A k \in 1 .. n : squares[k] = 0
  BY <1>5, SumZero
<1>7. ASSUME \A k \in 1 .. n : n * d[k] = mean PROVE d[1] = d[n]
  <2>1. n * d[1] = n * d[n]
    BY <1>7
  <2> QED
    BY <1>2, <2>1
<1>8. ASSUME d[1] = d[n] PROVE \A k \in 1 .. n : n * d[k] = mean
  <2>1. \A k \in 1 .. n : d[k] = d[1]
    BY <1>2, <1>8
  <2>2. mean = n * d[1]
    <3>1. n * d[1] \in Int /\ n * d[n] = n * d[1]
      BY <1>2, <1>8
    <3> QED
      BY <1>3, <3>1
  <2> QED
    BY <2>1, <2>2, Zenon
<1>9. Bin!calc_squared_sum(d) = 0 <=> d[1] = d[n]
  BY <1>4, <1>5, <1>6, <1>7, <1>8
<1> QED
  BY <1>3, <1>9 DEF mean

\* What gen_stats() computes agrees with the times, whatever they are.
LEMMA GenStatsAgree ==
  ASSUME NEW n \in Nat \ {0}, NEW f \in [1 .. n -> Int]
  PROVE  Bin!Agree(Bin!gen_stats(f), f)
<1> DEFINE d == Bin!Sorted(f)
           summary == Bin!gen_stats(f)
           all == Bin!ToSet(f)
           Below(x) == Bin!Cardinality({i \in DOMAIN f : f[i] * 100 < x})
           Above(x) == Bin!Cardinality({i \in DOMAIN f : f[i] * 100 > x})
<1>1. InOrder(d, n) /\ \A i \in 1 .. n : d[Place(f)[i]] = f[i]
  BY SortedByPlace DEF InOrder
<1>2. /\ Place(f) \in [1 .. n -> 1 .. n]
      /\ \A p \in 1 .. n : \E i \in 1 .. n : Place(f)[i] = p
  BY Places
<1>3. Len(f) = n /\ DOMAIN f = 1 .. n /\ f # <<>>
  <2>1. Len(f) = n /\ DOMAIN f = 1 .. n
    BY LengthOf
  <2> QED
    BY <2>1
<1>4. Len(d) = n
  BY <1>1, LengthOf DEF InOrder
<1> HIDE DEF d
<1>5. /\ summary.nelem = n /\ summary.min = d[1] /\ summary.max = d[n]
      /\ summary.median = Bin!calc_median(d) /\ summary.mean = Bin!calc_mean(d)
      /\ summary.squared_sum = IF n <= 1 THEN 0 ELSE Bin!calc_squared_sum(d)
      /\ \A p \in Bin!Percentiles : summary.percentiles[p] = Bin!calc_percentile(d, p)
  <2>1. summary = [has_stats |-> 1, nelem |-> n, min |-> Bin!At(d, 0), max |-> Bin!At(d, n - 1),
                 median |-> Bin!calc_median(d), mean |-> Bin!calc_mean(d),
                 squared_sum |-> IF n <= 1 THEN 0 ELSE Bin!calc_squared_sum(d),
                 percentiles |-> [p \in Bin!Percentiles |-> Bin!calc_percentile(d, p)]]
    BY <1>3, <1>4, Zenon DEF Bin!gen_stats, d
  <2>2. Bin!At(d, 0) = d[1] /\ Bin!At(d, n - 1) = d[n]
    BY DEF Bin!At
  <2> HIDE DEF summary
  <2> QED
    BY <2>1, <2>2
<1> HIDE DEF summary
<1>6. /\ \A i \in 1 .. n : d[i] \in Int
      /\ \A p, q \in 1 .. n : p <= q => d[p] <= d[q]
  BY <1>1 DEF InOrder
<1>7. all = {d[i] : i \in 1 .. n}
  <2>1. all = {f[i] : i \in 1 .. n}
    BY <1>3 DEF Bin!ToSet
  <2>2. ASSUME NEW x \in all PROVE x \in {d[i] : i \in 1 .. n}
    <3>1. PICK i \in 1 .. n : x = f[i]
      BY <2>1
    <3>2. PICK p \in 1 .. n : p = Place(f)[i] /\ x = d[p]
      BY <1>1, <1>2, <3>1
    <3> QED
      BY <3>2
  <2>3. ASSUME NEW p \in 1 .. n PROVE d[p] \in all
    <3>1. PICK i \in 1 .. n : Place(f)[i] = p
      BY <1>2
    <3>2. d[p] = f[i]
      BY <1>1, <3>1
    <3> QED
      BY <2>1, <3>2
  <2> QED
    BY <2>2, <2>3
<1>8. Bin!Percentiles \subseteq 0 .. 100 /\ {0, 50, 100} \subseteq Bin!Percentiles
  BY DEF Bin!Percentiles
<1>9. summary.nelem = Len(f)
  BY <1>3, <1>5
<1>10. summary.min \in all /\ summary.max \in all /\ \A x \in all : summary.min <= x /\ x <= summary.max
  <2> HIDE DEF all
  <2> QED
    BY <1>5, <1>6, <1>7
<1>11. /\ summary.percentiles[50] = 50 * summary.median
       /\ summary.percentiles[0] = 100 * summary.min /\ summary.percentiles[100] = 100 * summary.max
  BY <1>1, <1>5, <1>8, PercentilesMeet
<1>12. Len(f) * summary.min <= summary.mean /\ summary.mean <= Len(f) * summary.max
  BY <1>1, <1>3, <1>5, SquaresOf, Zenon
<1>13. summary.squared_sum = 0 <=> summary.min = summary.max \/ Len(f) = 1
  BY <1>1, <1>3, <1>5, SquaresOf
<1>14. ASSUME NEW p \in Bin!Percentiles
       PROVE  /\ 100 * Below(summary.percentiles[p]) <= p * (n - 1) + 100
              /\ 100 * Above(summary.percentiles[p]) <= (100 - p) * (n - 1) + 100
              /\ \A q \in Bin!Percentiles : p <= q => summary.percentiles[p] <= summary.percentiles[q]
  <2>1. p \in 0 .. 100 /\ summary.percentiles[p] = Bin!calc_percentile(d, p)
    BY <1>5, <1>8
  <2>2. /\ 100 * Below(summary.percentiles[p]) <= p * (n - 1) + 100
        /\ 100 * Above(summary.percentiles[p]) <= (100 - p) * (n - 1) + 100
    BY <2>1, SharesOfPercentile, Zenon DEF d
  <2>3. ASSUME NEW q \in Bin!Percentiles, p <= q PROVE summary.percentiles[p] <= summary.percentiles[q]
    <3>1. q \in 0 .. 100 /\ summary.percentiles[q] = Bin!calc_percentile(d, q)
      BY <1>5, <1>8
    <3>2. Bin!calc_percentile(d, p) <= Bin!calc_percentile(d, q)
      BY <1>1, <2>1, <2>3, <3>1, PercentilesAscend, Zenon
    <3> QED
      BY <2>1, <3>1, <3>2, Zenon
  <2> QED
    BY <2>2, <2>3
<1>15. \A p \in Bin!Percentiles :
         /\ 100 * Below(summary.percentiles[p]) <= p * (Len(f) - 1) + 100
         /\ 100 * Above(summary.percentiles[p]) <= (100 - p) * (Len(f) - 1) + 100
         /\ \A q \in Bin!Percentiles : p <= q => summary.percentiles[p] <= summary.percentiles[q]
  <2> HIDE DEF Below, Above
  <2> QED
    BY <1>3, <1>14, Zenon
<1> HIDE DEF all
<1>16. Bin!Agree(summary, f)
  BY <1>9, <1>10, <1>11, <1>12, <1>13, <1>15 DEF Bin!Agree, all
<1> QED
  BY <1>16 DEF summary

-----------------------------------------------------------------------------
\* The results: one for each lock that ran, under its name, with the figures of
\* every trial and of all of them.
IsSequence(s) == \E S : s \in Seq(S)

ResultsKept ==
  /\ IsSequence(done) /\ IsSequence(stats) /\ Len(stats) = Len(done)
  /\ \A k \in DOMAIN stats : stats[k].desc = lock_list[done[k]] /\ Len(stats[k].stats) = opts.num_trials + 1

ResultInv ==
  /\ opts \in [Bin!Dests -> Int]
  /\ driver_main \in {"parse", "validate"} => done = <<>> /\ stats = <<>>
  /\ driver_main \in {"run", "print", "done"} /\ Bin!Benching => opts.num_trials \in Nat \ {0} /\ ResultsKept
  /\ driver_main = "done" /\ Bin!Benching => out = [k \in DOMAIN stats |-> Bin!Line(k)]

LEMMA OptionsAreNumbers ==
  /\ Bin!Defaults \in [Bin!Dests -> Int] /\ {"num_trials", "num_threads"} \subseteq Bin!Dests
  /\ \A d, w : w \in DOMAIN NumberOf => Bin!Truncated(d, NumberOf[w]) \in Int
<1>1. WIDTH \in Nat \ {0, 1} /\ NumberOf \in [DOMAIN NumberOf -> Int]
  BY ProgramsAssumption DEF Bin!DriverAssumption
<1>2. Bin!Defaults \in [Bin!Dests -> Int]
  BY DEF Bin!Defaults, Bin!DEFAULT_OUTER_ITER
<1>3. {"num_trials", "num_threads"} \subseteq Bin!Dests
  <2>1. /\ "-t" \in DOMAIN Bin!Integer /\ Bin!Integer["-t"] = "num_trials"
        /\ "-T" \in DOMAIN Bin!Integer /\ Bin!Integer["-T"] = "num_threads"
    BY DEF Bin!Integer
  <2>2. "num_trials" \in Bin!Dests /\ "num_threads" \in Bin!Dests
    BY <2>1, Zenon DEF Bin!Dests
  <2> QED
    BY <2>2
<1>4. ASSUME NEW d, NEW v \in Int PROVE Bin!Truncated(d, v) \in Int
  <2>1. PICK half \in Int : half = WIDTH \div 2
    BY <1>1
  <2>2. (v + half) % WIDTH \in Int /\ v % WIDTH \in Int
    BY <1>1
  <2> QED
    BY <2>1, <2>2 DEF Bin!Truncated
<1> QED
  BY <1>1, <1>2, <1>3, <1>4

LEMMA AppendToSequence ==
  ASSUME NEW s, NEW x, IsSequence(s)
  PROVE  /\ Len(s) \in Nat /\ DOMAIN s = 1 .. Len(s)
         /\ IsSequence(Append(s, x)) /\ Len(Append(s, x)) = Len(s) + 1
         /\ \A k \in 1 .. Len(s) + 1 : Append(s, x)[k] = IF k = Len(s) + 1 THEN x ELSE s[k]
<1>1. PICK S : s \in Seq(S)
  BY DEF IsSequence
<1>2. PICK T : s \in Seq(T) /\ x \in T
  <2>1. s \in Seq(S \cup {x})
    BY <1>1
  <2> QED
    BY <2>1
<1>3. Append(s, x) \in Seq(T)
  BY <1>2
<1> QED
  BY <1>2, <1>3 DEF IsSequence

LEMMA ResultHasAll ==
  ASSUME NEW ts, opts.num_trials \in Nat
  PROVE  LET s == Bin!ResultOf(ts).stats IN
         /\ Bin!ResultOf(ts).desc = lock_list[decl] /\ Len(s) = opts.num_trials + 1
         /\ \A k \in 1 .. opts.num_trials : s[k] = Bin!gen_stats(Bin!Trial(k, ts))
         /\ s[opts.num_trials + 1] = Bin!gen_stats(ts)
<1> DEFINE trials == [k \in 1 .. opts.num_trials |-> Bin!gen_stats(Bin!Trial(k, ts))]
           all == Bin!gen_stats(ts)
<1>1. Bin!ResultOf(ts) = [desc |-> lock_list[decl], stats |-> Append(trials, all)]
  BY DEF Bin!ResultOf
<1>2. IsSequence(trials) /\ Len(trials) = opts.num_trials
  <2>1. PICK S : S = {Bin!gen_stats(Bin!Trial(k, ts)) : k \in 1 .. opts.num_trials}
    OBVIOUS
  <2>2. trials \in [1 .. opts.num_trials -> S]
    BY <2>1
  <2> HIDE DEF trials
  <2> QED
    BY <2>2 DEF IsSequence
<1>3. \A k \in 1 .. opts.num_trials : trials[k] = Bin!gen_stats(Bin!Trial(k, ts))
  OBVIOUS
<1> HIDE DEF trials, all
<1>4. /\ Len(Append(trials, all)) = opts.num_trials + 1
      /\ \A k \in 1 .. opts.num_trials + 1 :
           Append(trials, all)[k] = IF k = opts.num_trials + 1 THEN all ELSE trials[k]
  BY <1>2, AppendToSequence
<1>5. /\ \A k \in 1 .. opts.num_trials : Append(trials, all)[k] = Bin!gen_stats(Bin!Trial(k, ts))
      /\ Append(trials, all)[opts.num_trials + 1] = all
  BY <1>3, <1>4
<1> QED
  BY <1>1, <1>4, <1>5 DEF all

LEMMA ResultInit == Bin!Init => ResultInv
<1> SUFFICES ASSUME Bin!Init PROVE ResultInv
  OBVIOUS
<1>1. opts = Bin!Defaults /\ driver_main = "parse" /\ done = <<>> /\ stats = <<>>
  BY Zenon DEF Bin!Init
<1> QED
  BY <1>1, OptionsAreNumbers DEF ResultInv

LEMMA ResultRunDecl == ASSUME ResultInv, Bin!RunDecl PROVE ResultInv'
<1>1. driver_main = "run" /\ driver_main' \in {"run", "died"} /\ opts' = opts /\ lock_names' = lock_names
  BY DEF Bin!RunDecl, Bin!parse
<1>2. opts' \in [Bin!Dests -> Int] /\ (Bin!Benching' <=> Bin!Benching)
  BY <1>1 DEF ResultInv, Bin!Benching, Bin!Listing
<1>3. ASSUME driver_main' = "run", Bin!Benching PROVE opts'.num_trials \in Nat \ {0} /\ ResultsKept'
  <2>1. opts.num_trials \in Nat \ {0} /\ ResultsKept
    BY <1>1, <1>3 DEF ResultInv
  <2>2. CASE UNCHANGED <<done, stats>>
    BY <1>1, <2>1, <2>2 DEF ResultsKept
  <2>3. CASE done' = Append(done, decl) /\ \E ts : stats' = Append(stats, Bin!ResultOf(ts))
    <3>1. PICK ts : stats' = Append(stats, Bin!ResultOf(ts))
      BY <2>3
    <3>2. /\ IsSequence(done') /\ Len(done') = Len(done) + 1
          /\ \A k \in 1 .. Len(done) + 1 : done'[k] = IF k = Len(done) + 1 THEN decl ELSE done[k]
      BY <2>1, <2>3, AppendToSequence DEF ResultsKept
    <3>3. /\ IsSequence(stats') /\ Len(stats') = Len(stats) + 1 /\ Len(stats) \in Nat /\ DOMAIN stats = 1 .. Len(stats)
          /\ \A k \in 1 .. Len(stats) + 1 : stats'[k] = IF k = Len(stats) + 1 THEN Bin!ResultOf(ts) ELSE stats[k]
      BY <2>1, <3>1, AppendToSequence DEF ResultsKept
    <3>4. DOMAIN stats' = 1 .. Len(stats')
      BY <3>3, AppendToSequence
    <3>5. /\ Len(stats) = Len(done)
          /\ \A k \in DOMAIN stats : stats[k].desc = lock_list[done[k]] /\ Len(stats[k].stats) = opts.num_trials + 1
      BY <2>1 DEF ResultsKept
    <3>6. Bin!ResultOf(ts).desc = lock_list[decl] /\ Len(Bin!ResultOf(ts).stats) = opts.num_trials + 1
      BY <2>1, ResultHasAll
    <3>7. ASSUME NEW k \in DOMAIN stats'
          PROVE  stats'[k].desc = lock_list[done'[k]] /\ Len(stats'[k].stats) = opts'.num_trials + 1
      <4>1. k \in 1 .. Len(stats) + 1 /\ (k # Len(stats) + 1 => k \in DOMAIN stats)
        BY <3>3, <3>4
      <4>2. CASE k = Len(stats) + 1
        BY <1>1, <3>2, <3>3, <3>5, <3>6, <4>1, <4>2, Zenon
      <4>3. CASE k # Len(stats) + 1
        BY <1>1, <3>2, <3>3, <3>5, <4>1, <4>3, Zenon
      <4> QED
        BY <4>2, <4>3
    <3>8. ResultsKept'
      BY <3>2, <3>3, <3>5, <3>7 DEF ResultsKept
    <3> QED
      BY <1>1, <2>1, <3>8
  <2> QED
    BY <1>1, <1>3, <2>2, <2>3 DEF Bin!RunDecl, Bin!Bench
<1> QED
  BY <1>1, <1>2, <1>3 DEF ResultInv

LEMMA ResultNext == ResultInv /\ [Bin!Next]_(Bin!vars) => ResultInv'
<1> SUFFICES ASSUME ResultInv, [Bin!Next]_(Bin!vars) PROVE ResultInv'
  OBVIOUS
<1>1. opts \in [Bin!Dests -> Int]
  BY DEF ResultInv
<1>2. ASSUME driver_main = "parse", driver_main' \in {"parse", "usage", "validate"}, opts' \in [Bin!Dests -> Int],
             UNCHANGED <<done, stats>>
      PROVE  ResultInv'
  BY <1>2 DEF ResultInv
<1>3. CASE Bin!ParseSet
  <2>1. /\ driver_main = "parse" /\ driver_main' = "parse" /\ UNCHANGED <<done, stats>>
        /\ opts' = [opts EXCEPT ![Bin!Set[argv[driver_i]]] = 1]
    BY <1>3 DEF Bin!ParseSet, Bin!AtOption, Bin!search
  <2>2. PICK one \in Int : one = 1
    OBVIOUS
  <2>3. opts' \in [Bin!Dests -> Int]
    BY <1>1, <2>1, <2>2
  <2> QED
    BY <1>2, <2>1, <2>3
<1>4. CASE Bin!ParseInteger
  <2>1. /\ driver_main = "parse" /\ driver_main' = "parse" /\ UNCHANGED <<done, stats>>
        /\ opts' = IF argv[driver_i + 1] \in DOMAIN NumberOf
                   THEN [opts EXCEPT ![Bin!Integer[argv[driver_i]]] =
                           Bin!Truncated(Bin!Integer[argv[driver_i]], NumberOf[argv[driver_i + 1]])]
                   ELSE opts
    BY <1>4 DEF Bin!ParseInteger, Bin!AtOption, Bin!search
  <2>2. opts' \in [Bin!Dests -> Int]
    BY <1>1, <2>1, OptionsAreNumbers
  <2> QED
    BY <1>2, <2>1, <2>2
<1>5. CASE Bin!ParseString \/ Bin!ParseExits \/ Bin!ParseRest
  <2>1. /\ driver_main = "parse" /\ driver_main' \in {"parse", "usage", "validate"} /\ UNCHANGED <<opts, done, stats>>
    BY <1>5 DEF Bin!ParseString, Bin!ParseExits, Bin!ParseRest, Bin!AtOption, Bin!parse, Bin!search
  <2> QED
    BY <1>1, <1>2, <2>1
<1>6. CASE Bin!Validate
  <2>1. /\ driver_main = "validate" /\ driver_main' = IF Bin!Valid THEN "run" ELSE "died"
        /\ UNCHANGED <<opts, lock_names, done, stats>>
    BY <1>6 DEF Bin!Validate, Bin!parse
  <2>2. done' = <<>> /\ stats' = <<>>
    BY <2>1 DEF ResultInv
  <2>3. ASSUME Bin!Valid PROVE opts.num_trials \in Nat \ {0}
    <3>1. opts.num_trials \in Int /\ opts.num_trials > 0
      BY <1>1, <2>3, OptionsAreNumbers DEF Bin!Valid
    <3> QED
      BY <3>1
  <2>4. ResultsKept'
    <3>1. IsSequence(<<>>)
      BY DEF IsSequence
    <3> QED
      BY <2>2, <3>1 DEF ResultsKept
  <2> QED
    BY <1>1, <2>1, <2>2, <2>3, <2>4 DEF ResultInv
<1>7. CASE Bin!RunDecl
  BY <1>7, ResultRunDecl
<1>8. ASSUME UNCHANGED <<opts, lock_names, done, stats>>, driver_main \in {"run", "print"},
             \/ driver_main' \in {"died", "print"}
             \/ driver_main' = "done" /\ ~Bin!Benching
             \/ driver_main' = "done" /\ out' = [k \in DOMAIN stats |-> Bin!Line(k)]
      PROVE  ResultInv'
  <2>1. (Bin!Benching' <=> Bin!Benching) /\ \A k : Bin!Line(k)' = Bin!Line(k)
    BY <1>8 DEF Bin!Benching, Bin!Listing, Bin!Line
  <2>2. ResultsKept' <=> ResultsKept
    BY <1>8 DEF ResultsKept
  <2> QED
    BY <1>8, <2>1, <2>2 DEF ResultInv
<1>9. CASE Bin!RunFails
  <2>1. UNCHANGED <<opts, lock_names, done, stats>> /\ driver_main = "run" /\ driver_main' = "died"
    BY <1>9 DEF Bin!RunFails, Bin!parse, Bin!search
  <2> QED
    BY <1>8, <2>1
<1>10. CASE Bin!Report
  <2>1. /\ UNCHANGED <<opts, lock_names, done, stats>> /\ driver_main = "run"
        /\ driver_main' = IF Bin!Benching THEN "print" ELSE "done"
    BY <1>10 DEF Bin!Report, Bin!parse
  <2> QED
    BY <1>8, <2>1
<1>11. CASE Bin!PrintStats
  <2>1. /\ UNCHANGED <<opts, lock_names, done, stats>> /\ driver_main = "print"
        /\ driver_main' = "died" \/ (driver_main' = "done" /\ out' = [k \in DOMAIN stats |-> Bin!Line(k)])
    BY <1>11 DEF Bin!PrintStats, Bin!parse, Bin!search
  <2> QED
    BY <1>8, <2>1
<1>12. CASE UNCHANGED Bin!vars
  <2>1. UNCHANGED <<opts, lock_names, driver_main, done, stats, out>>
    BY <1>12 DEF Bin!vars, Bin!parse, Bin!search
  <2> QED
    BY <2>1 DEF ResultInv, ResultsKept, Bin!Benching, Bin!Listing, Bin!Line
<1> QED
  BY <1>3, <1>4, <1>5, <1>6, <1>7, <1>9, <1>10, <1>11, <1>12 DEF Bin!Next

-----------------------------------------------------------------------------
\* The figures: those of a trial and of all trials are what gen_stats() makes of
\* the times, and what it makes of any times agrees with them.
OneTrialIsAll == opts.num_trials = 1 => \A k \in DOMAIN stats : Bin!Trial(1, times[k]) = times[k]

FiguresInv ==
  /\ driver_main \in {"parse", "validate"} => stats = <<>>
  /\ driver_main = "run" => opts.num_trials \in Nat \ {0} /\ opts.num_threads \in Nat \ {0}
  /\ IsSequence(stats) /\ IsSequence(times) /\ Len(times) = Len(stats)
  /\ StatsAgree
  /\ OneTrialIsAll

\* The times of a trial are as many as its threads.
LEMMA TimesOfTrial ==
  ASSUME NEW trials \in Nat \ {0}, NEW width \in Nat \ {0}, NEW ts \in [1 .. trials * width -> Int], NEW k \in 1 .. trials
  PROVE  SubSeq(ts, (k - 1) * width + 1, k * width) \in [1 .. width -> Int]
<1> DEFINE first == (k - 1) * width + 1
           last == k * width
           all == trials * width
<1>1. last = first + width - 1 /\ first \in Nat /\ last \in Nat
  OBVIOUS
<1>2. first >= 1 /\ last <= all /\ all \in Nat
  <2>1. (k - 1) * width >= 0 /\ k * width <= trials * width
    OBVIOUS
  <2> QED
    BY <2>1
<1> HIDE DEF first, last, all
<1>3. ts \in [1 .. all -> Int]
  BY DEF all
<1>4. SubSeq(ts, first, last) = [i \in 1 .. width |-> ts[first + i - 1]]
  <2>1. last - first + 1 = width
    BY <1>1
  <2>2. SubSeq(ts, first, last) = [i \in 1 .. last - first + 1 |-> ts[first + i - 1]]
    BY <1>1, <1>2, <1>3
  <2> QED
    BY <2>1, <2>2
<1>5. \A i \in 1 .. width : ts[first + i - 1] \in Int
  BY <1>1, <1>2, <1>3
<1>6. SubSeq(ts, first, last) \in [1 .. width -> Int]
  BY <1>4, <1>5
<1> QED
  BY <1>6 DEF first, last

\* Those of a single trial are all there are.
LEMMA TimesOfOneTrial ==
  ASSUME opts.num_trials = 1, opts.num_threads \in Nat \ {0},
         NEW ts \in [1 .. opts.num_trials * opts.num_threads -> Times]
  PROVE  Bin!Trial(1, ts) = ts
<1>1. PICK width \in Nat \ {0} : width = opts.num_threads
  OBVIOUS
<1>2. Times \subseteq Int
  BY ProgramsAssumption DEF Bin!DriverAssumption
<1>3. opts.num_trials * opts.num_threads = width
  BY <1>1
<1>4. ts \in [1 .. width -> Int]
  BY <1>2, <1>3
<1>5. PICK first, last : first = (1 - 1) * opts.num_threads + 1 /\ last = 1 * opts.num_threads
  OBVIOUS
<1>6. first = 1 /\ last = width
  BY <1>1, <1>5
<1>7. SubSeq(ts, 1, width) = ts
  <2>1. SubSeq(ts, 1, width) = [j \in 1 .. width |-> ts[j]]
    BY <1>4
  <2> QED
    BY <1>4, <2>1
<1>8. Bin!Trial(1, ts) = SubSeq(ts, first, last)
  BY <1>5, Zenon DEF Bin!Trial
<1> QED
  BY <1>6, <1>7, <1>8

\* What a run of a lock adds to the statistics agrees with its times.
LEMMA ResultAgrees ==
  ASSUME opts.num_trials \in Nat \ {0}, opts.num_threads \in Nat \ {0},
         NEW ts \in [1 .. opts.num_trials * opts.num_threads -> Times]
  PROVE  /\ \A n \in 1 .. opts.num_trials : Bin!Agree(Bin!ResultOf(ts).stats[n], Bin!Trial(n, ts))
         /\ Bin!Agree(Bin!ResultOf(ts).stats[opts.num_trials + 1], ts)
<1>1. PICK trials \in Nat \ {0}, width \in Nat \ {0} : trials = opts.num_trials /\ width = opts.num_threads
  OBVIOUS
<1>2. PICK all \in Nat \ {0} : all = trials * width
  OBVIOUS
<1>3. ts \in [1 .. all -> Int]
  <2>1. Times \subseteq Int
    BY ProgramsAssumption DEF Bin!DriverAssumption
  <2> QED
    BY <1>1, <1>2, <2>1
<1>4. ASSUME NEW n \in 1 .. opts.num_trials PROVE Bin!Agree(Bin!ResultOf(ts).stats[n], Bin!Trial(n, ts))
  <2>1. PICK part : part = SubSeq(ts, (n - 1) * width + 1, n * width)
    OBVIOUS
  <2>2. n \in 1 .. trials /\ ts \in [1 .. trials * width -> Int]
    BY <1>1, <1>2, <1>3
  <2>3. part \in [1 .. width -> Int]
    BY <1>1, <2>1, <2>2, TimesOfTrial
  <2>4. Bin!Trial(n, ts) = part
    BY <1>1, <2>1, Zenon DEF Bin!Trial
  <2>5. Bin!Agree(Bin!gen_stats(part), part)
    BY <2>3, GenStatsAgree
  <2> QED
    BY <2>4, <2>5, ResultHasAll, Zenon
<1>5. Bin!Agree(Bin!gen_stats(ts), ts)
  BY <1>2, <1>3, GenStatsAgree
<1>6. Bin!ResultOf(ts).stats[opts.num_trials + 1] = Bin!gen_stats(ts)
  BY ResultHasAll
<1> QED
  BY <1>4, <1>5, <1>6, Zenon

LEMMA FiguresInit == Bin!Init => FiguresInv
<1> SUFFICES ASSUME Bin!Init PROVE FiguresInv
  OBVIOUS
<1>1. driver_main = "parse" /\ times = <<>> /\ stats = <<>>
  BY Zenon DEF Bin!Init
<1>2. IsSequence(<<>>)
  BY DEF IsSequence
<1> QED
  BY <1>1, <1>2 DEF FiguresInv, StatsAgree, Bin!StatsAgree, OneTrialIsAll

LEMMA FiguresRunDecl == ASSUME ResultInv, FiguresInv, Bin!RunDecl PROVE FiguresInv'
<1>1. driver_main = "run" /\ driver_main' \in {"run", "died"} /\ opts' = opts
  BY DEF Bin!RunDecl, Bin!parse
<1>2. /\ opts.num_trials \in Nat \ {0} /\ opts.num_threads \in Nat \ {0}
      /\ IsSequence(stats) /\ IsSequence(times) /\ Len(times) = Len(stats) /\ StatsAgree /\ OneTrialIsAll
  BY <1>1 DEF FiguresInv
<1>3. \A n, ts : Bin!Trial(n, ts)' = Bin!Trial(n, ts)
  BY <1>1 DEF Bin!Trial
<1>4. CASE UNCHANGED <<times, stats>>
  <2>1. StatsAgree'
    BY <1>1, <1>2, <1>4 DEF StatsAgree, Bin!StatsAgree, Bin!Trial
  <2>2. OneTrialIsAll'
    BY <1>1, <1>2, <1>4 DEF OneTrialIsAll, Bin!Trial
  <2> QED
    BY <1>1, <1>2, <1>4, <2>1, <2>2 DEF FiguresInv
<1>5. ASSUME NEW ts \in [1 .. opts.num_trials * opts.num_threads -> Times],
             times' = Append(times, ts), stats' = Append(stats, Bin!ResultOf(ts))
      PROVE  FiguresInv'
  <2>1. /\ IsSequence(times') /\ Len(times') = Len(times) + 1
        /\ \A k \in 1 .. Len(times) + 1 : times'[k] = IF k = Len(times) + 1 THEN ts ELSE times[k]
    BY <1>2, <1>5, AppendToSequence
  <2>2. /\ IsSequence(stats') /\ Len(stats') = Len(stats) + 1 /\ Len(stats) \in Nat /\ DOMAIN stats = 1 .. Len(stats)
        /\ \A k \in 1 .. Len(stats) + 1 : stats'[k] = IF k = Len(stats) + 1 THEN Bin!ResultOf(ts) ELSE stats[k]
    BY <1>2, <1>5, AppendToSequence
  <2>3. DOMAIN stats' = 1 .. Len(stats')
    BY <2>2, AppendToSequence
  <2>4. ASSUME NEW k \in DOMAIN stats'
        PROVE  /\ \A n \in 1 .. opts.num_trials : Bin!Agree(stats'[k].stats[n], Bin!Trial(n, times'[k]))
               /\ Bin!Agree(stats'[k].stats[opts.num_trials + 1], times'[k])
    <3>1. k \in 1 .. Len(stats) + 1 /\ (k # Len(stats) + 1 => k \in DOMAIN stats)
      BY <2>2, <2>3
    <3>2. CASE k = Len(stats) + 1
      <4>1. times'[k] = ts /\ stats'[k] = Bin!ResultOf(ts)
        BY <1>2, <2>1, <2>2, <3>1, <3>2
      <4> QED
        BY <1>2, <4>1, ResultAgrees, Zenon
    <3>3. CASE k # Len(stats) + 1
      <4>1. times'[k] = times[k] /\ stats'[k] = stats[k] /\ k \in DOMAIN stats
        BY <1>2, <2>1, <2>2, <3>1, <3>3
      <4> QED
        BY <1>2, <4>1, Zenon DEF StatsAgree, Bin!StatsAgree
    <3> QED
      BY <3>2, <3>3
  <2>5. StatsAgree'
    BY <1>1, <1>3, <2>4, Zenon DEF StatsAgree, Bin!StatsAgree
  <2>6. ASSUME opts.num_trials = 1, NEW k \in DOMAIN stats' PROVE Bin!Trial(1, times'[k]) = times'[k]
    <3>1. k \in 1 .. Len(stats) + 1 /\ (k # Len(stats) + 1 => k \in DOMAIN stats)
      BY <2>2, <2>3
    <3>2. CASE k = Len(stats) + 1
      <4>1. times'[k] = ts
        BY <1>2, <2>1, <3>1, <3>2
      <4>2. Bin!Trial(1, ts) = ts
        BY <1>2, <2>6, TimesOfOneTrial
      <4> QED
        BY <4>1, <4>2
    <3>3. CASE k # Len(stats) + 1
      <4>1. times'[k] = times[k] /\ k \in DOMAIN stats
        BY <1>2, <2>1, <3>1, <3>3
      <4> QED
        BY <1>2, <2>6, <4>1, Zenon DEF OneTrialIsAll
    <3> QED
      BY <3>2, <3>3
  <2>7. OneTrialIsAll'
    BY <1>1, <1>3, <2>6, Zenon DEF OneTrialIsAll
  <2> QED
    BY <1>1, <1>2, <2>1, <2>2, <2>5, <2>7 DEF FiguresInv
<1> QED
  BY <1>1, <1>4, <1>5 DEF Bin!RunDecl, Bin!Bench

LEMMA FiguresNext == ResultInv /\ FiguresInv /\ [Bin!Next]_(Bin!vars) => FiguresInv'
<1> SUFFICES ASSUME ResultInv, FiguresInv, [Bin!Next]_(Bin!vars) PROVE FiguresInv'
  OBVIOUS
<1>1. IsSequence(stats) /\ IsSequence(times) /\ Len(times) = Len(stats)
  BY DEF FiguresInv
<1>2. ASSUME driver_main \in {"parse", "validate"}, UNCHANGED <<times, stats>>,
             \/ driver_main' \in {"parse", "usage", "validate", "died"}
             \/ driver_main' = "run" /\ opts'.num_trials \in Nat \ {0} /\ opts'.num_threads \in Nat \ {0}
      PROVE  FiguresInv'
  <2>1. stats = <<>> /\ DOMAIN stats' = {}
    BY <1>2 DEF FiguresInv
  <2>2. StatsAgree' /\ OneTrialIsAll'
    BY <2>1 DEF StatsAgree, Bin!StatsAgree, OneTrialIsAll
  <2> QED
    BY <1>1, <1>2, <2>1, <2>2 DEF FiguresInv
<1>3. CASE Bin!ParseSet \/ Bin!ParseInteger \/ Bin!ParseString \/ Bin!ParseExits \/ Bin!ParseRest
  <2>1. driver_main = "parse" /\ driver_main' \in {"parse", "usage", "validate"} /\ UNCHANGED <<times, stats>>
    BY <1>3 DEF Bin!ParseSet, Bin!ParseInteger, Bin!ParseString, Bin!ParseExits, Bin!ParseRest, Bin!AtOption
  <2> QED
    BY <1>2, <2>1
<1>4. CASE Bin!Validate
  <2>1. /\ driver_main = "validate" /\ driver_main' = IF Bin!Valid THEN "run" ELSE "died"
        /\ UNCHANGED <<opts, times, stats>>
    BY <1>4 DEF Bin!Validate, Bin!parse
  <2>2. ASSUME Bin!Valid PROVE opts.num_trials \in Nat \ {0} /\ opts.num_threads \in Nat \ {0}
    <3>1. opts.num_trials \in Int /\ opts.num_threads \in Int
      BY OptionsAreNumbers DEF ResultInv
    <3>2. opts.num_trials > 0 /\ opts.num_threads > 0
      BY <2>2 DEF Bin!Valid
    <3> QED
      BY <3>1, <3>2
  <2> QED
    BY <1>2, <2>1, <2>2
<1>5. CASE Bin!RunDecl
  BY <1>5, FiguresRunDecl
<1>6. ASSUME UNCHANGED <<opts, times, stats>>, driver_main' = driver_main \/ driver_main' \in {"died", "print", "done"}
      PROVE  FiguresInv'
  <2>1. StatsAgree' <=> StatsAgree
    BY <1>6 DEF StatsAgree, Bin!StatsAgree, Bin!Trial
  <2>2. OneTrialIsAll' <=> OneTrialIsAll
    BY <1>6 DEF OneTrialIsAll, Bin!Trial
  <2> QED
    BY <1>6, <2>1, <2>2 DEF FiguresInv
<1>7. CASE Bin!RunFails \/ Bin!Report \/ Bin!PrintStats \/ UNCHANGED Bin!vars
  <2>1. UNCHANGED <<opts, times, stats>> /\ (driver_main' = driver_main \/ driver_main' \in {"died", "print", "done"})
    BY <1>7 DEF Bin!RunFails, Bin!Report, Bin!PrintStats, Bin!vars, Bin!parse, Bin!search
  <2> QED
    BY <1>6, <2>1
<1> QED
  BY <1>3, <1>4, <1>5, <1>7 DEF Bin!Next

\* A line is what the statistics of its lock are.
LEMMA PrintsWhatAgrees == ResultInv /\ FiguresInv => EachResultPrinted
<1> DEFINE Right(k) ==
             /\ out[k].desc = lock_list[done[k]]
             /\ opts.stats_csv = 1 =>
                  \A n \in 1 .. opts.num_trials : Bin!Agree(out[k].stats[n], Bin!Trial(n, times[k]))
             /\ opts.stats_csv = 1 \/ opts.num_trials = 1 => Bin!Agree(Bin!Last(out[k].stats), times[k])
<1> SUFFICES ASSUME ResultInv, FiguresInv, driver_main = "done", Bin!Benching
             PROVE  Len(out) = Len(done) /\ \A k \in DOMAIN out : Right(k)
  BY Zenon DEF EachResultPrinted, Bin!EachResultPrinted
<1>1. opts.num_trials \in Nat \ {0} /\ ResultsKept /\ out = [k \in DOMAIN stats |-> Bin!Line(k)]
  BY DEF ResultInv
<1>2. DOMAIN stats = 1 .. Len(stats) /\ Len(stats) \in Nat
  BY <1>1, AppendToSequence DEF ResultsKept
<1>3. DOMAIN out = DOMAIN stats /\ Len(out) = Len(done)
  BY <1>1, <1>2 DEF ResultsKept
<1>4. ASSUME NEW k \in DOMAIN out PROVE Right(k)
  <2> DEFINE n == opts.num_trials
             s == stats[k].stats
  <2>1. stats[k].desc = lock_list[done[k]] /\ Len(s) = n + 1 /\ out[k] = Bin!Line(k)
    BY <1>1, <1>3, <1>4 DEF ResultsKept
  <2>2. (\A m \in 1 .. n : Bin!Agree(s[m], Bin!Trial(m, times[k]))) /\ Bin!Agree(s[n + 1], times[k])
    BY <1>3, <1>4, Zenon DEF FiguresInv, StatsAgree, Bin!StatsAgree
  <2>3. out[k].desc = lock_list[done[k]] /\ out[k].stats = IF opts.stats_csv = 1 THEN s ELSE <<s[n]>>
    BY <2>1 DEF Bin!Line
  <2>4. CASE opts.stats_csv = 1
    <3>1. Bin!Last(s) = s[n + 1]
      BY <2>1, Zenon DEF Bin!Last
    <3> QED
      BY <2>2, <2>3, <2>4, <3>1, Zenon
  <2>5. CASE opts.stats_csv # 1 /\ n = 1
    <3>1. out[k].stats = <<s[1]>>
      BY <2>3, <2>5
    <3>2. Bin!Last(out[k].stats) = s[1]
      BY <3>1 DEF Bin!Last
    <3>3. Bin!Trial(1, times[k]) = times[k]
      BY <1>3, <1>4, <2>5, Zenon DEF FiguresInv, OneTrialIsAll
    <3>4. Bin!Agree(s[1], Bin!Trial(1, times[k]))
      BY <2>2, <2>5
    <3> QED
      BY <2>3, <2>5, <3>2, <3>3, <3>4, Zenon
  <2>6. CASE opts.stats_csv # 1 /\ n # 1
    BY <2>3, <2>6, Zenon
  <2> QED
    BY <2>4, <2>5, <2>6, Zenon
<1> QED
  BY <1>3, <1>4, Zenon

\* Whatever the times are and in whichever order the threads were joined, the
\* figures of a trial agree with each other and with its times, and so do those
\* of all trials: minimum, maximum, mean, median, percentiles and squared sum.
THEOREM StatsAgreeHolds == Programs => []StatsAgree
<1>1. FiguresInv => StatsAgree
  BY DEF FiguresInv
<1> QED
  BY <1>1, ResultInit, ResultNext, FiguresInit, FiguresNext, DriverRuns, PTL

\* print_stats() writes a line for each lock that ran, with the name and the
\* figures of that lock and of no other: as csv those of every trial and of all,
\* as text those of all when there is one trial.
THEOREM EachResultPrintedHolds == Programs => []EachResultPrinted
<1> QED
  BY PrintsWhatAgrees, ResultInit, ResultNext, FiguresInit, FiguresNext, DriverRuns, PTL

-----------------------------------------------------------------------------
LEMMA CpuConstants ==
  /\ nprocs \in Nat \ {0} /\ Bench!Cpus = 0 .. nprocs - 1
  /\ PhysCpuId \in [Bench!Cpus -> Bench!Cpus] /\ \A c \in Bench!Cpus : PhysCpuId[PhysCpuId[c]] = PhysCpuId[c]
  /\ \A c \in Bench!Cpus : CpuIds[c] \subseteq Nat
  BY ProgramsAssumption DEF Bench!LockBenchAssumption, Bench!TopologyAssumption, Bench!Cpus

\* The benchmark has a Cardinality of its own, the same.
LEMMA SameNumber == ASSUME NEW S PROVE Bench!Cardinality(S) = Cardinality(S)
  BY DEF Bench!Cardinality, Cardinality, Bench!IsFiniteSet, IsFiniteSet

LEMMA CpusFinite ==
  /\ IsFiniteSet(Bench!Cpus) /\ Cardinality(Bench!Cpus) = nprocs
  /\ \A S \in SUBSET Bench!Cpus : IsFiniteSet(S) /\ Cardinality(S) \in Nat /\ Cardinality(S) <= nprocs
<1>1. IsFiniteSet(Bench!Cpus) /\ Cardinality(Bench!Cpus) = nprocs
  <2>1. IsFiniteSet(0 .. nprocs - 1) /\ Cardinality(0 .. nprocs - 1) = IF 0 > nprocs - 1 THEN 0 ELSE (nprocs - 1) - 0 + 1
    <3>1. 0 \in Int /\ nprocs - 1 \in Int
      BY CpuConstants
    <3> QED
      BY <3>1, FS_Interval, Zenon
  <2> QED
    BY <2>1, CpuConstants
<1> QED
  BY <1>1, FS_Subset, FS_CardinalityType

\* The n lowest of some cpus are n, or all of them.
LEMMA FirstOf ==
  ASSUME NEW S \in SUBSET Bench!Cpus, NEW n \in Int
  PROVE  /\ Bench!First(n, S) \subseteq S
         /\ n <= 0 => Bench!First(n, S) = {}
         /\ n \in 0 .. Cardinality(S) => Cardinality(Bench!First(n, S)) = n
         /\ n >= Cardinality(S) => Bench!First(n, S) = S
<1> DEFINE Lower(c) == {d \in S : d < c}
           rank == [c \in S |-> Cardinality(Lower(c))]
           size == Cardinality(S)
<1>1. S \subseteq Int /\ IsFiniteSet(S) /\ size \in Nat
  BY CpusFinite, CpuConstants
<1>2. ASSUME NEW c \in S
      PROVE  /\ Lower(c) \in SUBSET S /\ c \notin Lower(c) /\ IsFiniteSet(Lower(c))
             /\ Cardinality(Lower(c)) \in Nat /\ Cardinality(Lower(c)) < size
  <2>1. Lower(c) \in SUBSET S /\ c \notin Lower(c)
    BY <1>1
  <2> HIDE DEF Lower
  <2>2. IsFiniteSet(Lower(c)) /\ Cardinality(Lower(c)) <= size /\ Cardinality(Lower(c)) # size
    BY <1>1, <2>1, FS_Subset
  <2>3. Cardinality(Lower(c)) \in Nat
    BY <2>2, FS_CardinalityType
  <2> QED
    BY <1>1, <2>1, <2>2, <2>3
<1>3. ASSUME NEW c \in S, NEW d \in S, c < d PROVE Cardinality(Lower(c)) < Cardinality(Lower(d))
  <2>1. Lower(c) \in SUBSET Lower(d) /\ c \in Lower(d) /\ c \notin Lower(c)
    <3>1. c \in Int /\ d \in Int /\ \A e \in S : e \in Int
      BY <1>1
    <3>2. (\A e \in S : e < c => e < d) /\ ~(c < c)
      BY <1>3, <3>1
    <3> QED
      BY <1>3, <3>2
  <2>2. IsFiniteSet(Lower(d)) /\ Cardinality(Lower(c)) \in Nat /\ Cardinality(Lower(d)) \in Nat
    BY <1>2
  <2> HIDE DEF Lower
  <2>3. Cardinality(Lower(c)) <= Cardinality(Lower(d)) /\ Cardinality(Lower(c)) # Cardinality(Lower(d))
    BY <2>1, <2>2, FS_Subset
  <2> QED
    BY <2>2, <2>3
<1>4. \A c \in S : rank[c] = Cardinality(Lower(c))
  OBVIOUS
<1>5. Bench!First(n, S) = {c \in S : rank[c] < n}
  BY SameNumber DEF Bench!First
<1> HIDE DEF rank, size, Lower
<1>6. \A c \in S : rank[c] \in Nat /\ rank[c] < size
  BY <1>2, <1>4
<1>7. \A c, d \in S : rank[c] = rank[d] => c = d
  <2>1. ASSUME NEW c \in S, NEW d \in S, c # d PROVE rank[c] # rank[d]
    <3>1. c < d \/ d < c
      BY <1>1, <2>1
    <3> QED
      BY <1>2, <1>3, <1>4, <3>1
  <2> QED
    BY <2>1
<1>8. DOMAIN rank = S /\ rank = [c \in S |-> rank[c]]
  BY DEF rank
<1>9. rank \in [S -> 0 .. size - 1]
  BY <1>1, <1>6, <1>8
<1>10. rank \in Injection(S, 0 .. size - 1)
  BY <1>7, <1>8, <1>9 DEF Injection, IsInjective
<1>11. \A k \in Nat : IsFiniteSet(0 .. k - 1) /\ Cardinality(0 .. k - 1) = k
  <2>1. ASSUME NEW k \in Nat PROVE IsFiniteSet(0 .. k - 1) /\ Cardinality(0 .. k - 1) = k
    <3>1. 0 \in Int /\ k - 1 \in Int
      OBVIOUS
    <3>2. IsFiniteSet(0 .. k - 1) /\ Cardinality(0 .. k - 1) = IF 0 > k - 1 THEN 0 ELSE (k - 1) - 0 + 1
      BY <3>1, FS_Interval, Zenon
    <3> QED
      BY <3>2
  <2> QED
    BY <2>1
<1>12. rank \in Surjection(S, 0 .. size - 1)
  BY <1>1, <1>10, <1>11, FS_Injection DEF size
<1>13. ASSUME n \in 0 .. size PROVE Cardinality(Bench!First(n, S)) = n
  <2> DEFINE F == Bench!First(n, S)
             g == [c \in F |-> rank[c]]
  <2>1. F \subseteq S /\ \A c \in S : c \in F <=> rank[c] < n
    BY <1>5
  <2> HIDE DEF F
  <2>2. g \in Injection(F, 0 .. n - 1)
    <3>1. g \in [F -> 0 .. n - 1]
      BY <1>6, <1>13, <2>1
    <3> QED
      BY <1>7, <2>1, <3>1 DEF Injection, IsInjective
  <2>3. ASSUME NEW k \in 0 .. n - 1 PROVE \E c \in F : g[c] = k
    <3>1. PICK c \in S : rank[c] = k
      <4>1. k \in 0 .. size - 1
        BY <1>1, <1>13
      <4> QED
        BY <1>12, <4>1 DEF Surjection
    <3> QED
      BY <1>13, <2>1, <3>1
  <2>4. g \in Surjection(F, 0 .. n - 1)
    BY <2>2, <2>3 DEF Surjection, Injection
  <2>5. n \in Nat /\ IsFiniteSet(0 .. n - 1) /\ Cardinality(0 .. n - 1) = n
    BY <1>11, <1>13
  <2>6. Cardinality(F) = Cardinality(0 .. n - 1)
    BY <2>2, <2>4, <2>5, FS_Injection
  <2> QED
    BY <2>5, <2>6 DEF F
<1> DEFINE F == Bench!First(n, S)
<1>14. \A c \in S : rank[c] \in Int /\ 0 <= rank[c] /\ rank[c] < size
  BY <1>1, <1>6
<1>15. (n <= 0 => \A c \in S : ~(rank[c] < n)) /\ (n >= size => \A c \in S : rank[c] < n)
  BY <1>1, <1>14
<1>16. F = {c \in S : rank[c] < n}
  BY <1>5
<1> HIDE DEF F
<1>17. F \subseteq S /\ (n <= 0 => F = {}) /\ (n >= size => F = S)
  BY <1>15, <1>16
<1> QED
  BY <1>13, <1>17 DEF F, size

\* The cpus that stand for their core, the cores, and those with a cpu of a set.
Phys == {c \in Bench!Cpus : PhysCpuId[c] = c}
Cores == {Bench!Core(c) : c \in Bench!Cpus}
Used(A) == {k \in Cores : k \cap A # {}}

LEMMA SmallerOf ==
  ASSUME NEW a \in Int, NEW b \in Int, a <= b
  PROVE  Bench!Min({a, b}) = a /\ Bench!Min({b, a}) = a
<1>1. \A x \in {a, b} : (\A y \in {a, b} : x <= y) <=> x = a
  OBVIOUS
<1>2. (CHOOSE x \in {a, b} : \A y \in {a, b} : x <= y) = a
  BY <1>1
<1>3. {a, b} = {b, a}
  OBVIOUS
<1> QED
  BY <1>2, <1>3 DEF Bench!Min

\* Cpus that stand for their core are on as many cores.
LEMMA CoresOfPhys ==
  ASSUME NEW A \in SUBSET Phys
  PROVE  IsFiniteSet(Used(A)) /\ Cardinality(Used(A)) = Cardinality(A)
<1> DEFINE g == [c \in A |-> Bench!Core(c)]
<1>1. /\ PhysCpuId \in [Bench!Cpus -> Bench!Cpus] /\ \A c \in Bench!Cpus : PhysCpuId[PhysCpuId[c]] = PhysCpuId[c]
      /\ A \subseteq Bench!Cpus /\ IsFiniteSet(A) /\ \A c \in A : PhysCpuId[c] = c
  BY CpuConstants, CpusFinite DEF Phys
<1>2. \A c \in A : g[c] = Bench!Core(c)
  OBVIOUS
<1>3. \A c \in A : c \in Bench!Core(c) /\ Bench!Core(c) \in Used(A)
  BY <1>1 DEF Used, Cores, Bench!Core
<1>4. \A c, d \in A : Bench!Core(c) = Bench!Core(d) => c = d
  BY <1>1, <1>3 DEF Bench!Core
<1>5. \A k \in Used(A) : \E c \in A : k = Bench!Core(c)
  <2>1. ASSUME NEW k \in Used(A) PROVE \E c \in A : k = Bench!Core(c)
    <3>1. PICK d \in Bench!Cpus, c \in A : k = Bench!Core(d) /\ c \in k
      BY DEF Used, Cores
    <3>2. PhysCpuId[c] = PhysCpuId[d]
      BY <3>1 DEF Bench!Core
    <3>3. k = Bench!Core(c)
      BY <3>1, <3>2 DEF Bench!Core
    <3> QED
      BY <3>3
  <2> QED
    BY <2>1
<1>6. g \in [A -> Used(A)] /\ DOMAIN g = A
  BY <1>3
<1> HIDE DEF g
<1>7. g \in Injection(A, Used(A))
  BY <1>2, <1>4, <1>6 DEF Injection, IsInjective
<1>8. g \in Surjection(A, Used(A))
  BY <1>2, <1>5, <1>6 DEF Surjection
<1> QED
  BY <1>1, <1>7, <1>8, FS_Surjection

\* Every core has its cpu that stands for it.
LEMMA CoresAre ==
  /\ Phys \subseteq Bench!Cpus /\ IsFiniteSet(Phys) /\ Cardinality(Phys) \in Nat /\ Cardinality(Phys) <= nprocs
  /\ \A A : Phys \subseteq A => Used(A) = Cores
  /\ IsFiniteSet(Cores) /\ Cardinality(Cores) = Cardinality(Phys)
<1>1. Phys \subseteq Bench!Cpus
  BY DEF Phys
<1>2. IsFiniteSet(Phys) /\ Cardinality(Phys) \in Nat /\ Cardinality(Phys) <= nprocs
  BY <1>1, CpusFinite
<1>3. ASSUME NEW A, Phys \subseteq A PROVE Used(A) = Cores
  <2>1. ASSUME NEW c \in Bench!Cpus PROVE PhysCpuId[c] \in Phys \cap Bench!Core(c)
    BY CpuConstants DEF Phys, Bench!Core
  <2> QED
    BY <1>3, <2>1 DEF Used, Cores
<1>4. Used(Phys) = Cores
  BY <1>3
<1> QED
  BY <1>1, <1>2, <1>3, <1>4, CoresOfPhys

\* Without prefer_hyper_threads.
LEMMA PhysicalFirstAsAsked ==
  ASSUME NEW n \in 1 .. nprocs, NEW A, A = Bench!PhysicalFirst(n) \/ (n = nprocs /\ A = Bench!Cpus)
  PROVE  /\ A \subseteq Bench!Cpus /\ Cardinality(A) = n
         /\ Cardinality(Used(A)) = Bench!Min({n, Cardinality(Cores)})
<1> DEFINE size == Cardinality(Phys)
           rest == Bench!Cpus \ Phys
<1>1. Phys \in SUBSET Bench!Cpus /\ rest \in SUBSET Bench!Cpus /\ size \in Nat /\ size <= nprocs /\ n \in Int
  BY CoresAre, CpuConstants
<1>2. Cardinality(rest) = nprocs - size
  <2>1. Bench!Cpus \cap Phys = Phys
    BY <1>1
  <2>2. Cardinality(rest) = Cardinality(Bench!Cpus) - Cardinality(Bench!Cpus \cap Phys)
    BY CpusFinite, FS_Difference
  <2> QED
    BY <2>1, <2>2, CpusFinite
<1>3. Bench!PhysicalFirst(n) = Bench!First(n, Phys) \cup Bench!First(n - size, rest)
  BY SameNumber, Zenon DEF Bench!PhysicalFirst, Phys
<1>4. Phys \cap rest = {} /\ Phys \cup rest = Bench!Cpus
  BY <1>1
<1> HIDE DEF rest
<1>5. n - size \in Int
  BY <1>1
<1>6. CASE A = Bench!PhysicalFirst(n) /\ n <= size
  <2>1. /\ Bench!First(n, Phys) \subseteq Phys /\ Cardinality(Bench!First(n, Phys)) = n
    <3>1. n \in 0 .. Cardinality(Phys)
      BY <1>1, <1>6
    <3> QED
      BY <1>1, <3>1, FirstOf
  <2>2. Bench!First(n - size, rest) = {}
    <3>1. n - size <= 0
      BY <1>1, <1>6
    <3> QED
      BY <1>1, <1>5, <3>1, FirstOf
  <2>3. A \in SUBSET Phys /\ Cardinality(A) = n
    BY <1>3, <1>6, <2>1, <2>2
  <2>4. Cardinality(Used(A)) = n
    BY <2>3, CoresOfPhys
  <2>5. Bench!Min({n, size}) = n
    BY <1>1, <1>6, SmallerOf
  <2> QED
    BY <1>1, <2>3, <2>4, <2>5, CoresAre
<1>7. CASE A = Bench!PhysicalFirst(n) /\ n > size
  <2>1. Bench!First(n, Phys) = Phys
    <3>1. n >= Cardinality(Phys)
      BY <1>1, <1>7
    <3> QED
      BY <1>1, <3>1, FirstOf
  <2>2. PICK more : more = Bench!First(n - size, rest)
    OBVIOUS
  <2>3. more \subseteq rest /\ Cardinality(more) = n - size
    <3>1. n - size \in 0 .. Cardinality(rest)
      BY <1>1, <1>2, <1>7, CpuConstants
    <3> QED
      BY <1>1, <1>5, <2>2, <3>1, FirstOf
  <2>4. A = Phys \cup more /\ Phys \cap more = {} /\ A \subseteq Bench!Cpus
    BY <1>1, <1>3, <1>4, <1>7, <2>1, <2>2, <2>3
  <2>5. Cardinality(A) = n
    <3>1. IsFiniteSet(more) /\ IsFiniteSet(Phys)
      BY <1>1, <2>3, CpusFinite
    <3>2. Cardinality(Phys \cup more) = Cardinality(Phys) + Cardinality(more) - Cardinality(Phys \cap more)
      BY <3>1, FS_Union
    <3>3. Cardinality(Phys \cap more) = 0
      BY <2>4, FS_EmptySet
    <3> QED
      BY <1>1, <2>3, <2>4, <3>2, <3>3
  <2>6. Bench!Min({n, size}) = size
    BY <1>1, <1>7, SmallerOf
  <2>7. Used(A) = Cores
    BY <2>4, CoresAre
  <2> QED
    BY <2>4, <2>5, <2>6, <2>7, CoresAre
<1>8. CASE n = nprocs /\ A = Bench!Cpus
  <2>1. Bench!Min({n, size}) = size
    BY <1>1, <1>8, SmallerOf
  <2>2. Used(A) = Cores
    BY <1>1, <1>8, CoresAre
  <2> QED
    BY <1>8, <2>1, <2>2, CoresAre, CpusFinite
<1> QED
  BY <1>1, <1>6, <1>7, <1>8

\* The loop over the cpus, group after group.
Taken(s, n, m) ==
  s = [i \in 0 .. m |-> IF i = 0 THEN [cset |-> {}, left |-> n, last |-> {}] ELSE Bench!AddGroup(s[i - 1], i - 1)]

LEMMA TakenExists ==
  ASSUME NEW m \in Nat, NEW n PROVE \E s : Taken(s, n, m)
<1> DEFINE S == {k \in 0 .. m : \E s : Taken(s, n, k)}
           none == [cset |-> {}, left |-> n, last |-> {}]
<1>1. 0 \in S
  <2>1. Taken([i \in 0 .. 0 |-> none], n, 0)
    BY DEF Taken
  <2> QED
    BY <2>1
<1>2. ASSUME NEW k \in 1 .. m, k - 1 \in S PROVE k \in S
  <2>1. PICK s : Taken(s, n, k - 1)
    BY <1>2
  <2> DEFINE t == [i \in 0 .. k |-> IF i = k THEN Bench!AddGroup(s[k - 1], k - 1) ELSE s[i]]
  <2>2. \A i \in 0 .. k - 1 : s[i] = IF i = 0 THEN none ELSE Bench!AddGroup(s[i - 1], i - 1)
    BY <2>1 DEF Taken
  <2> HIDE DEF none
  <2>3. \A i \in 0 .. k : t[i] = IF i = 0 THEN none ELSE Bench!AddGroup(t[i - 1], i - 1)
    BY <2>2
  <2>4. Taken(t, n, k)
    BY <2>3 DEF Taken, none
  <2> QED
    BY <2>4
<1>3. 0 .. m \subseteq S
  <2> HIDE DEF S
  <2> QED
    BY <1>1, <1>2, Climb
<1> QED
  BY <1>3

\* What holds of the groups when the loop has come to cpu i.  Where the code
\* asserts that none of the siblings is in the set, none is.
GroupsInv(g, n, i) ==
  /\ g = [cset |-> g.cset, left |-> g.left, last |-> g.last]
  /\ g.cset \subseteq Bench!Cpus /\ g.last \subseteq Bench!Cpus
  /\ \A c \in g.cset : Bench!Core(c) \subseteq g.cset
  /\ g.left \in Nat \ {0} /\ Cardinality(g.cset) + g.left = n
  /\ g.last = {} => \A c \in Bench!Cpus : c < i => c \in g.cset
  /\ g.last # {} => /\ \E c \in Bench!Cpus : g.last = Bench!Core(c)
                    /\ g.last \cap g.cset = {} /\ Cardinality(g.last) >= g.left

LEMMA AddGroupKeeps ==
  ASSUME Bench!SiblingsAreCores, NEW n \in Nat, NEW c \in Bench!Cpus, NEW g, GroupsInv(g, n, c)
  PROVE  GroupsInv(Bench!AddGroup(g, c), n, c + 1)
<1> DEFINE h == Bench!AddGroup(g, c)
           core == Bench!Core(c)
<1>1. /\ g.cset \subseteq Bench!Cpus /\ g.last \subseteq Bench!Cpus
      /\ g = [cset |-> g.cset, left |-> g.left, last |-> g.last]
      /\ \A d \in g.cset : Bench!Core(d) \subseteq g.cset
      /\ g.left \in Nat \ {0} /\ Cardinality(g.cset) + g.left = n
      /\ g.last = {} => \A d \in Bench!Cpus : d < c => d \in g.cset
  BY DEF GroupsInv
<1>2. CpuIds[c] = core /\ c \in core /\ core \subseteq Bench!Cpus /\ \A d \in core : Bench!Core(d) = core
  BY DEF Bench!SiblingsAreCores, Bench!Core
<1>3. \A d \in Bench!Cpus : d < c + 1 => d < c \/ d = c
  BY CpuConstants
<1>4. CASE g.last # {} \/ c \in g.cset
  <2>1. h = g
    BY <1>4 DEF Bench!AddGroup
  <2> QED
    BY <1>1, <1>3, <1>4, <2>1 DEF GroupsInv
<1> HIDE DEF core
<1>5. IsFiniteSet(g.cset) /\ IsFiniteSet(core) /\ Cardinality(g.cset) \in Nat /\ Cardinality(core) \in Nat
  BY <1>1, <1>2, CpusFinite
<1>6. ASSUME g.last = {}, c \notin g.cset PROVE core \cap g.cset = {}
  BY <1>1, <1>2, <1>6
<1>7. Bench!Cardinality(CpuIds[c]) = Cardinality(core)
  BY <1>2, SameNumber
<1>8. CASE g.last = {} /\ c \notin g.cset /\ Cardinality(core) >= g.left
  <2>1. h = [g EXCEPT !.last = core]
    BY <1>2, <1>7, <1>8, Zenon DEF Bench!AddGroup
  <2>2. h = [cset |-> g.cset, left |-> g.left, last |-> core]
    BY <1>1, <2>1
  <2>3. h.cset = g.cset /\ h.left = g.left /\ h.last = core /\ core # {}
    BY <1>2, <2>2
  <2> HIDE DEF h
  <2>4. GroupsInv(h, n, c + 1)
    BY <1>1, <1>2, <1>6, <1>8, <2>2, <2>3 DEF GroupsInv, core
  <2> QED
    BY <2>4 DEF h
<1>9. CASE g.last = {} /\ c \notin g.cset /\ ~(Cardinality(core) >= g.left)
  <2>1. h = [g EXCEPT !.cset = g.cset \cup core, !.left = g.left - Cardinality(core)]
    BY <1>2, <1>7, <1>9, Zenon DEF Bench!AddGroup
  <2>2. h = [cset |-> g.cset \cup core, left |-> g.left - Cardinality(core), last |-> {}]
    BY <1>1, <1>9, <2>1
  <2>3. h.cset = g.cset \cup core /\ h.left = g.left - Cardinality(core) /\ h.last = {}
    BY <2>2
  <2> HIDE DEF h
  <2>4. Cardinality(h.cset) = Cardinality(g.cset) + Cardinality(core)
    <3>1. Cardinality(g.cset \cup core) = Cardinality(g.cset) + Cardinality(core) - Cardinality(g.cset \cap core)
      BY <1>5, FS_Union
    <3>2. Cardinality(g.cset \cap core) = 0
      <4>1. g.cset \cap core = {}
        BY <1>6, <1>9
      <4> QED
        BY <4>1, FS_EmptySet
    <3> QED
      BY <1>5, <2>3, <3>1, <3>2
  <2>5. h.left \in Nat \ {0} /\ Cardinality(h.cset) + h.left = n
    BY <1>1, <1>5, <1>9, <2>3, <2>4
  <2>6. \A d \in h.cset : Bench!Core(d) \subseteq h.cset
    BY <1>1, <1>2, <2>3
  <2>7. \A d \in Bench!Cpus : d < c + 1 => d \in h.cset
    BY <1>1, <1>2, <1>3, <1>9, <2>3
  <2>8. h.cset \subseteq Bench!Cpus /\ h = [cset |-> h.cset, left |-> h.left, last |-> h.last]
    BY <1>1, <1>2, <2>2, <2>3
  <2>9. GroupsInv(h, n, c + 1)
    BY <2>3, <2>5, <2>6, <2>7, <2>8, Zenon DEF GroupsInv
  <2> QED
    BY <2>9 DEF h
<1> QED
  BY <1>4, <1>8, <1>9

LEMMA GroupsFit ==
  ASSUME Bench!SiblingsAreCores, NEW n \in Nat \ {0}
  PROVE  GroupsInv(Bench!Groups(n), n, nprocs)
<1> DEFINE none == [cset |-> {}, left |-> n, last |-> {}]
           s == CHOOSE t : t = [i \in 0 .. nprocs |-> IF i = 0 THEN none ELSE Bench!AddGroup(t[i - 1], i - 1)]
<1>0. nprocs \in Nat
  BY CpuConstants
<1>1. Bench!Groups(n) = s[nprocs]
  BY DEF Bench!Groups
<1>2. s = [i \in 0 .. nprocs |-> IF i = 0 THEN none ELSE Bench!AddGroup(s[i - 1], i - 1)]
  <2>1. \E t : t = [i \in 0 .. nprocs |-> IF i = 0 THEN none ELSE Bench!AddGroup(t[i - 1], i - 1)]
    <3>1. PICK t : Taken(t, n, nprocs)
      BY <1>0, TakenExists, Zenon
    <3> QED
      BY <3>1, Zenon DEF Taken
  <2> QED
    BY <2>1, Zenon
<1> HIDE DEF s, none
<1>3. s[0] = none /\ \A i \in 1 .. nprocs : s[i] = Bench!AddGroup(s[i - 1], i - 1)
  BY <1>0, <1>2
<1> DEFINE S == {i \in 0 .. nprocs : GroupsInv(s[i], n, i)}
<1>4. 0 \in S
  <2>1. none.cset = {} /\ none.left = n /\ none.last = {} /\ none = [cset |-> none.cset, left |-> none.left, last |-> none.last]
    BY DEF none
  <2>2. Cardinality({}) = 0 /\ \A c \in Bench!Cpus : ~(c < 0)
    BY FS_EmptySet, CpuConstants
  <2>3. GroupsInv(none, n, 0)
    BY <2>1, <2>2 DEF GroupsInv
  <2> QED
    BY <1>0, <1>3, <2>3
<1>5. ASSUME NEW i \in 1 .. nprocs, i - 1 \in S PROVE i \in S
  <2>1. i - 1 \in Bench!Cpus /\ i - 1 + 1 = i
    BY CpuConstants
  <2>2. GroupsInv(s[i - 1], n, i - 1)
    BY <1>5
  <2>3. GroupsInv(Bench!AddGroup(s[i - 1], i - 1), n, (i - 1) + 1)
    BY <2>1, <2>2, AddGroupKeeps
  <2>4. (i - 1) + 1 = i
    OBVIOUS
  <2> QED
    BY <1>3, <2>3, <2>4
<1>6. 0 .. nprocs \subseteq S
  <2> HIDE DEF S
  <2> QED
    BY <1>0, <1>4, <1>5, Climb
<1>7. GroupsInv(s[nprocs], n, nprocs)
  BY <1>0, <1>6
<1> QED
  BY <1>1, <1>7

\* With prefer_hyper_threads: as many cpus as asked for, and at most the last
\* core in part.
LEMMA SiblingGroupsAsAsked ==
  ASSUME Bench!SiblingsAreCores, NEW n \in 1 .. nprocs, NEW A,
         (A = Bench!SiblingGroups(n) /\ n < nprocs) \/ (A = Bench!Cpus /\ n = nprocs)
  PROVE  /\ A \subseteq Bench!Cpus /\ Cardinality(A) = n
         /\ Cardinality({k \in Used(A) : ~(k \subseteq A)}) <= 1
<1>0. n \in Nat \ {0} /\ nprocs \in Nat /\ IsFiniteSet(Bench!Cpus) /\ Cardinality(Bench!Cpus) = nprocs
  BY CpuConstants, CpusFinite
<1>1. \A k \in Cores : k \subseteq Bench!Cpus
  BY DEF Cores, Bench!Core
<1>2. CASE A = Bench!Cpus /\ n = nprocs
  <2>1. {k \in Used(A) : ~(k \subseteq A)} = {}
    BY <1>1, <1>2 DEF Used
  <2>2. Cardinality({}) = 0 /\ 0 <= 1
    BY FS_EmptySet
  <2> QED
    BY <1>0, <1>2, <2>1, <2>2
<1>3. CASE A = Bench!SiblingGroups(n) /\ n < nprocs
  <2>1. PICK g : g = Bench!Groups(n)
    OBVIOUS
  <2>2. GroupsInv(g, n, nprocs)
    BY <1>0, <2>1, GroupsFit
  <2>3. /\ g.cset \subseteq Bench!Cpus /\ g.last \subseteq Bench!Cpus
        /\ g.left \in Nat \ {0} /\ Cardinality(g.cset) + g.left = n
        /\ \A c \in g.cset : Bench!Core(c) \subseteq g.cset
        /\ g.last = {} => \A c \in Bench!Cpus : c < nprocs => c \in g.cset
    BY <2>2 DEF GroupsInv
  <2>4. g.last # {}
    <3>1. SUFFICES ASSUME g.last = {} PROVE FALSE
      OBVIOUS
    <3>2. \A c \in Bench!Cpus : c < nprocs
      BY CpuConstants
    <3>3. g.cset = Bench!Cpus
      BY <2>3, <3>1, <3>2
    <3> QED
      BY <1>0, <1>3, <2>3, <3>3
  <2>5. PICK core : /\ core = g.last /\ core \in Cores /\ core \subseteq Bench!Cpus
                    /\ core \cap g.cset = {} /\ Cardinality(core) >= g.left
    BY <2>2, <2>3, <2>4 DEF GroupsInv, Cores
  <2>6. /\ IsFiniteSet(core) /\ Cardinality(core) \in Nat /\ IsFiniteSet(g.cset) /\ Cardinality(g.cset) \in Nat
        /\ core \cap Bench!Cpus = core
    BY <2>3, <2>5, CpusFinite
  <2>7. PICK surplus : surplus = Bench!First(Cardinality(core) - g.left, core)
    OBVIOUS
  <2>8. surplus \subseteq core /\ Cardinality(surplus) = Cardinality(core) - g.left
    <3>1. Cardinality(core) - g.left \in 0 .. Cardinality(core) /\ Cardinality(core) - g.left \in Int
      BY <2>3, <2>5, <2>6
    <3> QED
      BY <2>5, <2>7, <3>1, FirstOf
  <2>9. A = g.cset \cup (core \ surplus)
    <3>1. Bench!Cardinality(g.last) = Cardinality(core)
      BY <2>5, SameNumber
    <3> QED
      BY <1>3, <2>1, <2>5, <2>6, <2>7, <3>1, Zenon DEF Bench!SiblingGroups
  <2>10. Cardinality(A) = n
    <3>1. PICK part : part = core \ surplus
      OBVIOUS
    <3>2. Cardinality(part) = Cardinality(core) - Cardinality(core \cap surplus) /\ core \cap surplus = surplus
      BY <2>6, <2>8, <3>1, FS_Difference
    <3>3. Cardinality(part) = g.left
      <4>1. Cardinality(part) = Cardinality(core) - (Cardinality(core) - g.left)
        BY <2>8, <3>2, Zenon
      <4> QED
        BY <2>3, <2>6, <4>1
    <3>4. g.cset \cap part = {} /\ IsFiniteSet(part)
      BY <2>5, <2>6, <3>1, FS_Difference
    <3>5. Cardinality(g.cset \cup part) = Cardinality(g.cset) + Cardinality(part) - Cardinality(g.cset \cap part)
      BY <2>6, <3>4, FS_Union
    <3>6. Cardinality(g.cset \cap part) = 0
      BY <3>4, FS_EmptySet
    <3> QED
      BY <2>3, <2>6, <2>9, <3>1, <3>3, <3>5, <3>6
  <2>11. {k \in Used(A) : ~(k \subseteq A)} \in SUBSET {core}
    <3>1. ASSUME NEW k \in Used(A), ~(k \subseteq A) PROVE k = core
      <4>1. PICK c \in A : k \in Cores /\ c \in k
        BY DEF Used
      <4>2. \A l \in Cores : c \in l => l = Bench!Core(c)
        BY DEF Cores, Bench!Core
      <4>3. CASE c \in g.cset
        BY <2>3, <2>9, <3>1, <4>1, <4>2, <4>3
      <4>4. CASE c \in core
        BY <2>5, <4>1, <4>2, <4>4
      <4> QED
        BY <2>9, <4>1, <4>3, <4>4
    <3> QED
      BY <3>1
  <2>12. Cardinality({k \in Used(A) : ~(k \subseteq A)}) <= 1
    <3>1. IsFiniteSet({core}) /\ Cardinality({core}) = 1
      BY FS_Singleton
    <3> QED
      BY <2>11, <3>1, FS_Subset
  <2>13. A \subseteq Bench!Cpus
    BY <2>3, <2>5, <2>9
  <2> QED
    BY <2>10, <2>12, <2>13
<1> QED
  BY <1>2, <1>3

\* Whatever the options are, the cpus are on the machine, and a number of cpus
\* that the machine has is honoured.
LEMMA AllowableAsAsked ==
  ASSUME NEW o \in CpuOptions, o.prefer_hyper_threads => Bench!SiblingsAreCores
  PROVE  /\ Bench!AllowableCset(o) \subseteq Bench!Cpus
         /\ o.cpu_list = <<>> /\ o.num_cpus \in 1 .. nprocs => Bench!AsAsked(o, Bench!AllowableCset(o))
<1> DEFINE A == Bench!AllowableCset(o)
<1>0. nprocs \in Nat \ {0} /\ o.num_cpus \in Int /\ o.prefer_hyper_threads \in BOOLEAN
  BY CpuConstants, ProgramsAssumption DEF Bench!LockBenchAssumption
<1>1. A = IF ~Bench!ShouldPinCpus(o) THEN {} ELSE IF o.cpu_list # <<>> THEN Bench!CpuList(o.cpu_list)
          ELSE IF o.num_cpus \notin 1 .. nprocs - 1 THEN Bench!Cpus
          ELSE IF o.prefer_hyper_threads THEN Bench!SiblingGroups(o.num_cpus) ELSE Bench!PhysicalFirst(o.num_cpus)
  <2>1. CASE ~Bench!ShouldPinCpus(o)
    <3>1. o.cpu_list = <<>> /\ ~(o.cpu_list # <<>>)
      BY <2>1 DEF Bench!ShouldPinCpus
    <3> QED
      BY <2>1, <3>1, Zenon DEF Bench!AllowableCset
  <2>2. CASE Bench!ShouldPinCpus(o)
    BY <2>2, Zenon DEF Bench!AllowableCset
  <2> QED
    BY <2>1, <2>2
<1> HIDE DEF A
<1>2. CASE o.cpu_list = <<>> /\ o.num_cpus \in 1 .. nprocs
  <2>1. Bench!ShouldPinCpus(o)
    BY <1>0, <1>2 DEF Bench!ShouldPinCpus
  <2>2. CASE o.prefer_hyper_threads
    <3>1. (A = Bench!SiblingGroups(o.num_cpus) /\ o.num_cpus < nprocs) \/ (A = Bench!Cpus /\ o.num_cpus = nprocs)
      BY <1>0, <1>1, <1>2, <2>1, <2>2
    <3>2. /\ A \subseteq Bench!Cpus /\ Cardinality(A) = o.num_cpus
          /\ Cardinality({k \in Used(A) : ~(k \subseteq A)}) <= 1
      BY <1>2, <2>2, <3>1, SiblingGroupsAsAsked
    <3>3. Bench!AsAsked(o, A)
      BY <2>2, <3>2, SameNumber, Zenon DEF Bench!AsAsked, Used, Cores
    <3> QED
      BY <3>2, <3>3 DEF A
  <2>3. CASE ~o.prefer_hyper_threads
    <3>1. A = Bench!PhysicalFirst(o.num_cpus) \/ (o.num_cpus = nprocs /\ A = Bench!Cpus)
      BY <1>0, <1>1, <1>2, <2>1, <2>3
    <3>2. /\ A \subseteq Bench!Cpus /\ Cardinality(A) = o.num_cpus
          /\ Cardinality(Used(A)) = Bench!Min({o.num_cpus, Cardinality(Cores)})
      BY <1>2, <3>1, PhysicalFirstAsAsked
    <3>3. Bench!AsAsked(o, A)
      BY <2>3, <3>2, SameNumber, Zenon DEF Bench!AsAsked, Used, Cores
    <3> QED
      BY <3>2, <3>3 DEF A
  <2> QED
    BY <2>2, <2>3
<1>3. CASE ~(o.cpu_list = <<>> /\ o.num_cpus \in 1 .. nprocs)
  <2>1. o.cpu_list # <<>> \/ o.num_cpus \notin 1 .. nprocs - 1
    BY <1>0, <1>3
  <2>2. Bench!CpuList(o.cpu_list) \subseteq Bench!Cpus
    BY DEF Bench!CpuList
  <2>3. A \subseteq Bench!Cpus
    BY <1>1, <2>1, <2>2, Zenon
  <2> QED
    BY <1>3, <2>3 DEF A
<1> QED
  BY <1>2, <1>3

\* The cpus left of a round were used once less often than the others.
SpreadEvenly(aff, cpus, left) == \E m \in Int : \A c \in cpus : aff[c] = IF c \in left THEN m ELSE m + 1

\* The cpu that Pin takes, and what it leaves of the counts.
Lowest(round) == CHOOSE c \in round : \A d \in round : c <= d
UsedOnce(aff, cpu) == [aff EXCEPT ![cpu] = @ + 1]

PinInv ==
  /\ options \in CpuOptions
  /\ (options.prefer_hyper_threads => Bench!SiblingsAreCores) =>
     /\ allowable_cset = IF bench_main = "cpus" THEN {} ELSE Bench!AllowableCset(options)
     /\ cur_cset \subseteq allowable_cset /\ DOMAIN affinity = allowable_cset
     /\ SpreadEvenly(affinity, allowable_cset, cur_cset)

LEMMA PinInit == Bench!Init => PinInv
<1> SUFFICES ASSUME Bench!Init PROVE PinInv
  OBVIOUS
<1>1. options \in CpuOptions /\ bench_main = "cpus" /\ allowable_cset = {} /\ cur_cset = {} /\ affinity = [c \in {} |-> 0]
  BY DEF Bench!Init
<1>2. SpreadEvenly(affinity, allowable_cset, cur_cset)
  BY <1>1 DEF SpreadEvenly
<1> QED
  BY <1>1, <1>2 DEF PinInv

\* The lowest cpu of a round is taken from it.
LEMMA PinStep ==
  ASSUME NEW cpus \in SUBSET Bench!Cpus, cpus # {}, NEW left \in SUBSET cpus, NEW round, round = IF left = {} THEN cpus ELSE left,
         NEW cpu, cpu = Lowest(round), NEW aff, DOMAIN aff = cpus, SpreadEvenly(aff, cpus, left)
  PROVE  cpu \in round /\ SpreadEvenly(UsedOnce(aff, cpu), cpus, round \ {cpu})
<1>1. round \subseteq cpus /\ round \subseteq Nat /\ round # {}
  BY CpuConstants
<1>2. \E c \in round : \A d \in round : c <= d
  <2>1. PICK c \in round : \A d \in round : ~(<<d, c>> \in OpToRel(<, Nat))
    BY <1>1, NatLessThanWellFounded, WFMin
  <2>2. \A d \in round : ~(d < c)
    BY <1>1, <2>1 DEF OpToRel
  <2> QED
    BY <1>1, <2>2
<1>3. cpu \in round
  BY <1>2 DEF Lowest
<1>4. PICK m \in Int : \A c \in cpus : aff[c] = IF c \in left THEN m ELSE m + 1
  BY DEF SpreadEvenly
<1>5. PICK n \in Int : n = IF left = {} THEN m + 1 ELSE m
  OBVIOUS
<1>6. \A c \in cpus : aff[c] = IF c \in round THEN n ELSE n + 1
  BY <1>4, <1>5
<1>7. \A c \in cpus : [aff EXCEPT ![cpu] = @ + 1][c] = IF c \in round \ {cpu} THEN n ELSE n + 1
  <2>1. ASSUME NEW c \in cpus PROVE [aff EXCEPT ![cpu] = @ + 1][c] = IF c \in round \ {cpu} THEN n ELSE n + 1
    <3>1. CASE c = cpu
      <4>1. aff[cpu] = n /\ [aff EXCEPT ![cpu] = @ + 1][cpu] = aff[cpu] + 1
        BY <1>1, <1>3, <1>6
      <4> QED
        BY <3>1, <4>1
    <3>2. CASE c # cpu
      <4>1. [aff EXCEPT ![cpu] = @ + 1][c] = aff[c]
        BY <3>2
      <4> QED
        BY <1>6, <3>2, <4>1
    <3> QED
      BY <3>1, <3>2
  <2> QED
    BY <2>1
<1> QED
  BY <1>3, <1>5, <1>7 DEF SpreadEvenly, UsedOnce

LEMMA PinNext == PinInv /\ [Bench!Next]_(Bench!vars) => PinInv'
<1> SUFFICES ASSUME PinInv, [Bench!Next]_(Bench!vars) PROVE PinInv'
  OBVIOUS
<1>1. ASSUME UNCHANGED <<options, allowable_cset, cur_cset, affinity>>, bench_main' = "cpus" <=> bench_main = "cpus" PROVE PinInv'
  BY <1>1 DEF PinInv
<1>2. CASE Bench!SetAllowable
  <2>1. /\ bench_main = "cpus" /\ bench_main' # "cpus" /\ allowable_cset' = Bench!AllowableCset(options)
        /\ affinity' = [c \in allowable_cset' |-> 0] /\ UNCHANGED <<options, cur_cset>>
    BY <1>2 DEF Bench!SetAllowable
  <2>2. ASSUME cur_cset = {} PROVE SpreadEvenly(affinity', allowable_cset', cur_cset')
    <3>1. -1 \in Int /\ -1 + 1 = 0
      OBVIOUS
    <3>2. \A c \in allowable_cset' : affinity'[c] = 0 /\ c \notin cur_cset'
      BY <2>1, <2>2
    <3> QED
      BY <3>1, <3>2 DEF SpreadEvenly
  <2> QED
    BY <2>1, <2>2 DEF PinInv
<1>3. CASE Bench!Create
  <2>1. bench_main = "create" /\ bench_main' \in {"create", "join"} /\ UNCHANGED <<options, allowable_cset>>
    BY <1>3 DEF Bench!Create, Bench!config
  <2>2. CASE allowable_cset = {}
    <3>1. UNCHANGED <<cur_cset, affinity>>
      BY <1>3, <2>2 DEF Bench!Create
    <3> QED
      BY <1>1, <2>1, <3>1
  <2>3. ASSUME allowable_cset # {}, options.prefer_hyper_threads => Bench!SiblingsAreCores
        PROVE  /\ cur_cset' \subseteq allowable_cset /\ DOMAIN affinity' = allowable_cset
               /\ SpreadEvenly(affinity', allowable_cset, cur_cset')
    <3>1. PICK cpus, left, aff : cpus = allowable_cset /\ left = cur_cset /\ aff = affinity
      OBVIOUS
    <3>2. PICK round : round = IF left = {} THEN cpus ELSE left
      OBVIOUS
    <3>3. PICK cpu : cpu = Lowest(round)
      OBVIOUS
    <3>4. cur_cset' = round \ {cpu} /\ affinity' = UsedOnce(aff, cpu)
      BY <1>3, <2>3, <3>1, <3>2, <3>3, Zenon DEF Bench!Create, Bench!Pin, Lowest, UsedOnce
    <3>5. /\ cpus \in SUBSET Bench!Cpus /\ cpus # {} /\ left \in SUBSET cpus /\ DOMAIN aff = cpus
          /\ SpreadEvenly(aff, cpus, left)
      BY <2>1, <2>3, <3>1, AllowableAsAsked DEF PinInv
    <3>6. cpu \in round /\ SpreadEvenly(UsedOnce(aff, cpu), cpus, round \ {cpu})
      BY <3>2, <3>3, <3>5, PinStep, Zenon
    <3>7. round \ {cpu} \subseteq cpus /\ DOMAIN UsedOnce(aff, cpu) = cpus
      BY <3>2, <3>5 DEF UsedOnce
    <3> QED
      BY <3>1, <3>4, <3>6, <3>7, Zenon
  <2> QED
    BY <2>1, <2>2, <2>3 DEF PinInv
<1>4. CASE Bench!Reset \/ Bench!Join \/ Bench!Check
  BY <1>1, <1>4 DEF Bench!Reset, Bench!Join, Bench!Check, Bench!config
<1>5. ASSUME NEW t \in Bench!Workers, Bench!Step(t) PROVE PinInv'
  <2>1. UNCHANGED <<Bench!config, Bench!runner>>
    BY <1>5 DEF Bench!Step, Bench!Arrive, Bench!Ready, Bench!Finish, Bench!Barrier, Bench!InitLocks, Bench!Lock,
         Bench!WorkDone, Bench!CsLoad, Bench!CsStore, Bench!Unlock, Bench!Break, Bench!Destroy
  <2> QED
    BY <1>1, <2>1 DEF Bench!config, Bench!runner
<1>6. CASE UNCHANGED Bench!vars
  BY <1>1, <1>6 DEF Bench!vars, Bench!config, Bench!runner
<1> QED
  BY <1>2, <1>3, <1>4, <1>5, <1>6 DEF Bench!Next, Bench!Main

\* For any number of cpus, threads and trials: the cpus of the benchmark are on
\* the machine and as many as asked for, they cover all the cores they can, or
\* with prefer_hyper_threads fill all their cores but one, and the threads are
\* spread evenly over them (set_allowable_cset and the pinning of I_run).  With
\* prefer_hyper_threads the table of the topology must list the cpus of a core,
\* as that of 8-conf.h does.
THEOREM CpusAsAskedHolds == Programs => []((options.prefer_hyper_threads => Bench!SiblingsAreCores) => CpusAsAsked)
<1>1. ASSUME PinInv, options.prefer_hyper_threads => Bench!SiblingsAreCores PROVE CpusAsAsked
  <2>1. /\ allowable_cset = IF bench_main = "cpus" THEN {} ELSE Bench!AllowableCset(options)
        /\ SpreadEvenly(affinity, allowable_cset, cur_cset) /\ options \in CpuOptions
    BY <1>1 DEF PinInv
  <2>2. Bench!EvenlyPinned
    <3>1. PICK m \in Int : \A c \in allowable_cset : affinity[c] = IF c \in cur_cset THEN m ELSE m + 1
      BY <2>1 DEF SpreadEvenly
    <3>2. \A c \in allowable_cset : affinity[c] \in Int /\ m <= affinity[c] /\ affinity[c] <= m + 1
      BY <3>1
    <3> QED
      BY <3>2 DEF Bench!EvenlyPinned
  <2>3. ASSUME bench_main # "cpus", options.cpu_list = <<>>, options.num_cpus \in 1 .. nprocs
        PROVE  Bench!AsAsked(options, allowable_cset)
    BY <1>1, <2>1, <2>3, AllowableAsAsked, Zenon
  <2> QED
    BY <2>2, <2>3, Zenon DEF CpusAsAsked, Bench!CpusAsAsked
<1>2. PinInv => ((options.prefer_hyper_threads => Bench!SiblingsAreCores) => CpusAsAsked)
  BY <1>1
<1> QED
  BY <1>2, PinInit, PinNext, BenchRuns, PTL
=============================================================================
