----------------------------- MODULE MCPrograms -----------------------------
(***************************************************************************)
(* Two threads of the interposed mutex, a benchmark and command lines of   *)
(* the driver.  The topology is that of util/topology cut down to four     *)
(* cpus: c and c + half the cpus are siblings, and the lower one stands    *)
(* for the core.                                                           *)
(***************************************************************************)
EXTENDS Programs, Sequences, TLC

CONSTANTS t1, t2

TwoThreads == {t1, t2}

HalfIsPhysical == [c \in 0 .. 3 |-> c % 2]
Pairs == [c \in 0 .. 3 |-> {c % 2, (c % 2) + 2}]

\* The table of 96-conf.h: it lists bytes where cpu_set_t has 64-bit words.
BytesAsWords == [c \in 0 .. 3 |-> {c % 2, (c % 2) + 8}]

Ask(list, num_cpus, pin_cpus, prefer_hyper_threads) ==
  [cpu_list |-> list, num_cpus |-> num_cpus, pin_cpus |-> pin_cpus, prefer_hyper_threads |-> prefer_hyper_threads]

SomeOptions ==
  {Ask(<<>>, -1, FALSE, FALSE), Ask(<<3, 0, 7>>, -1, FALSE, FALSE), Ask(<<>>, 9, TRUE, TRUE),
   Ask(<<>>, 3, FALSE, FALSE), Ask(<<>>, 2, FALSE, FALSE), Ask(<<>>, 3, FALSE, TRUE), Ask(<<>>, 1, TRUE, TRUE)}

BothBenches == {0, 1}
TotalWork == {0}

Locks == <<"pthread_mutex", "pthread_spinlock", "spinlock", "clh_autolock">>
Patterns == "spin*" :> {3} @@ "pthread*" :> {1, 2} @@ "spinlock" :> {3} @@ "pthread_.*k" :> {2} @@ "pthread_m?utex" :> {1}
  @@ "p.hread_.+" :> {1, 2} @@ "*lock" :> {2, 3, 4}
Wildcards == {"spin*", "pthread*", "pthread_.*k", "*lock"}
Numbers == "0" :> 0 @@ "2" :> 2 @@ "3x" :> 3 @@ "-1" :> -1 @@ "8" :> 8
DashedWords == {"-1", "--listbenchs"}
TrialTimes == {1, 3}

Upto(n, S) == UNION {[1 .. k -> S] : k \in 0 .. n}

\* Whatever is written behind a command line that would do.
Total == <<"--bench-total-work">>
Endings == Upto(3, {"--bench", "--all", "-T", "2", "-1", "spin*", "p.hread_.+"})
SomeArgvs ==
  {Total \o <<"--test">> \o e : e \in Endings}
  \cup {Total \o <<"--list">> \o e : e \in Upto(2, {"--all", "spin*", "*lock", "clh", "p.hread_.+", "-h"})}
  \cup {Total \o <<"--bench", o, "2", p, q>> \o e : o \in {"-t", "--contention"}, p \in {"-T", "-t"}, q \in {"2", "8", "x"},
          e \in {<<"spinlock">>, <<"clh", "p.hread_.+">>, <<"--csv", "pthread*">>, <<"--csv", "-t", "3x", "spinlock">>}}
  \cup {<<"--bench", "--cpus">>, <<"--bench", "--bench-per-thread-work", "--all">>, <<"--listbenchs">>,
        Total \o <<"--test", "--cpus", "--all", "clh">>}

\* The commands of the README.
Documented == {<<"--test", "--all">>, <<"--bench", "--all">>, <<"--test", "spin*">>}

-----------------------------------------------------------------------------
\* The commands the README gives: "./user-bin/driver --test --all",
\* "./user-bin/driver --bench --all" and "./driver --test spin*".
DocumentedCommandsRun == argv \in Documented => driver_main \notin {"usage", "died"}
=============================================================================
