------------------------------ MODULE Programs ------------------------------
(***************************************************************************)
(* The programs of user-dev side by side: kind chooses at Init between the *)
(* interposed mutex, the lock benchmark and the driver, and the variables  *)
(* of the others stay as they are.                                         *)
(***************************************************************************)
EXTENDS Interpose, Integers

CONSTANTS
  Kinds,
  num_threads, num_trials, outer_iter, cs_iter, contention_mask, CpuOptions, Benches, MAX_STATE,
  nprocs, PhysCpuId, CpuIds,
  Argvs, lock_list, MatchOf, Wild, NumberOf, OtherDashed, WIDTH, Times, CSV_TRIALS, WITH_DBG_PRINT

VARIABLES
  kind,
  bench_type, options, bench_main, trial, bench_j, allowable_cset, cur_cset, affinity, lock, global_state, arrived,
  bench_pc, is_unique, iter, work, reg,
  argv, driver_i, driver_main, opts, cpu_list, lock_names, decl, decl_states, done, missing, times, stats, out

Bench == INSTANCE LockBench WITH main <- bench_main, j <- bench_j, pc <- bench_pc
Bin == INSTANCE Driver WITH main <- driver_main, i <- driver_i

ASSUME ProgramsAssumption ==
  /\ Kinds \subseteq {"interpose", "bench", "driver"}
  /\ Bench!LockBenchAssumption /\ Bin!DriverAssumption

benchVars == <<bench_type, options, bench_main, trial, bench_j, allowable_cset, cur_cset, affinity, lock, global_state, arrived,
               bench_pc, is_unique, iter, work, reg>>
driverVars == <<argv, driver_i, driver_main, opts, cpu_list, lock_names, decl, decl_states, done, missing, times, stats, out>>
programs == <<kind, vars, benchVars, driverVars>>

\* The benchmark and the driver start in any of their initial states, and in a
\* fixed one when they are not the chosen program.
ProgramsInit ==
  /\ kind \in Kinds
  /\ Init
  /\ Bench!Init /\ (kind # "bench" => options = CHOOSE o \in CpuOptions : TRUE) /\ (kind # "bench" => bench_type = 0)
  /\ Bin!Init /\ (kind # "driver" => argv = CHOOSE a \in Argvs : TRUE)

OnlyInterpose == kind = "interpose" /\ UNCHANGED <<kind, benchVars, driverVars>>
OnlyBench == kind = "bench" /\ UNCHANGED <<kind, vars, driverVars>>
OnlyDriver == kind = "driver" /\ UNCHANGED <<kind, vars, benchVars>>

ProgramsNext ==
  \/ OnlyInterpose /\ Next
  \/ OnlyBench /\ Bench!Next
  \/ OnlyDriver /\ Bin!Next

\* The destructor and each thread of the benchmark, main() included, go on.
Programs ==
  /\ ProgramsInit /\ [][ProgramsNext]_programs
  /\ WF_programs(OnlyInterpose /\ Destructor)
  /\ WF_programs(OnlyBench /\ Bench!Main)
  /\ \A t \in Bench!Workers : WF_programs(OnlyBench /\ Bench!Step(t))

-----------------------------------------------------------------------------
\* "Bad count": at the end of each trial the counter has the expected value,
\* whichever thread did the work and however the trials before ended.
CountIsExpected == Bench!CountIsExpected

\* A thread of the benchmark uses the lock between its initialisation and its
\* destruction by the unique threads of two barriers.
LockReadyWhenUsed == Bench!LockReadyWhenUsed

\* The cpus of the benchmark are as many as asked for, on as many or as few
\* cores as asked for, and its threads are spread evenly over them.
CpusAsAsked == kind = "bench" => Bench!CpusAsAsked

\* "When all the work is done the benchmark is done."
BenchEnds == kind = "bench" => Bench!BenchEnds

\* The walk of the destructor over the records ends although threads go on.
WalkEnds == kind = "interpose" => DestructorEnds

\* A number is the last one given for its option, and the names begin at the
\* first word that is neither option nor value.
ParsedAsWritten == Bin!ParsedAsWritten

\* The driver runs each lock it is asked for once, in the order of the list,
\* and reports the names that ask for none.
RunsWhatWasAsked == Bin!RunsWhatWasAsked

\* The statistics are those of the times of each trial.
StatsAgree == Bin!StatsAgree

\* The driver prints the statistics of each lock it ran under its name: of all
\* trials, but for a text of more than one trial.
EachResultPrinted == Bin!EachResultPrinted

\* The figures under "Trials = %u" are those of that many trials; the code refutes it.
HeadingIsTrue == Bin!HeadingIsTrue

\* The assertion of should_run_decl(): decl_states[i] != decl_do_nothing.
AssertionHolds == Bin!AssertionHolds
=============================================================================
