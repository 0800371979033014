------------------------------- MODULE Driver -------------------------------
(***************************************************************************)
(* driver.c with the parser it uses (util/arg.c) and the choice of the     *)
(* locks by name (util/func-decl-utils.c).  The command line is parsed     *)
(* word by word, checked, and then the locks of lock_list are listed,      *)
(* tested or benchmarked one after the other; the times of a benchmark     *)
(* become statistics, which are printed at the end.                        *)
(*                                                                         *)
(* run() of lock-runner.c is one step; LockBench is about what it does.    *)
(* Names are matched by a table, MatchOf: the regular expressions are the  *)
(* business of regexec().  Integer options keep their width: WIDTH stands  *)
(* for 2^32.                                                               *)
(***************************************************************************)
EXTENDS Stats

CONSTANTS
  Argvs,           \* the command lines: argv[1 ..]
  lock_list,       \* the names of the locks
  MatchOf, Wild,   \* which locks (indices) a word matches as a name; the words with a '*'
  NumberOf,        \* the words strtol() can parse, with their value
  OtherDashed,     \* words that start with a '-' and are no option
  WIDTH,
  Times,           \* the times a thread may take
  CSV_TRIALS,      \* how many trials fit into a csv line
  WITH_DBG_PRINT

DriverAssumption ==
  /\ Argvs \subseteq Seq(STRING)
  /\ lock_list \in Seq(STRING) /\ \A w \in DOMAIN MatchOf : MatchOf[w] \subseteq DOMAIN lock_list
  /\ NumberOf \in [DOMAIN NumberOf -> Int]
  /\ WIDTH \in Nat \ {0, 1} /\ CSV_TRIALS \in Nat
  /\ Times \subseteq Int
  /\ WITH_DBG_PRINT \in BOOLEAN

VARIABLES
  argv, i,     \* the words and the index of the next one
  main,        \* where main() is
  opts,        \* the numbers the options assign
  cpu_list,    \* the text the options assign; "" is the null pointer
  lock_names,  \* the rest of the words
  decl, decl_states,  \* the loop of run_decls() and what it knows of each name
  done,        \* the locks that were listed or run
  missing,     \* the names (indices) of which it is said that they are not found
  times,       \* the times of the locks that were benchmarked
  stats,       \* their statistics: num_trials of them, and those of all trials
  out          \* the lines of statistics

parse == <<argv, i, opts, cpu_list, lock_names>>
search == <<decl, decl_states, done, missing>>
vars == <<parse, main, search, times, stats, out>>

\* The words of the options, with the variable each one assigns; those with a
\* text all assign the list of cpus.
Set ==
  [w \in {"--list", "--bench", "--test", "--csv", "--all", "--sched-stats", "--bench-per-thread-work",
          "--bench-total-work", "--prefer-hyper", "--prefer-hyper-threads", "--pin", "--pin-cpus"} |->
     CASE w = "--list" -> "do_list"
       [] w = "--bench" -> "do_bench"
       [] w = "--test" -> "do_test"
       [] w = "--csv" -> "stats_csv"
       [] w = "--all" -> "run_all"
       [] w = "--sched-stats" -> "with_sched_stats"
       [] w = "--bench-per-thread-work" -> "bench_per_thread_work"
       [] w = "--bench-total-work" -> "bench_total_work"
       [] w \in {"--prefer-hyper", "--prefer-hyper-threads"} -> "prefer_hyper_threads"
       [] w \in {"--pin", "--pin-cpus"} -> "pin_cpus"]

Integer ==
  [w \in {"-v", "--bench-contention", "--contention", "--ncpus", "--num-cpus", "--iter", "--outer-iter", "--cs",
          "--cs-iter", "--extra", "--extra-iter", "-T", "--threads", "-t", "--trials"} |->
     CASE w = "-v" -> "verbosity"
       [] w \in {"--bench-contention", "--contention"} -> "contention"
       [] w \in {"--ncpus", "--num-cpus"} -> "num_cpus"
       [] w \in {"--iter", "--outer-iter"} -> "outer_iter"
       [] w \in {"--cs", "--cs-iter"} -> "cs_iter"
       [] w \in {"--extra", "--extra-iter"} -> "extra_iter"
       [] w \in {"-T", "--threads"} -> "num_threads"
       [] w \in {"-t", "--trials"} -> "num_trials"]

String == {"--cpus", "--cpu-set"}
Help == {"-h", "--help"}

IsSigned(dest) == dest \in {"verbosity", "num_cpus", "num_threads"}
Flags == DOMAIN Set \cup DOMAIN Integer \cup String \cup Help
Dashed == Flags \cup OtherDashed
TakesValue(w) == w \in DOMAIN Integer \cup String

Dests == {Set[w] : w \in DOMAIN Set} \cup {Integer[w] : w \in DOMAIN Integer}

DEFAULT_OUTER_ITER == 1000 * 1000

\* The variables of main() before the parser runs.
Defaults ==
  [d \in Dests |->
     CASE d = "num_cpus" -> -1
       [] d \in {"cs_iter", "num_trials", "num_threads"} -> 1
       [] d = "outer_iter" -> DEFAULT_OUTER_ITER
       [] OTHER -> 0]

Init ==
  /\ argv \in Argvs /\ i = 1
  /\ main = "parse"
  /\ opts = Defaults /\ cpu_list = "" /\ lock_names = <<>>
  /\ decl = 1 /\ decl_states = <<>> /\ done = <<>> /\ missing = {}
  /\ times = <<>> /\ stats = <<>> /\ out = <<>>

-----------------------------------------------------------------------------
\* What a variable of 32 bits keeps of a number; an overflow is only warned about.
Truncated(dest, v) ==
  IF IsSigned(dest) THEN ((v + WIDTH \div 2) % WIDTH) - WIDTH \div 2 ELSE v % WIDTH

AtOption == main = "parse" /\ i <= Len(argv) /\ argv[i] \in Dashed

ParseSet ==
  /\ AtOption /\ argv[i] \in DOMAIN Set
  /\ opts' = [opts EXCEPT ![Set[argv[i]]] = 1]
  /\ i' = i + 1
  /\ UNCHANGED <<argv, main, cpu_list, lock_names, search, times, stats, out>>

\* Mutant: a number that cannot be parsed is taken for a lock.
ParseNumbersOnly ==
  /\ AtOption /\ i < Len(argv) /\ argv[i] \in DOMAIN Integer
  /\ LET dest == Integer[argv[i]]
         parsed == argv[i + 1] \in DOMAIN NumberOf
     IN  /\ opts' = IF parsed THEN [opts EXCEPT ![dest] = Truncated(dest, NumberOf[argv[i + 1]])] ELSE opts
         /\ i' = IF parsed THEN i + 2 ELSE i + 1
  /\ UNCHANGED <<argv, main, cpu_list, lock_names, search, times, stats, out>>

\* The next word is the value, whatever it looks like; one that cannot be
\* parsed is warned about and leaves the variable as it is.
ParseInteger ==
  /\ AtOption /\ i < Len(argv) /\ argv[i] \in DOMAIN Integer
  /\ LET dest == Integer[argv[i]]
     IN  opts' = IF argv[i + 1] \in DOMAIN NumberOf
                 THEN [opts EXCEPT ![dest] = Truncated(dest, NumberOf[argv[i + 1]])] ELSE opts
  /\ i' = i + 2
  /\ UNCHANGED <<argv, main, cpu_list, lock_names, search, times, stats, out>>

ParseString ==
  /\ AtOption /\ i < Len(argv) /\ argv[i] \in String
  /\ cpu_list' = argv[i + 1]
  /\ i' = i + 2
  /\ UNCHANGED <<argv, main, opts, lock_names, search, times, stats, out>>

\* Help, an unknown option or an option without its value: usage() and exit.
ParseExits ==
  /\ AtOption
  /\ argv[i] \in Help \/ argv[i] \notin Flags \/ (TakesValue(argv[i]) /\ i = Len(argv))
  /\ main' = "usage"
  /\ UNCHANGED <<parse, search, times, stats, out>>

\* The first word that is no option ends them; no program has positional
\* arguments, so the words from there on are the names.
ParseRest ==
  /\ main = "parse" /\ ~AtOption
  /\ lock_names' = SubSeq(argv, i, Len(argv))
  /\ main' = "validate"
  /\ UNCHANGED <<argv, i, opts, cpu_list, search, times, stats, out>>

-----------------------------------------------------------------------------
IsPowerOf2(n) == \E k \in 0 .. WIDTH : n = 2 ^ k

Valid ==
  /\ opts.do_bench + opts.do_test + opts.do_list = 1
  /\ opts.num_threads > 0 /\ opts.num_trials > 0 /\ opts.outer_iter > 0
  /\ opts.bench_total_work # 0
  /\ opts.bench_per_thread_work + opts.bench_total_work = 1
  /\ opts.bench_per_thread_work = 0 \/ opts.contention = 0
  /\ opts.contention = 0 \/ IsPowerOf2(opts.contention)

Listing == opts.do_list = 1 \/ (opts.run_all = 0 /\ lock_names = <<>>)
Benching == opts.do_bench = 1 /\ ~Listing

\* decls_to_run is NULL with --all and without names.
Filtered == opts.run_all = 0 /\ lock_names # <<>>

Validate ==
  /\ main = "validate"
  /\ main' = IF Valid THEN "run" ELSE "died"
  /\ decl_states' = [n \in DOMAIN lock_names |-> {}]
  /\ UNCHANGED <<parse, decl, done, missing, times, stats, out>>

\* What run_decls() knows of a name behind this lock.
MatchesOf(w) == IF w \in DOMAIN MatchOf THEN MatchOf[w] ELSE {}
Matches(n) == decl \in MatchesOf(lock_names[n])
Exhausted(n) == {"ran", "did_one"} \subseteq decl_states[n]
Seen(n) ==
  IF Exhausted(n) THEN decl_states[n]
  ELSE decl_states[n]
         \cup (IF "re_built" \in decl_states[n] THEN {}
               ELSE {"re_built"} \cup (IF lock_names[n] \in Wild THEN {} ELSE {"did_one"}))
         \cup (IF Matches(n) THEN {"ran"} ELSE {})

\* Mutant: a name that matched before is not looked at again.
OnlyFirstHit == \E n \in DOMAIN lock_names : "ran" \notin decl_states[n] /\ Matches(n)

Hit == \E n \in DOMAIN lock_names : ~Exhausted(n) /\ Matches(n)

\* The assertion reads the state of the name from before it was built.
DbgAssertFails ==
  WITH_DBG_PRINT /\ \E n \in DOMAIN lock_names : ~Exhausted(n) /\ Matches(n) /\ decl_states[n] = {}

\* The times of a run are those of trial after trial, thread after thread.
Trial(k, ts) == SubSeq(ts, (k - 1) * opts.num_threads + 1, k * opts.num_threads)
ResultOf(ts) ==
  [desc |-> lock_list[decl],
   stats |-> Append([k \in 1 .. opts.num_trials |-> gen_stats(Trial(k, ts))], gen_stats(ts))]

\* run_lock_test(); a lock that loses counts ends the program.
Bench ==
  \E ts \in [1 .. opts.num_trials * opts.num_threads -> Times] :
    /\ times' = Append(times, ts)
    /\ stats' = Append(stats, ResultOf(ts))

RunDecl ==
  /\ main = "run" /\ decl <= Len(lock_list)
  /\ decl_states' = IF Filtered THEN [n \in DOMAIN lock_names |-> Seen(n)] ELSE decl_states
  /\ decl' = decl + 1
  /\ IF Filtered /\ DbgAssertFails THEN main' = "died" /\ UNCHANGED <<done, times, stats>>
     ELSE IF Filtered /\ ~Hit THEN UNCHANGED <<main, done, times, stats>>
     ELSE /\ main' = main
          /\ done' = Append(done, decl)
          /\ IF Benching THEN Bench ELSE UNCHANGED <<times, stats>>
  /\ UNCHANGED <<parse, missing, out>>

RunFails ==
  /\ main = "run" /\ decl <= Len(lock_list) /\ ~Listing
  /\ Filtered => Hit
  /\ main' = "died"
  /\ UNCHANGED <<parse, search, times, stats, out>>

\* "Unable To Find"
Report ==
  /\ main = "run" /\ decl > Len(lock_list)
  /\ missing' = {n \in DOMAIN lock_names : Filtered /\ "ran" \notin decl_states[n]}
  /\ main' = IF Benching THEN "print" ELSE "done"
  /\ UNCHANGED <<parse, decl, decl_states, done, times, stats, out>>

\* Mutant: the line begins with the statistics of the first lock.
PrintFirst(k) == [desc |-> stats[k].desc, stats |-> stats[1].stats]

\* A line of text has the statistics of the last trial alone, a line of csv those
\* of each trial and of all of them.
Line(k) ==
  [desc |-> stats[k].desc,
   stats |-> IF opts.stats_csv = 1 THEN stats[k].stats ELSE <<stats[k].stats[opts.num_trials]>>]

PrintStats ==
  /\ main = "print"
  /\ IF opts.stats_csv = 1 /\ opts.num_trials > CSV_TRIALS
     THEN main' = "died" /\ UNCHANGED out
     ELSE main' = "done" /\ out' = [k \in DOMAIN stats |-> Line(k)]
  /\ UNCHANGED <<parse, search, times, stats>>

Next ==
  \/ ParseSet \/ ParseInteger \/ ParseString \/ ParseExits \/ ParseRest
  \/ Validate \/ RunDecl \/ RunFails \/ Report \/ PrintStats

Spec == Init /\ [][Next]_vars

-----------------------------------------------------------------------------
\* The first n words are options and their values, said without running the
\* parser; whatever the words are, n determines which of them are values.
OptionWords(words, n, values) ==
  /\ \A p \in 1 .. n : p \in values <=> p > 1 /\ p - 1 \notin values /\ TakesValue(words[p - 1])
  /\ \A p \in (1 .. n) \ values : words[p] \in Dashed
  /\ n = 0 \/ n \in values \/ ~TakesValue(words[n])

\* The values given for a number that can be parsed, and for the list of cpus.
Numbers(words, dest, values) ==
  {p \in values : words[p - 1] \in DOMAIN Integer /\ Integer[words[p - 1]] = dest /\ words[p] \in DOMAIN NumberOf}
CpuLists(words, values) == {p \in values : words[p - 1] \in String}

\* What they make of a variable: the last one counts.
Number(words, dest, values) ==
  LET numbers == Numbers(words, dest, values)
  IN  IF numbers = {} THEN Defaults[dest] ELSE Truncated(dest, NumberOf[words[Max(numbers)]])
Text(words, values) ==
  LET lists == CpuLists(words, values) IN IF lists = {} THEN "" ELSE words[Max(lists)]
IsGiven(words, dest, n, values) ==
  \E p \in (1 .. n) \ values : words[p] \in DOMAIN Set /\ Set[words[p]] = dest

\* After parsing, a number is the last one given for its option that can be
\* parsed, or the default; a flag is set exactly if it was given; the names are
\* the words from the first one that is neither option nor value.
ParsedAsWritten ==
  main \notin {"parse", "usage"} =>
    \E n \in 0 .. Len(argv) : \E values \in SUBSET (1 .. n) :
      /\ OptionWords(argv, n, values)
      /\ n < Len(argv) => argv[n + 1] \notin Dashed
      /\ \A w \in DOMAIN Integer : opts[Integer[w]] = Number(argv, Integer[w], values)
      /\ \A w \in DOMAIN Set : opts[Set[w]] = 1 <=> IsGiven(argv, Set[w], n, values)
      /\ cpu_list = Text(argv, values)
      /\ lock_names = SubSeq(argv, n + 1, Len(argv))

\* Every lock that one of the names asks for is listed or run once, in the order
\* of the list, and no other; a name without '*' asks for the first lock it
\* matches.  A name is reported missing exactly if it asks for no lock.
Asked(d) ==
  \/ ~Filtered
  \/ \E w \in ToSet(lock_names) : d \in MatchesOf(w) /\ (w \in Wild \/ \A e \in MatchesOf(w) : d <= e)

RunsWhatWasAsked ==
  main \in {"run", "print", "done"} =>
    /\ \A m, n \in DOMAIN done : m < n => done[m] < done[n]
    /\ ToSet(done) = {d \in 1 .. decl - 1 : Asked(d)}
    /\ main \in {"print", "done"} =>
         /\ decl > Len(lock_list)
         /\ missing = {n \in DOMAIN lock_names : Filtered /\ MatchesOf(lock_names[n]) = {}}

\* The statistics of a benchmark are those of its trials, thread after thread,
\* and the last ones those of all its times.
StatsAgree ==
  \A k \in DOMAIN stats :
    LET s == stats[k].stats IN
    /\ \A n \in 1 .. opts.num_trials : Agree(s[n], Trial(n, times[k]))
    /\ Agree(s[opts.num_trials + 1], times[k])

\* A benchmark that ends prints one line for each lock it ran, with the name of
\* that lock.  A line of csv has the figures of each of its trials, in order, and
\* last those of all its times; a line of text has those of all its times when
\* there is one trial.
EachResultPrinted ==
  main = "done" /\ Benching =>
    /\ Len(out) = Len(done)
    /\ \A k \in DOMAIN out :
         /\ out[k].desc = lock_list[done[k]]
         /\ opts.stats_csv = 1 => \A n \in 1 .. opts.num_trials : Agree(out[k].stats[n], Trial(n, times[k]))
         /\ opts.stats_csv = 1 \/ opts.num_trials = 1 => Agree(Last(out[k].stats), times[k])

\* The lines of text are printed under "Stats for lock benchmarks with
\* (Trials = %u, Threads = %u)": the figures are those of that many trials.  The
\* code refutes this when there is more than one.
HeadingIsTrue == main = "done" /\ Benching => \A k \in DOMAIN out : Agree(Last(out[k].stats), times[k])

\* The assertion of should_run_decl(): decl_states[i] != decl_do_nothing.
AssertionHolds == main = "run" /\ decl <= Len(lock_list) => ~(Filtered /\ DbgAssertFails)
=============================================================================
