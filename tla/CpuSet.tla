------------------------------- MODULE CpuSet -------------------------------
(***************************************************************************)
(* set_allowable_cset() of lock-runner.c: from the cpu options of the      *)
(* driver to the cpus its threads are pinned to.  The topology is a table  *)
(* generated for the machine (util/topology).                              *)
(***************************************************************************)
EXTENDS Integers, FiniteSets, SequencesExt

CONSTANTS
  nprocs,     \* get_num_cpus()
  PhysCpuId,  \* get_phys_cpu_id(), a function of the cpu
  CpuIds      \* get_logical_cpu_ids(), the cpu and its siblings

TopologyAssumption ==
  /\ nprocs \in Nat \ {0}
  /\ PhysCpuId \in [0 .. nprocs - 1 -> 0 .. nprocs - 1]
  /\ \A c \in 0 .. nprocs - 1 : PhysCpuId[PhysCpuId[c]] = PhysCpuId[c]
  /\ CpuIds \in [0 .. nprocs - 1 -> SUBSET Nat]
  /\ \A c \in 0 .. nprocs - 1 : IsFiniteSet(CpuIds[c]) /\ CpuIds[c] # {}

Cpus == 0 .. nprocs - 1

\* The n lowest cpus of a set: those that a loop over all of them meets first.
First(n, cset) == {c \in cset : Cardinality({d \in cset : d < c}) < n}

\* The siblings of a cpu are those with the same physical cpu.  This is so in
\* 8-conf.h and not in 96-conf.h, whose table lists bytes for words.
Core(c) == {d \in Cpus : PhysCpuId[d] = PhysCpuId[c]}
SiblingsAreCores == \A c \in Cpus : CpuIds[c] = Core(c)

\* The numbers at the head of the list, whatever separates them; others are
\* warned about.
CpuList(cpu_list) == ToSet(cpu_list) \cap Cpus

\* In the first round the cpus that stand for their core, in the second the rest.
PhysicalFirst(num_cpus) ==
  LET phys == {c \in Cpus : PhysCpuId[c] = c}
  IN  First(num_cpus, phys) \cup First(num_cpus - Cardinality(phys), Cpus \ phys)

\* Whole groups of siblings while they fit; the next one is the last.  Left out: the
\* assertions that no cpu of a group is taken yet, which hold when the table is right.
AddGroup(groups, c) ==
  IF groups.last # {} \/ c \in groups.cset THEN groups
  ELSE IF Cardinality(CpuIds[c]) >= groups.left THEN [groups EXCEPT !.last = CpuIds[c]]
  ELSE [groups EXCEPT !.cset = @ \cup CpuIds[c], !.left = @ - Cardinality(CpuIds[c])]

Groups(num_cpus) ==
  LET groups[i \in 0 .. nprocs] ==
        IF i = 0 THEN [cset |-> {}, left |-> num_cpus, last |-> {}] ELSE AddGroup(groups[i - 1], i - 1)
  IN  groups[nprocs]

\* Mutant: the last group is taken whole.
SurplusKept(num_cpus) == Groups(num_cpus).cset \cup Groups(num_cpus).last

\* Of the last group the highest cpus.
SiblingGroups(num_cpus) ==
  LET groups == Groups(num_cpus)
      surplus == First(Cardinality(groups.last) - groups.left, groups.last \cap Cpus)
  IN  groups.cset \cup (groups.last \ surplus)

\* The options: cpu_list is <<>> without a list.
ShouldPinCpus(o) == o.cpu_list # <<>> \/ o.num_cpus > 0 \/ o.pin_cpus

AllowableCset(o) ==
  CASE ~ShouldPinCpus(o) -> {}
    [] o.cpu_list # <<>> -> CpuList(o.cpu_list)
    [] o.cpu_list = <<>> /\ ShouldPinCpus(o) /\ o.num_cpus \notin 1 .. nprocs - 1 -> Cpus
    [] OTHER -> IF o.prefer_hyper_threads THEN SiblingGroups(o.num_cpus) ELSE PhysicalFirst(o.num_cpus)
=============================================================================
