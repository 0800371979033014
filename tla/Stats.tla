-------------------------------- MODULE Stats --------------------------------
(***************************************************************************)
(* lib/stats/stats.c: what gen_stats() computes of an array of times.      *)
(* Doubles are integers here, multiplied by what they would be divided by; *)
(* the figures that need roots or logarithms are left out.                 *)
(***************************************************************************)
EXTENDS Integers, SequencesExt

Percentiles == {0, 1, 5, 10, 25, 33, 50, 66, 75, 90, 95, 99, 100}

\* generic_sort(): each time goes to the place that the number of smaller ones
\* gives it; among equal ones any order is the same.
Sorted(times) ==
  LET UpTo(i) == {j \in DOMAIN times : times[j] < times[i] \/ (times[j] = times[i] /\ j <= i)}
  IN  [place \in DOMAIN times |-> times[CHOOSE i \in DOMAIN times : Cardinality(UpTo(i)) = place]]

\* The loop over the array that adds its elements.
Added(data, nelem) ==
  LET sum[k \in 0 .. nelem] == IF k = 0 THEN 0 ELSE sum[k - 1] + data[k]
  IN  sum[nelem]

\* Element i of a C array.
At(data, i) == data[i + 1]

\* Twice the median.
calc_median(data) ==
  LET nelem == Len(data) IN
  IF nelem % 2 = 1 THEN 2 * At(data, nelem \div 2)
  ELSE At(data, nelem \div 2) + At(data, (nelem \div 2) - 1)

\* nelem times the mean.
calc_mean(data) == Added(data, Len(data))

\* nelem^2 times the squared sum.
calc_squared_sum(data) ==
  LET mean == calc_mean(data)
      tmp(x) == Len(data) * x - mean
  IN  Added([i \in DOMAIN data |-> tmp(data[i]) * tmp(data[i])], Len(data))

\* Mutant: the index is a share of the number of elements, not of the gaps.
PercentileOfElements(data, percentile) ==
  LET dbl_idx == percentile * Len(data)
      idx == IF dbl_idx \div 100 < Len(data) THEN dbl_idx \div 100 ELSE Len(data) - 1
  IN  100 * At(data, idx)

\* A hundred times the percentile, between the elements next to its index.  The
\* code has the index as a double, which may come out just below an integer; the
\* figure between its neighbours is then the same but for a rounding error.
calc_percentile(data, percentile) ==
  LET dbl_idx == percentile * (Len(data) - 1)
      idx == dbl_idx \div 100
      remainder == dbl_idx % 100
  IN  IF remainder = 0 \/ idx + 1 >= Len(data) THEN 100 * At(data, idx)
      ELSE (100 - remainder) * At(data, idx) + remainder * At(data, idx + 1)

\* I_gen_stats() and calc_stats(); no element is a warning and leaves zeros.
gen_stats(times) ==
  LET data == Sorted(times) IN
  IF times = <<>> THEN [has_stats |-> 1, nelem |-> 0]
  ELSE [has_stats   |-> 1,
        nelem       |-> Len(times),
        min         |-> At(data, 0),
        max         |-> At(data, Len(data) - 1),
        median      |-> calc_median(data),
        mean        |-> calc_mean(data),
        squared_sum |-> IF Len(data) <= 1 THEN 0 ELSE calc_squared_sum(data),
        percentiles |-> [p \in Percentiles |-> calc_percentile(data, p)]]

-----------------------------------------------------------------------------
\* The figures of some times agree with each other and with their definitions,
\* in whichever order the threads were joined.
Agree(stats, times) ==
  LET all == ToSet(times)
      Below(x) == Cardinality({i \in DOMAIN times : times[i] * 100 < x})
      Above(x) == Cardinality({i \in DOMAIN times : times[i] * 100 > x})
      gaps == Len(times) - 1
  IN  /\ stats.nelem = Len(times)
      /\ stats.min \in all /\ stats.max \in all
      /\ \A x \in all : stats.min <= x /\ x <= stats.max
      /\ stats.percentiles[50] = 50 * stats.median
      /\ stats.percentiles[0] = 100 * stats.min /\ stats.percentiles[100] = 100 * stats.max
      /\ Len(times) * stats.min <= stats.mean /\ stats.mean <= Len(times) * stats.max
      /\ stats.squared_sum = 0 <=> stats.min = stats.max \/ Len(times) = 1
      /\ \A p \in Percentiles :
           /\ 100 * Below(stats.percentiles[p]) <= p * gaps + 100
           /\ 100 * Above(stats.percentiles[p]) <= (100 - p) * gaps + 100
           /\ \A q \in Percentiles : p <= q => stats.percentiles[p] <= stats.percentiles[q]
=============================================================================
