----------------------------- MODULE Benchmarks -----------------------------
(***************************************************************************)
(* The comparison of two sets of benchmark runs (compareBenchmarks).  The  *)
(* medians and the median deviations are taken of numbers, in the code of  *)
(* floats whose rounding is left out here: a median is kept as twice its   *)
(* value and a deviation as four times, so that all of them are integers.  *)
(***************************************************************************)
EXTENDS Integers, SequencesExt

CONSTANTS Metrics,        \* the measures of a run
          LowerIsBetter,  \* those of which less is better
          RunSets         \* sets of runs that may be compared: sequences of
                          \* functions from Metrics to positive numbers

ASSUME MetricsAssumption == LowerIsBetter \subseteq Metrics

VARIABLES runsBefore, runsAfter

benchmarkVars == <<runsBefore, runsAfter>>

\* validateBenchmarkSet: 3 to 100 runs.
Valid(runs) == /\ Len(runs) \in 3..100
               /\ \A i \in DOMAIN runs, m \in Metrics : runs[i][m] > 0

ASSUME RunSetsAssumption == /\ RunSets # {}
                            /\ \A runs \in RunSets : runs \in Seq([Metrics -> Nat]) /\ Valid(runs)

BenchmarksInit == runsBefore \in RunSets /\ runsAfter \in RunSets

Column(runs, m) == [i \in DOMAIN runs |-> runs[i][m]]

Abs(n) == IF n < 0 THEN -n ELSE n

\* The values in ascending order: the k-th is the one with k values up to it.
Ordered(values) ==
  LET upTo(i) == {j \in DOMAIN values : \/ values[j] < values[i]
                                        \/ values[j] = values[i] /\ j <= i}
  IN [k \in DOMAIN values |->
        values[CHOOSE i \in DOMAIN values : Cardinality(upTo(i)) = k]]

Middle(ordered) ==
  LET middle == Len(ordered) \div 2
  IN IF Len(ordered) % 2 = 0 THEN ordered[middle] + ordered[middle + 1]
     ELSE 2 * ordered[middle + 1]

UnsortedMedian2(values) == Middle(values)

\* Twice the median.
Median2(values) == Middle(Ordered(values))

\* Four times the median of the distances from the median.
Deviation4(values) ==
  LET center == Median2(values)
  IN Median2([i \in DOMAIN values |-> Abs(2 * values[i] - center)])

\* More than 2 percent, and more than twice the deviation of either set in
\* percent of its median.
Meaningful(old, new) ==
  LET a == Median2(old)
      b == Median2(new)
      delta == Abs(b - a)
  IN /\ 100 * delta > 2 * a
     /\ delta > Deviation4(old)
     /\ delta * b > Deviation4(new) * a

Better(old, new, m) ==
  IF m \in LowerIsBetter THEN Median2(new) < Median2(old) ELSE Median2(new) > Median2(old)

Verdict(old, new) ==
  LET meaningful == {m \in Metrics : Meaningful(Column(old, m), Column(new, m))}
      positive   == {m \in meaningful : Better(Column(old, m), Column(new, m), m)}
      negative   == meaningful \ positive
  IN CASE positive # {} /\ negative = {} -> "improved"
       [] negative # {} /\ positive = {} -> "regressed"
       [] positive # {} /\ negative # {} -> "mixed"
       [] OTHER -> "within variance"

-----------------------------------------------------------------------------

\* The runs in another order.
Reordered(runs) ==
  {[i \in DOMAIN runs |-> runs[p[i]]] : p \in Bijection(DOMAIN runs, DOMAIN runs)}

Agree(runs, m, v) == 2 * Cardinality({i \in DOMAIN runs : runs[i][m] = v}) > Len(runs)

\* The verdict is about what most runs say: it is the same for every order of
\* the runs before and of the runs after, and as long as more than half of
\* the runs before and after agree on every metric, the outliers make no
\* verdict.
VerdictRobust ==
  /\ \A old \in Reordered(runsBefore) : Verdict(old, runsAfter) = Verdict(runsBefore, runsAfter)
  /\ \A new \in Reordered(runsAfter) : Verdict(runsBefore, new) = Verdict(runsBefore, runsAfter)
  /\ (\A m \in Metrics : \E i \in DOMAIN runsBefore :
        LET v == runsBefore[i][m] IN Agree(runsBefore, m, v) /\ Agree(runsAfter, m, v))
     => Verdict(runsBefore, runsAfter) = "within variance"

=============================================================================
