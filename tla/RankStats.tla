------------------------------ MODULE RankStats ------------------------------
(***************************************************************************)
(* The percentiles of a sample, as the two tools report them: the offline  *)
(* one interpolates between two ranks (race/stats.py latency_stats), the   *)
(* live one takes one rank (scripts/dz_latency_race.py _summarise).  Ranks *)
(* count from 0, as in the code; p is in percent.                          *)
(***************************************************************************)
EXTENDS Integers, SequencesExt

Percents == {10, 50, 90, 95, 99}

AtRank(sorted, rank) == sorted[rank + 1]

\* _index_for
RankOf(p, n) == Min({n - 1, (n * p) \div 100})

\* pct: idx = p / 100 * (n - 1), its whole part and, in hundredths, the rest.
LowRank(p, n)  == (p * (n - 1)) \div 100
HighRank(p, n) == Min({LowRank(p, n) + 1, n - 1})

\* In hundredths of the unit of the sample.
Interpolated(p, sorted) ==
  LET n  == Len(sorted)
      lo == AtRank(sorted, LowRank(p, n))
      hi == AtRank(sorted, HighRank(p, n))
  IN  100 * lo + ((p * (n - 1)) % 100) * (hi - lo)

LatencyStats(deltas) ==
  LET sorted == SortSeq(deltas, <)
  IN  IF deltas = <<>> THEN [n |-> 0]
      ELSE [n      |-> Len(deltas),
            pct    |-> [p \in Percents |-> Interpolated(p, sorted)],
            least  |-> Head(sorted),
            most   |-> Last(sorted),
            wins   |-> Len(SelectSeq(deltas, LAMBDA d : d < 0))]

\* _summarise, of the values it skips none of.
Summary(values) ==
  LET sorted == SortSeq(values, <)
  IN  IF values = <<>> THEN [n |-> 0]
      ELSE [n     |-> Len(values),
            pct   |-> [p \in Percents |-> AtRank(sorted, RankOf(p, Len(values)))],
            least |-> Head(sorted),
            most  |-> Last(sorted)]
=============================================================================
