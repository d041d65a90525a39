---------------------------- MODULE MCOfflineRace ----------------------------
(* A small instance of OfflineRace: two equal prints of one market and one   *)
(* of another, one that is equal to the arbiter and of another millisecond,  *)
(* one of another price and without a stamp; arms that agree on the          *)
(* instrument ids or swap them.                                              *)
EXTENDS OfflineRace

CONSTANTS A, B, BTC, ETH

TwoMarkets == <<BTC, BTC, ETH, BTC, BTC>>
TwoPrices  == <<1, 1, 1, 1, 2>>
TwoStamps  == <<1, 1, 1, 2, 1>>

Agree    == [c \in Channels |-> (BTC :> 1) @@ (ETH :> 2)]
Disagree == (A :> (BTC :> 1 @@ ETH :> 2)) @@ (B :> (BTC :> 2 @@ ETH :> 1))
BothMaps == {Agree, Disagree}

Def(m)   == [kind |-> "def", market |-> m]
Trade(i) == [kind |-> "trade", of |-> i]

FrameShapes == {<<Def(ETH)>>, <<Def(BTC), Trade(1), Trade(4)>>, <<Trade(2), Trade(3), Trade(5)>>}

Labels == {BTC, ETH, 1, 2} \X {1, 2}

\* The two tools report the same extremes of a sample, and of each percentile the
\* live one reports a neighbour of the point the offline one interpolates.
ASSUME RanksAreNeighbours ==
  \A n \in 1..200, p \in Percents : RankOf(p, n) \in {LowRank(p, n), HighRank(p, n)}

ASSUME SummariesAgree ==
  \A sample \in BoundedSeq(-1..2, 5) \ {<<>>} :
    LET live == Summary(sample)  offline == LatencyStats(sample)
    IN  /\ live.n = offline.n /\ live.least = offline.least /\ live.most = offline.most
        /\ \A p \in Percents :
             LET below == {v \in ToSet(sample) : 100 * v <= offline.pct[p]}
                 above == {v \in ToSet(sample) : 100 * v >= offline.pct[p]}
             IN  live.pct[p] \in {Max(below), Min(above)}

\* run_race --selfcheck: fifty trades that are 3 ms apart on the two feeds.
ASSUME SelfcheckPasses == LatencyStats([i \in 1..50 |-> 3]).pct[50] = 300
=============================================================================
