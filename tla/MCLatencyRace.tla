---------------------------- MODULE MCLatencyRace ----------------------------
(* Small instances of LatencyRace: two trades of one market under keys of    *)
(* their own, and two that share a key next to one of an unsized market.     *)
EXTENDS LatencyRace

OwnKey     == [i \in Trades |-> i]
SharedKey  == [i \in Trades |-> IF i = 2 THEN 1 ELSE i]
AtOnce     == [i \in Trades |-> 1]
OneMarket  == [i \in Trades |-> "sized"]
WallSteps  == {0, -2}
SteadyWall == {0}
TwoMarkets == [i \in Trades |-> IF i = 3 THEN "unsized" ELSE "sized"]
=============================================================================
