SPECIFICATION FairSpec
CONSTANTS
  NoHalf = NoHalf
  Trades = {1, 2, 3}
  KeyOf <- SharedKey
  ExchOf <- AtOnce
  MarketOf <- TwoMarkets
  Sized = {"sized"}
  KeyTtl = 1
  Window = 1
  MaxPlausible = 3
  Steps <- SteadyWall
  MaxTime = 2
INVARIANT
  MatchedAtMostOnce
PROPERTY
  EveryMatchIsPublished
