SPECIFICATION DuelSpec
CONSTANTS
  Prints = {1, 2, 3}
  KeyOf <- OwnKeys
  MarketOf <- OneMarket
  SideOf <- BuyThenSell
  PriceOf <- At2
  Large = {1, 2, 3}
  Stamped = {1, 2}
  DzQuotes <- DzBoth
  PubQuotes <- PubMoves
  OrderSize = 1
  MaxPosition = 1
  Cooldown = 2
  MaxBooks = 1
  Reaction = 1
  Markout = 1
  Window = 1
  DuelTtl = 1
  MaxStall = 1
  Heard <- DzAll
  MaxQuotes <- DzTwice
  MaxRead = 3
  MaxTime = 6
INVARIANTS
  DuelTypeOK
  BoardsAddUp
  PositionIsBacked
  BothDecisionsMeet
  HeadlineIsOfPairs
  OverdueIsBounded
PROPERTIES
  NothingJudgedTooEarly
CHECK_DEADLOCK FALSE
