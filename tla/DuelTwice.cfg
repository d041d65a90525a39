SPECIFICATION DuelSpec
CONSTANTS
  Prints = {1, 2}
  KeyOf <- OneKey
  MarketOf <- OneMarket
  SideOf <- AllBuys
  PriceOf <- At2
  Large = {1, 2}
  Stamped = {1, 2}
  DzQuotes <- DzOnce
  PubQuotes <- PubMoves
  OrderSize = 1
  MaxPosition = 2
  Cooldown = 0
  MaxBooks = 9
  Reaction = 1
  Markout = 1
  Window = 2
  DuelTtl = 1
  MaxStall = 1
  Heard <- All
  MaxQuotes <- Once
  MaxRead = 5
  MaxTime = 5
INVARIANTS
  HeadlineIsOfPairs
CHECK_DEADLOCK FALSE
