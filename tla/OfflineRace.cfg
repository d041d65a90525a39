SPECIFICATION OfflineSpec
CONSTANTS
  A = A
  B = B
  BTC = BTC
  ETH = ETH
  NoArm = NoArm
  Garbage = Garbage
  Channels = {A, B}
  Keys <- Labels
  Forced = NoArm
  MinPairs = 2
  PairTtl = 2
  Silence = 2
  Keep = 2
  SweepAt = 256
  MaxBatch = 3
  MaxGap = 1
  MaxTime = 3
  MaxFrames = 4
  Prints = {1, 2, 3, 4, 5}
  MarketOf <- TwoMarkets
  PrintOf <- TwoPrices
  MsOf <- TwoStamps
  Stamped = {1, 2, 3, 4}
  OnPublic = {1, 2, 3, 5}
  Usable = {BTC}
  IdMaps <- BothMaps
  Shapes <- FrameShapes
  Window = 1
  MaxCells = 12
  MaxDzCells = 9
  MaxCuts = 1
  MaxGarbage = 2
INVARIANTS
  OfflineTypeOK
  WholeLogReadsBack
  MatchIsSound
  WrongPairIsExplained
CHECK_DEADLOCK FALSE
