SPECIFICATION FeedSpec
CONSTANTS
  A = A
  B = B
  NoArm = NoArm
  Channels = {A, B}
  Keys = {1, 2, 3, 4}
  Forced = NoArm
  MinPairs = 2
  PairTtl = 2
  Silence = 1
  Keep = 3
  SweepAt = 256
  MaxBatch = 1
  MaxGap = 2
  MaxTime = 1
  MaxFrames = 3
  Trades = 3
  MaxLost = 4
  KeyOf <- OwnKey
  Leaders = {NoArm}
INVARIANT
  SettledTradePassesOnce
CHECK_DEADLOCK FALSE
