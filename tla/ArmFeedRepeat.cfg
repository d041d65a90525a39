SPECIFICATION FeedSpec
CONSTANTS
  A = A
  B = B
  NoArm = NoArm
  Channels = {A, B}
  Keys = {1, 2, 3, 4}
  Forced = NoArm
  MinPairs = 2
  PairTtl = 2
  Silence = 1
  Keep = 3
  SweepAt = 256
  MaxBatch = 1
  MaxGap = 2
  MaxTime = 1
  MaxFrames = 4
  Trades = 4
  MaxLost = 0
  KeyOf <- RepeatKey
  Leaders = {A}
INVARIANT
  LeadingArmIsSelected
CHECK_DEADLOCK FALSE
