SPECIFICATION ArmSpec
CONSTANTS
  A = A
  B = B
  k1 = k1
  k2 = k2
  NoArm = NoArm
  Channels = {A, B}
  Keys = {k1, k2}
  Forced = NoArm
  MinPairs = 2
  PairTtl = 1
  Silence = 2
  Keep = 3
  SweepAt = 2
  MaxBatch = 2
  MaxGap = 3
  MaxTime = 4
  MaxFrames = 3
SYMMETRY ArmSymmetry
INVARIANTS
  ArmTypeOK
  OutcomesAreRaces
  SelectionIsEarned
  CountersAddUp
PROPERTIES
  SightingWaitsForItsTwin
  WarmUpDropsNothing
  DropNeedsLiveRival
CHECK_DEADLOCK FALSE
