SPECIFICATION Spec
CONSTANTS
  NoHalf = NoHalf
  Trades = {1, 2}
  KeyOf <- OwnKey
  ExchOf <- AtOnce
  MarketOf <- OneMarket
  Sized = {"sized"}
  KeyTtl = 1
  Window = 1
  MaxPlausible = 3
  Steps <- WallSteps
  MaxTime = 3
INVARIANTS
  TypeOK
  NeverBothWaiting
  LostOnlyToTtl
  NoSampleIsLost
  SnapshotReconciles
  WindowIsFresh
PROPERTIES
  DeltaWindow
  AbsoluteWindow
