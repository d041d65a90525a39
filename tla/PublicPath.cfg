SPECIFICATION PathFairSpec
CONSTANTS
  Prices = {1, 2, 3}
  PerUnit = 10
  MaxSize = 2
  BaseBackoff = 1
  MaxBackoff = 3
  MaxFailures = 3
  MaxChanges = 3
INVARIANTS
  PathTypeOK
  BackoffDoubles
  ViewFollowsTheTop
  BookIsTheVenues
PROPERTIES
  ComesBack
CHECK_DEADLOCK FALSE
