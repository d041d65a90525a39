SPECIFICATION PathSpec
CONSTANTS
  Prices = {1, 2}
  PerUnit = 10
  MaxSize = 2
  BaseBackoff = 1
  MaxBackoff = 3
  MaxFailures = 3
  MaxChanges = 2
INVARIANT TopIsTheVenues
CHECK_DEADLOCK FALSE
