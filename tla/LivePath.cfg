SPECIFICATION LiveSpec
CONSTANTS
  NoSnapshot = NoSnapshot
  Nothing = Nothing
  Flush = 1
  Fresh = 4
  Refresh = 2
  Poll = 2
  MaxFlight = 2
  OldAge = 8
INVARIANTS
  LiveTypeOK
  LiveWasRecent
PROPERTY
  PageFollowsTheCollector
