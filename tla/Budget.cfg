CONSTANTS
  Limit = 2
  WeekLength = 3
  UnlimitedUntil = 2
  MaxTurns = 1
  MaxTokens = 1
  MaxResponses = 2
  MaxTime = 3
  MaxLag = 2
  MaxTroubles = 2
SPECIFICATION FairSpec
CHECK_DEADLOCK FALSE
INVARIANTS ChargedOnce NoneUncharged
PROPERTIES MissingIsNoticed OverspendingStops
