SPECIFICATION Spec
CONSTANTS
  first = first  second = second  third = third
  Relays = {first, second, third}
  Aggregates <- AllStrategies
  Conversations = {k1, k2}
  Explicit = {k1, k2}
  Requests = {r1, r2}
  SettingsInUse <- AllSettings
  None = None
  MaxTurns = 2  MaxPicks = 6
SYMMETRY Everybody
CONSTRAINT TurnsBound
ACTION_CONSTRAINT OneStrategy
CHECK_DEADLOCK FALSE
INVARIANTS IInv  FairShares
PROPERTIES FailoverFollowsRequests 
