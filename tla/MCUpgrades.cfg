\* Safety: one movie, two requests, and every kind of failure once.
CONSTANTS
  Entities <- OneEntity
  Ops <- TwoRequests
  Released <- Alone
  Scope <- OneMovie
  MinimumAge = 2
  Horizon = 6
  FinalSearch = TRUE
  CooldownBase = 1
  CooldownFactor = 2
  CooldownCap = 2
  MaxAttempts = 3
  PerRun = 1
  GrabsPerRun = 1
  PerHour = 2
  Hour = 2
  RetryBase = 1
  RetryFactor = 2
  RetryCap = 1
  ReplaceBase = 1
  ReplaceFactor = 2
  ReplaceCap = 1
  Overdue = 0
  MaxFiles = 2
  MaxInvalidations = 1
  MaxFaults = 1
  MaxCrashes = 1
SPECIFICATION Spec
INVARIANTS UpgradesTypeOK GrabbedOnce OneRequestPerEntity SearchesBounded
