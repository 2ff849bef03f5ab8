\* Liveness: two movies take turns, with one failed call and one restart.
CONSTANTS
  Entities <- TwoEntities
  Ops <- TwoRequests
  Released <- Apart
  Scope <- Movies
  MinimumAge = 2
  Horizon = 3
  FinalSearch = TRUE
  CooldownBase = 1
  CooldownFactor = 2
  CooldownCap = 1
  MaxAttempts = 1
  PerRun = 1
  GrabsPerRun = 1
  PerHour = 1
  Hour = 1
  RetryBase = 1
  RetryFactor = 2
  RetryCap = 1
  ReplaceBase = 1
  ReplaceFactor = 2
  ReplaceCap = 1
  Overdue = 1
  MaxFiles = 1
  MaxInvalidations = 0
  MaxFaults = 1
  MaxCrashes = 1
SPECIFICATION Spec
PROPERTIES EveryGrabHandedOver EveryDueSearched
