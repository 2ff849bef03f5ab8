\* Adoption, activation, quiescence and reopening by messages, while the intake
\* adopts a user grab: of one torrent, which a user may grab after it was adopted
\* as a historical one.  Then the runtime does not start again.
CONSTANTS
  r1 = r1  e1 = e1  e2 = e2  p1 = p1  m1 = m1
  h1 = h1  h2 = h2  h3 = h3
  NoHash = NoHash
  Requested <- None
  External <- OneExternal
  PostPnr <- OnePostPnr
  Historical <- OneHistorical
  PriorHashes <- OneHash
  LaterHashes <- OneHash
  Sizes <- SmallSizes
  Capacity = 2
  MaxInflight = 1
  MaxHistory = 2
  HealthPolicy = FALSE
  MayQuiesce = TRUE
  Target <- TargetsFirst
  Expected <- AnnouncedSizes
  Actual <- SameSizes
  UserGrabs <- OneHash
  Observed = TRUE
  ShareLimits = FALSE
  Forgets = FALSE
  Threads <- TickAndContract
  MaxFaults = 1
  MaxCrashes = 1
SPECIFICATION Spec
INVARIANTS EffectHasIntent
PROPERTIES LedgerSpec
CHECK_DEADLOCK FALSE
