\* A user grab, and a stop while the Fence is quiescing.
CONSTANTS
  r1 = r1  e1 = e1  e2 = e2  p1 = p1  m1 = m1
  h1 = h1  h2 = h2  h3 = h3
  NoHash = NoHash
  Requested <- None
  External <- OneExternal
  PostPnr <- None
  Historical <- None
  PriorHashes <- None
  LaterHashes <- OneHash
  Sizes <- SmallSizes
  Capacity = 1
  MaxInflight = 1
  MaxHistory = 2
  HealthPolicy = FALSE
  MayQuiesce = TRUE
  Target <- TargetsFirst
  Expected <- AnnouncedSizes
  Actual <- SameSizes
  UserGrabs <- OneHash
  Observed = TRUE
  ShareLimits = FALSE
  Forgets = FALSE
  Threads <- TickAndContract
  MaxFaults = 1
  MaxCrashes = 1
SPECIFICATION FairSpec
PROPERTY StartCompletes
