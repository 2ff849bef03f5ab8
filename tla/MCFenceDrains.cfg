\* Two user grabs that have to take turns, one of the torrents larger than announced:
\* each is released in the end, and the watermark passes what is owned.
CONSTANTS
  r1 = r1  e1 = e1  e2 = e2  p1 = p1  m1 = m1
  h1 = h1  h2 = h2  h3 = h3
  NoHash = NoHash
  Requested <- None
  External <- TwoExternals
  PostPnr <- None
  Historical <- None
  PriorHashes <- None
  LaterHashes <- TwoHashes
  Sizes <- SmallSizes
  Capacity = 3
  MaxInflight = 1
  MaxHistory = 2
  HealthPolicy = FALSE
  MayQuiesce = FALSE
  Target <- TargetsFirst
  Expected <- AnnouncedSizes
  Actual <- LargerSizes
  UserGrabs <- TwoHashes
  Observed = TRUE
  ShareLimits = FALSE
  Forgets = FALSE
  Threads <- TickAndPublisher
  MaxFaults = 1
  MaxCrashes = 1
SPECIFICATION FairSpec
INVARIANTS FenceTypeOK
PROPERTIES NoGrabSkipped EveryGrabReleased
