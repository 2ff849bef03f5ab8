\* One release request, whose grab the intake of Arr history meets as well, with
\* all the threads the runtime starts.
CONSTANTS
  r1 = r1  e1 = e1  e2 = e2  p1 = p1  m1 = m1
  h1 = h1  h2 = h2  h3 = h3
  NoHash = NoHash
  Requested <- OneRequest
  External <- OneExternal
  PostPnr <- None
  Historical <- None
  PriorHashes <- None
  LaterHashes <- OneHash
  Sizes <- SmallSizes
  Capacity = 2
  MaxInflight = 2
  MaxHistory = 2
  HealthPolicy = FALSE
  MayQuiesce = FALSE
  Target <- TargetsFirst
  Expected <- AnnouncedSizes
  Actual <- LargerSizes
  UserGrabs <- None
  Observed = TRUE
  ShareLimits = TRUE
  Forgets = TRUE
  Threads <- AllWired
  MaxFaults = 1
  MaxCrashes = 1
SPECIFICATION Spec
INVARIANTS HandedIsOwned SingleOwner
PROPERTIES LedgerSpec
