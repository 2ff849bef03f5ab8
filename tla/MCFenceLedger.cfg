\* Every kind of operation, video health and quiescence together, over a torrent
\* that is grabbed on both sides of the baseline.
CONSTANTS
  r1 = r1  e1 = e1  p1 = p1  m1 = m1
  h1 = h1  h3 = h3
  NoHash = NoHash
  Requested <- OneRequest
  External <- OneExternal
  PostPnr <- OnePostPnr
  Historical <- OneHistorical
  PriorHashes <- BothPriorHashes
  LaterHashes <- OneHash
  Sizes <- SmallSizes
  Capacity = 3
  MaxInflight = 2
  MaxHistory = 0
  HealthPolicy = TRUE
  MayQuiesce = TRUE
SPECIFICATION LedgerSpec
INVARIANTS LedgerTypeOK InflightBounded RequestedWithinCapacity SnapshotLoads
CHECK_DEADLOCK FALSE
