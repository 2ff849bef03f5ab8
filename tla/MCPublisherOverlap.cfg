\* An asset and its upgrade, over one overlapping persist and nothing else that goes wrong.
CONSTANTS
  d1 = d1  d2 = d2  m1 = m1  No = No
  Terminals <- TwoDownloads
  History <- InOrder
  Threads <- TickAndRetry
  PageSize = 1
  MaxOverlaps = 1
  MaxFaults = 0
  MaxCrashes = 0
SPECIFICATION Spec
INVARIANT OneUnderWay
CHECK_DEADLOCK FALSE
