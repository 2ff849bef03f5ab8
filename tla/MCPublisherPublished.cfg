\* A download that the Fence offers and whose import Arr reports, and nothing goes wrong.
CONSTANTS
  d1 = d1  d2 = d2  m1 = m1  No = No
  Terminals <- OneDownload
  History <- Ambiguous
  Threads <- AllThreads
  PageSize = 2
  MaxOverlaps = 0
  MaxFaults = 0
  MaxCrashes = 0
SPECIFICATION Spec
PROPERTY PublishedIsLeftAlone
CHECK_DEADLOCK FALSE
