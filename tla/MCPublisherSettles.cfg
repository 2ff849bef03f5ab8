\* A download and two imports that nobody asked for, the same release twice.
CONSTANTS
  d1 = d1  d2 = d2  m1 = m1  No = No
  Terminals <- OneDownload
  History <- Ambiguous
  Threads <- AllThreads
  PageSize = 2
  MaxOverlaps = 0
  MaxFaults = 0
  MaxCrashes = 1
SPECIFICATION Spec
PROPERTIES EveryTerminalDelivered EveryImportAccounted
CHECK_DEADLOCK FALSE
