\* An asset and its upgrade, over an overlapping persist, a failed call and a restart.
CONSTANTS
  d1 = d1  d2 = d2  m1 = m1  No = No
  Terminals <- TwoDownloads
  History <- InOrder
  Threads <- TickAndRetry
  PageSize = 1
  MaxOverlaps = 1
  MaxFaults = 1
  MaxCrashes = 1
SPECIFICATION Spec
INVARIANTS PublisherTypeOK RouteFollowsPointer UpgradeReversible
PROPERTIES KeepsSlotPromise ReleasedIsServed DeliveredIsServed
CHECK_DEADLOCK FALSE
