\* Two candidates and one failed call, restart or closing.
CONSTANTS
  Candidates <- Two
  Size = 1
  MetadataTimeout = 1
  ProgressTimeout = 1
  MinFailures = 1
  MaxTroubles = 1
SPECIFICATION Spec
INVARIANTS HealthTypeOK GivenUpInOrder
PROPERTIES OnlyStalledInvalidated DeadIsGivenUp GivenUpIsReplaced
