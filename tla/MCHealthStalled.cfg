\* One candidate, nothing fails, two samples are asked for.
CONSTANTS
  Candidates <- One
  Size = 1
  MetadataTimeout = 1
  ProgressTimeout = 1
  MinFailures = 2
  MaxTroubles = 0
SPECIFICATION Spec
PROPERTY StalledIsGivenUp
