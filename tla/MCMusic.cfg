\* One album, two releases of one torrent, two failed calls or restarts, final searches only.
CONSTANTS
  Albums <- OneAlbum
  Releases <- TwoReleases
  Album <- OfOneAlbum
  Hash <- Torrents
  HashListed <- AllButFirst
  Size = 2
  MinimumAge = 2
  Horizon = 2
  FinalSearch = TRUE
  MaxAttempts = 1
  Cooldown = 1
  MaxCandidates = 2
  PerRun = 1
  GrabsPerRun = 1
  PerHour = 1
  MetadataProbe = 1
  NoProgress = 1
  DeletePayload = TRUE
  MaxTroubles = 2
SPECIFICATION Spec
INVARIANTS MusicTypeOK AcknowledgedIsRejected OneTransferPerAlbum
PROPERTIES RejectedNotTriedAgain EveryInvalidationSettled ImportConverges
