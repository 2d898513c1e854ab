SPECIFICATION IngestSpec
CONSTANTS
  Captures <- MCCaptures
  Malformed <- MCMalformed
  Untexted <- MCUntexted
  Drivers = {1, 2}
  Unknown = 99
  MaxRev = 2
  MaxRuns = 2
  MaxDeferred = 3
INVARIANTS RadioOnce NoClipLost
PROPERTIES OrderFollowsFeed
CHECK_DEADLOCK FALSE
