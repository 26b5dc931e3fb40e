SPECIFICATION FairSpec
CONSTANTS
  None = None
  Segments <- MCSegments
  Channels <- MCChannels
  ForecastDays = 2
  Shards = {"shard"}
  ShardOf <- MCShardOf
  ApartmentsOf <- MCApartmentsOf
  MaxRetries = 1
  MaxFaults = 2
  MaxQueue = 1
  MaxLog = 1
  MaxOverrides = 2
  Overridden <- MCOverridden
INVARIANTS
  TypeOK
PROPERTIES
  EveryNightIsRefreshed
  DueIsServed
  CaughtUpNeverGoesBack
