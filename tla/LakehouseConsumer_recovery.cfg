\* Two decisions and a deletion, a shard and its children, a kill, a
\* compaction, merges of up to two records.
SPECIFICATION FairSpec
CONSTANTS
  d1 = d1
  d2 = d2
  removal = removal
  Decisions <- TwoDecisions
  Removals <- OneRemoval
  MaxShards = 3
  BatchLimit = 2
  MaxCrashes = 1
  MaxCompactions = 1
INVARIANTS
  TypeOK
  SettledIsLogged
  ParentsFirst
PROPERTIES
  ImplementsAuditLog
  EveryDecisionIsLogged
