CONSTANTS
  none = none
  two = two
  Missing = Missing
  Torn = Torn
  Empty = none
  MaxShards = 2
  MaxOps = 5
  Snapshots <- MCSnapshots
  ShardCount <- MCShardCount
SPECIFICATION MCSpec
INVARIANTS
  TypeOK
  RecoversDurable
  NeverLoadsMixture
  MemoryIsDurable
PROPERTIES
  ImplementsAtomicStore
CHECK_DEADLOCK FALSE
