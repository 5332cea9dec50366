\* One partition with two messages; the group, a broker or the network disrupted twice.
CONSTANTS
  Partitions = {0}
  MaxOffset = 2
  QueueCapacity = 1
  Retries = 2
  Configs <- MCConfigs
  MaxDisruptions = 2
SPECIFICATION FairSpec
INVARIANTS NothingSkipped NilMeansCommitted NothingForgotten ConnOutlivesGroup OwnedReads
PROPERTIES RebalanceJoined Rejoins CallsReturn
CHECK_DEADLOCK FALSE
