\* One partition, every answer of the broker; messages of one and two bytes.
CONSTANTS
  Msgs = {1, 2, 3, 4}
  NoMsg = NoMsg
  Size <- MCSize
  EmptyValued = {}
  BatchSize = 2
  BatchBytes = 3
  QueueCapacity = 2
  Retries = 1
  Replies = {"ok", "duplicate", "kafka", "network", "other"}
SPECIFICATION FairSpec
INVARIANTS InOrder BatchWithinLimits TimerCoversBatch AckedIsWritten ExitDrained
PROPERTIES ImplementsSink ImplementsFairness
CHECK_DEADLOCK FALSE
