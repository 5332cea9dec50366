\* One program goroutine in FetchMessage, one calling SetOffset, one calling
\* Close again and again; every kind of failure.
CONSTANTS
  Fetchers = {1}
  Closers = {1}
  SeekTargets <- MCAbsolute
  MaxStarts = 2
  MaxOffset = 2
  ReportAttempt = 1
  QueueCapacity = 1
  AutoOffsetReset <- MCFirst
  FetchVersions = {2, 5}
  Faults = {"unknown", "kafka", "network"}
SPECIFICATION FairSpec
INVARIANTS TaggedInOrder OneReader ChannelClosedLast
PROPERTIES ResetHonoured SetOffsetHonoured CancelledExits CallsReturn
CHECK_DEADLOCK FALSE
