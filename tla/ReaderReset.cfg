\* AutoOffsetReset = LastOffset, and a partition whose first offset is deleted.
CONSTANTS
  Fetchers = {1}
  Closers = {}
  SeekTargets <- MCAbsolute
  MaxStarts = 2
  MaxOffset = 3
  ReportAttempt = 1
  QueueCapacity = 1
  AutoOffsetReset <- MCLast
  FetchVersions = {2}
  Faults = {"network"}
SPECIFICATION Spec
PROPERTIES ResetHonoured
CHECK_DEADLOCK FALSE
