\* SetOffset while FetchMessage runs.
CONSTANTS
  Fetchers = {1}
  Closers = {}
  SeekTargets <- MCAbsolute
  MaxStarts = 3
  MaxOffset = 3
  ReportAttempt = 1
  QueueCapacity = 1
  AutoOffsetReset <- MCFirst
  FetchVersions = {2}
  Faults = {}
SPECIFICATION Spec
PROPERTIES SetOffsetAlwaysHonoured
CHECK_DEADLOCK FALSE
