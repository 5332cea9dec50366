\* A message with an empty value that does not fit in the batch.
CONSTANTS
  Msgs = {1, 2, 3}
  NoMsg = NoMsg
  Size <- MCSize
  EmptyValued = {1}
  BatchSize = 3
  BatchBytes = 3
  QueueCapacity = 2
  Retries = 0
  Replies = {"ok", "network"}
SPECIFICATION Spec
INVARIANT ExitDrained
CHECK_DEADLOCK FALSE
