\* Two concurrent calls, a Close and a rebalance, synchronous or not; each
\* partition may come and go, and there may be none.
CONSTANTS
  Callers = {1, 2}
  Closers = {1}
  Msgs = {"a", "b", "c", "big"}
  Payload <- MCPayloadBig
  Oversized = {"big"}
  Cancellable = {1}
  AsyncModes = {FALSE, TRUE}
  MaxAttempts = 2
  QueueCapacity = 1
  Depth = 2
  Topologies = {{}, {0}, {1}}
  MaxRebalances = 1
SPECIFICATION FairSpec
INVARIANTS ResponsesAccounted NilMeansWritten NoSendOnClosedChannel CloseFlushes
PROPERTY CallsReturn
CHECK_DEADLOCK FALSE
