\* Five partitions, both versions of fetch, responses of no, one or two batches.
CONSTANTS
  Logs <- MCLogs
  Versions = {2, 5}
  Rooms = {0, 1, 2}
  Deadlines = {FALSE, TRUE}
  APIs = {"Read", "ReadMessage"}
  Seeks <- MCSeeks
  MaxSeeks = 1
  MaxResets = 1
SPECIFICATION FairSpec
PROPERTIES InSequence CloseConsumes Progress
CHECK_DEADLOCK FALSE
