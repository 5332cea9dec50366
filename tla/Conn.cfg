\* Three operations on one connection, two with a deadline; every response, and
\* a connection that may be closed or reset at any time.
CONSTANTS
  Ops = {1, 2, 3}
  None = None
  Mixes <- MCMixes
  Timed = {1, 2}
  Replies <- MCReplies
  Failures = TRUE
SPECIFICATION FairSpec
INVARIANTS NoOrphanResponse ReadsOwnResponse
PROPERTIES OperationsReturn
CHECK_DEADLOCK FALSE
