\* A produce request is answered with an error code; both operations have a deadline.
CONSTANTS
  Ops = {1, 2}
  None = None
  Mixes <- MCProduceMix
  Timed = {1, 2}
  Replies <- MCErrorReplies
  Failures = FALSE
SPECIFICATION FairSpec
PROPERTY DeadlinesHonoured
CHECK_DEADLOCK FALSE
