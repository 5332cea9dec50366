\* Up to three members with one topic or both, and fewer, as many and more
\* partitions than members.
CONSTANTS
  Members = {1, 2, 3}
  Topics <- MCTopics
  Listings <- MCListings
SPECIFICATION GroupSpec
INVARIANTS EachOnce Balanced
PROPERTY Stable
