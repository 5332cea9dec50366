\* Lists of one to four partitions that grow and shrink; a counter and a hash
\* of eight values, which three and the hash of a key do not divide; ints that
\* are as narrow as the hash.
CONSTANTS
  Kinds = {"RoundRobin", "LeastBytes", "Hash"}
  Keys = {1, 2, 3, 4}
  NoKey = NoKey
  Sizes = {0, 1, 3}
  Largest = 3
  Lengths = {1, 2, 3, 4}
  Modulus = 8
  Wide = FALSE
  Digest <- MCDigest
  MaxCalls = 10
SPECIFICATION Spec
INVARIANTS Routable LeastBytesEven RoundRobinEven
PROPERTY SameKeySamePartition
CHECK_DEADLOCK FALSE
