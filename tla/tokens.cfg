CONSTANTS
  MinToken <- Lowest
  MaxToken = 3
  Hosts = {h1, h2}
  RingSize = 4
  SplitsPerNode = {1, 2}
  TokenRangeSize = {0, 2}
SPECIFICATION Spec
INVARIANTS
  DiscreteRangesCover
  CppRangesCover
  PartitionsCover
  PartitionsLocal
  HostOwnsToken
