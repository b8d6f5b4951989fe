\* Six names, one bucket at first, expansion from two entries in a bucket.
CONSTANTS
  Users = {1, 2, 3, 4, 5, 6}
  Sockets <- MCSockets
  Hash <- Hashes
  InitialBuckets = 1
  Threshold = 2
  MaxBuckets = 4
  Null = Null
  NoSocket = NoSocket
SPECIFICATION Spec
INVARIANTS TypeOK Sound ChainsBounded
PROPERTIES MapSpec
