\* Two records per transaction in place of four, two partitions.
CONSTANTS
  Producers = {"commit", "abort"}
  Partitions = {k1, k2}
  TxnRecords = 2
  ReorderWindow = 1
  MaxSeq = 4
  EarlierTxns <- EarlierStates
  Leftovers <- LeftRecords
  MaxLeftovers = 1
  MaxTxns = 3
  MaxFaults = 2
  MaxDeliveries = 6
SPECIFICATION Spec
SYMMETRY PartitionSymmetry
INVARIANTS
  ViolationMeansLeak
  SentIsCommitted
  TrackedOnce
  SentIsTracked
  LossExplained
