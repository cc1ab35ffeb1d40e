\* One producer, as in every shipped configuration, two partitions, records left by an earlier run.
CONSTANTS
  Producers = {p0}
  Partitions = {k1, k2}
  ReorderWindow = 1
  ProduceFailures = TRUE
  Leftovers <- LeftRecords
  MaxLeftovers = 2
  MaxSeq = 4
  MaxClients = 2
  MaxRewinds = 1
  MaxDrops = 1
  MaxDeliveries = 5
SPECIFICATION Spec
SYMMETRY PartitionSymmetry
INVARIANTS
  QuiescentLossExplained
  WarmupAbsorbsLeftovers
  OrderViolationMeansRedelivery
PROPERTY TrackerSpec
