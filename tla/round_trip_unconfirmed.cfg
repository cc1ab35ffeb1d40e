\* A broker that drops one record.
CONSTANTS
  Producers = {p0}
  Partitions = {k1, k2}
  ReorderWindow = 1
  ProduceFailures = FALSE
  Leftovers = {}
  MaxLeftovers = 0
  MaxSeq = 4
  MaxClients = 2
  MaxRewinds = 0
  MaxDrops = 1
  MaxDeliveries = 9
SPECIFICATION Spec
INVARIANTS
  FinalLossIsCurrent
