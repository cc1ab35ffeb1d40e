CONSTANTS
  Producers = {p1}
  ReorderWindow = 2
  MaxSeq = 9
  MaxDeliveries = 6
SPECIFICATION TrackerSpec
INVARIANT PendingIsTrueLoss
