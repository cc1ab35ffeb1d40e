\* One producer, long sequences: a slide may jump over part of the sequence space.
CONSTANTS
  Producers = {p1}
  ReorderWindow = 2
  MaxSeq = 9
  MaxDeliveries = 6
SPECIFICATION TrackerSpec
INVARIANTS
  LossSound
  LossComplete
  ExactWithinWindow
PROPERTIES
  DuplicateJustified
  LedgerSpec
