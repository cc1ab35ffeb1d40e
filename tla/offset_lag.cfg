\* An exact and a misreporting connector, a fault, the forced restart,
\* and a topic with and without a record of an earlier run.
CONSTANTS
  Misreports = {0, 2}
  MaxBatch = 2
  MaxLeftovers = 1
  MaxRecords = 2
  MaxFaults = 1
  MaxSamples = 3
  MaxDisconnects = 1
SPECIFICATION Spec
INVARIANTS
  BooksAgree
  SampleErrorExplained
  GateErrorHasCause
  NothingSkipped
PROPERTY CatchesUp
