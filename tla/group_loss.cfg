\* Two members, two churns around the warmup and the final reconciliation.
CONSTANTS
  NumConsumers = 2
  MaxLoss = 3
  MaxChurns = 2
SPECIFICATION Spec
INVARIANTS
  NoSilentLoss
  
  GroupLossIsMeasured
  MetricNeverOvercounts
