\* A client stops a running run: who is there to drain?
CONSTANTS
  MaxRuns = 1
  NumWorkers = 2
  Environments <- HealthyOnly
SPECIFICATION Spec
INVARIANT DrainHasConsumers
