\* Two runs over two names, two faults.
CONSTANTS
  NameSpace = 2
  Leniencies <- MCLeniencies
  MaxCycles = 3
  MaxRuns = 2
  MaxFaults = 2
SPECIFICATION Spec
INVARIANTS
  FailuresHaveCauses
  LeftoversExplained
PROPERTY StopReturns
