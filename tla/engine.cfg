\* Two runs: a failing and a healthy broker, bounded and unbounded runs, a slow shutdown.
CONSTANTS
  MaxRuns = 2
  NumWorkers = 2
  Environments <- MCEnvironments
SPECIFICATION Spec
INVARIANTS
  DoneClosedOnce
  ResultsOfCurrentRun
  NothingLeftProducing
  ExitZeroMeansCompletedRun
  ReportOfOneRun
PROPERTIES
  OverlapNeedsError
  TerminalStateIsFinal
  EveryRunEnds
  ShutdownReturns
  ConsumersReleased
