\* One worker of each kind, every gate on both sides of its threshold.
CONSTANTS
  Snapshots <- MCSnapshots
  Memory <- MCMemory
  Durations <- MCDurations
  Rate = 100
  Thresholds <- MCThresholds
SPECIFICATION Spec
INVARIANTS
  ReportMatchesExitCode
  EarlyReportTrimsOnly
