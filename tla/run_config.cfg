\* Two runs of one process, each on any overlay of up to two fields.
CONSTANTS
  Good <- MCGood
  Default = "default"
  Files <- MCFiles
  Overrides <- MCOverrides
  Bodies <- MCBodies
  MaxStarts = 2
SPECIFICATION ConfigSpec
INVARIANTS
  RunsAsStated
  OmittedFallsThrough
CHECK_DEADLOCK FALSE
