SPECIFICATION Spec
CONSTANTS
  Models <- MCModels
  Byte = 4
  Units <- MCUnits
  Wikis <- MCWikis
  Start <- MCStart
  Buffers <- MCBuffers
  MaxRuns = 2
  MaxFaults = 1
INVARIANT GeneratorDoesNotPanic
CHECK_DEADLOCK FALSE
