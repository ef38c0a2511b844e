SPECIFICATION RunSpec
CONSTANTS
  Houses = {h1, h2}
  LastBatch = 2
  Runs = {r1, r2}
  NoBatch = NoBatch
CHECK_DEADLOCK FALSE
INVARIANT
  FailedRunCanBeRepeated
