SPECIFICATION RunSpec
CONSTANTS
  Houses = {h1, h2}
  LastBatch = 2
  Runs = {r1, r2, r3}
  NoBatch = NoBatch
SYMMETRY Symmetry
CHECK_DEADLOCK FALSE
INVARIANTS
  RunTypeOK
  DividedOnce
  BatchesAreSound
PROPERTIES
  ClosedStaysClosed
  PublishedIsFrozen
