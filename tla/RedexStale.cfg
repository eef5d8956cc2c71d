SPECIFICATION Spec
CONSTANTS
  Worker = {1, 2}
  Nets <- StaleNets
  Shown = {}
  Racing = {}
  HeapCap = 30
INVARIANTS
  MeaningKept
