SPECIFICATION Spec
CONSTANTS
  Worker = {1, 2, 3}
  Nets <- AllNets
  Shown <- Settled
  Racing <- RacingNets
  HeapCap = 30
INVARIANTS
  MeaningKept
  NormalForm
  IndexFinds
  FreshComplete
