SPECIFICATION Spec
CONSTANTS
  Owner = w0
  Thief = {w1, w2}
  Cap = 2
  MaxPush = 4
  SbMax = 3
INVARIANTS
  DequeHoldsLive
  StealSound
PROPERTIES
  Linearizable
SYMMETRY Symm
