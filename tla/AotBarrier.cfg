SPECIFICATION Spec
CONSTANTS
  Worker = {w0, w1, w2}
  MaxGen = 1
INVARIANTS
  Counted
PROPERTIES
  Implements
  Released
