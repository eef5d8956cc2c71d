SPECIFICATION Spec
CONSTANTS
  MaxVar = 16
  LogCap = 24
  MaxDepth = 6
  OrderVars = 16
  NormCap = 20
  CpBatch = 20
  Problems <- MCProblems
  NoGoal <- MCNoGoal
  MinConst <- MCMinConst
INVARIANTS
  SameTheory
  RulesDescend
  Interreduced
  Saturated
  VerdictRight
CHECK_DEADLOCK FALSE
