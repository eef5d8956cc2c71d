SPECIFICATION Spec
CONSTANTS
  MaxN = 3
  Calls = 4
  Setups <- PoolSetups
INVARIANTS
  AliveCoversWork
  QuietBetweenDrains
  DrainComplete
  NormalForm
PROPERTIES
  NfReturns
  AllJoined
