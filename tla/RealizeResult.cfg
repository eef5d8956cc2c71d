SPECIFICATION CaptureSpec
CONSTANTS
  Programs <- ResultPrograms
  RingCap = 3
  ClaimCap = 4
  ClaimWays = 2
  ParkCap = 2
  CaptureCap = 2
INVARIANTS
  ResultsKept
