SPECIFICATION Spec
CONSTANTS
  Threads = 2
  Programs <- MCPrograms
  SeedRounds = 3
  GrabMax = 2
  FlushAt = 2
  QueueCap = 12
  Evaluation <- MCEvaluation
INVARIANTS
  OneHolder
  FireReady
  RoundsAgree
  Answered
PROPERTIES
  Ends
