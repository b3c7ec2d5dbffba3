\* One bit of history, 2-bit counters.
SPECIFICATION SettlingSpec
CONSTANTS
  WordSize = 20
  SetSize = 1
  Trainings <- MCTrainings
  GhrSize = 2
  BhtSize = 4
  CounterSize = 4
  DYNAMIC_PREDICTION = TRUE
  GHR_ON = TRUE
  HistoryXor <- MCXor
  HistoryBits = 1
INVARIANTS
  Settled
