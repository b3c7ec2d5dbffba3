CONSTANTS
  WordSize = 24
  SetSize = 1
  Trainings <- MCTrainings
SPECIFICATION LatestSpec
INVARIANTS RecentHit
PROPERTIES ImplementsLossyMap
