SPECIFICATION FairSpec
CONSTANTS
  Invocations <- MCInvocations
  Measures <- MCMeasures
  Committed <- MCCommitted
  MaxRuns = 2
  MaxBroken = 1
  MaxKills = 1
INVARIANTS
  ResultOfTask
  FailureExplained
  TablesTrue
  BuildsApart
PROPERTIES
  MeasuredOnce
  OnlyTwinsMix
  EveryRunEnds
CHECK_DEADLOCK FALSE
