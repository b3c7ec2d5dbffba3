SPECIFICATION MCSpec
CONSTANTS
  RequestedCycles <- MCRequestedCycles
  LastCycle = 1000
  Log10 <- MCLog10
  Tables <- MCTables
  FirstTables <- MCFirstTables
  Requests <- MCRequests
  MaxRounds = 2
  MaxInterrupts = 1
INVARIANTS
  SummaryAgrees
  FiguresAgree
  PlacesInOrder
  HeatmapTrue
  FiguresOfThisRun
  FailsOnlyEmpty
CHECK_DEADLOCK FALSE
