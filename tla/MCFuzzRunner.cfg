SPECIFICATION FairFuzzSpec
CONSTANTS
  MaxRuns = 2
  FUZZ_LOOPS <- MCLoops
  FUZZ_JOBS <- MCJobs
  MaxCases = 3
  Batch = 3
INVARIANTS
  JobsBounded
  FailureReported
PROPERTIES
  ZeroMeansPass
  RunEnds
CHECK_DEADLOCK FALSE
