SPECIFICATION FairFuzzSpec
CONSTANTS
  MaxRuns = 1
  FUZZ_LOOPS <- OneLoops
  FUZZ_JOBS <- OneJobs
  MaxCases = 3
  Batch = 2
INVARIANTS
  FailureReported
CHECK_DEADLOCK FALSE
