SPECIFICATION FairTestSpec
CONSTANTS
  NRegs = 3
  WordSize = 4
  LineBytes = 8
  Byte <- MCByte
  Programs <- MCPrograms
  CpuValues <- MCCpuValues
  MaxRuns = 2
  MaxKills = 1
INVARIANTS
  SameProgram
  PassIsFresh
  FailIsReal
PROPERTIES
  VerdictReached
CHECK_DEADLOCK FALSE
