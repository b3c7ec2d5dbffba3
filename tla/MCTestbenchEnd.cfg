SPECIFICATION BenchSpec
CHECK_DEADLOCK FALSE
CONSTANTS
  WordSize = 16
  NRegs = 3
  RomWords = 4
  XLen = 4
  ByteBits = 1
  MemBytes = 5
  XByte = 1
  Alu <- AluResult
  BranchCond <- AluBranchCond
  RamStates <- Contents
  RamZero <- ZeroRam
  RamRead <- ReadRam
  RamWrite <- WriteRam
  Programs <- MCPrograms
  RamImages <- MCRamImages
  max_cycles = 18
INVARIANTS
  SamePoint
  StopsInTime
  CountsTrue
  CyclesAccounted
