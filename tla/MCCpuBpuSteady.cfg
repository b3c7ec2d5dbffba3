SPECIFICATION PredictedRunSpec
CONSTANTS
  WordSize = 16
  NRegs = 3
  RomWords = 4
  XLen = 4
  ByteBits = 1
  MemBytes = 5
  XByte = 1
  Alu <- AluResult
  BranchCond <- AluBranchCond
  RamStates <- Contents
  RamZero <- ZeroRam
  RamRead <- ReadRam
  RamWrite <- WriteRam
  Programs <- MCPrograms
  RamImages <- MCRamImages
  HistoryXor <- MCXor
  SetSize = 1
  CounterSize = 4
  BhtSize = 4
  DYNAMIC_PREDICTION = TRUE
  GhrSize = 2
  GHR_ON = FALSE
  Alphabet <- SteadyAlphabet
PROPERTIES
  PenaltiesEnd
  CompletesForever
