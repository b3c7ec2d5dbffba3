SPECIFICATION PredictedSpec
CONSTANTS
  WordSize = 256
  NRegs = 3
  RomWords = 4
  XLen = 8
  ByteBits = 2
  MemBytes = 1
  XByte = 1
  Alu <- AluResult
  BranchCond <- AluBranchCond
  RamStates <- Contents
  RamZero <- ZeroRam
  RamRead <- ReadRam
  RamWrite <- WriteRam
  Programs <- MCPrograms
  RamImages <- MCRamImages
  HistoryXor <- MCXor
  SetSize = 2
  CounterSize = 4
  BhtSize = 8
  DYNAMIC_PREDICTION = TRUE
  GhrSize = 4
  GHR_ON = TRUE
  Alphabet <- MixedAlphabet
INVARIANTS
  EntriesTrue
PROPERTIES
  ImplementsCpu
