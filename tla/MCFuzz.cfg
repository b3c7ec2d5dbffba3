SPECIFICATION FairRunSpec
CONSTANTS
  NGeneral = 4
  NLink = 2
  JALR_TMP = 4
  DataSize = 8
  ImmSize = 64
  InitValues <- OneInit
  SignedImms <- MinusThree
  SmallImms <- MinusThree
  ShiftImms = {3}
  UpperImms = {1}
  Iterations = {3}
  Plans <- MCPlans
  XLen = 8
  ByteBits = 2
  MemBytes = 104
  XByte = 1
  WordSize = 256
  Alu <- AluResult
  BranchCond <- AluBranchCond
  RamStates <- Contents
  RamZero <- ZeroRam
  RamRead <- ReadRam
  RamWrite <- WriteRam
  Paddings <- BothPaddings
  RomWords = 34
INVARIANTS
  LabelsResolve
  AccessInArea
PROPERTIES
  JalrLands
  ReachesLoop
