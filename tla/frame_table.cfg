SPECIFICATION ReaderSpec
CONSTANTS
  MaxLoc = 3
  MaxFdes = 3
  Deltas = {0, 1}
  CfaRegs = {7}
  CfaOffs = {16}
  FpOffs = {2}
  PcOffs <- PcOffsets
  ExprLens = {11}
  CodeAlign = 1
  DataAlign <- DataAlignment
  InitCapacity = 1
  Width = 16
  MAX_FRAME_SIZE = 24
  Instructions <- AllInstructions
  Augmentations <- SomeAugmentations
  Paddings = {0, 1}
  MaxInsns = 4
INVARIANTS TypeOK TableSorted TableFits FoundIsFloor LookupSound ReadInSync RuleMeant
PROPERTIES LookupReturns TableRefined
