SPECIFICATION Spec
CONSTANTS
  MaxLoc = 3
  MaxFdes = 3
  Deltas = {0, 1}
  CfaRegs = {7}
  CfaOffs = {16}
  FpOffs = {2}
  PcOffs <- PcOffsets
  ExprLens = {11}
  CodeAlign = 1
  DataAlign <- DataAlignment
  InitCapacity = 1
INVARIANTS LookupComplete

