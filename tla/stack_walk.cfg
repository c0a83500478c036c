SPECIFICATION FairSpec
CONSTANTS
  Word = 8
  Space = 1024
  MIN_VALID_PC = 16
  MAX_FRAME_SIZE = 64
  MAX_WALK_SIZE = 128
  MaxCalls = 4
  MaxDepth = 3
  StackLow = 408
  StackBase = 512
  Functions <- AllFunctions
  Start <- main
  Libraries <- TwoLibraries
  Scratch = 7
  Garbage = {33, 480, 1021}
  LoadAt = 64
  LoadPcs = {68, 72}
  LoadInsns = {33, 63, 68, 72, 80}
  OldActions = {"default", "ignore", "function"}
INVARIANTS TypeOK WalkRight ContextRight WalkBounded WalkHarmless
PROPERTIES WalkReturns
CHECK_DEADLOCK FALSE
