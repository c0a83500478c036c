SPECIFICATION Spec
CONSTANTS
  Space = 64
  MmapMin = 12
  FileNames <- PieNames
  Files <- AllFiles
  VdsoFile <- Vdso_so
  Gaps = {0, 2}
  MaxLines = 5
  MAX_NATIVE_LIBS = 3
CHECK_DEADLOCK FALSE
INVARIANT
  TruncationWorks
