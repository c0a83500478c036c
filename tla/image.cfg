SPECIFICATION StartSpec
CONSTANTS
  Space = 64
  MmapMin = 12
  FileNames <- FixedNames
  Files <- AllFiles
  VdsoFile <- Vdso_so
  Gaps = {0, 2}
  MaxLines = 5
  MAX_NATIVE_LIBS = 3
  MachNames <- MachImages
  MachFiles <- MachAll
  Slides = {0, 17, 26, 35}
  MaxImages = 5
CHECK_DEADLOCK FALSE
INVARIANTS
  TypeOK
  HeaderReadable
  GotOwn
  TableOwn
  EveryFileParsed
  AsmcgocallExact
  MachRead
