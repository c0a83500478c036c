SPECIFICATION FairSpec
CONSTANTS
  t1 = t1
  t2 = t2
  sig = sig
  Threads <- Flows
  Host <- OnFirst
  Objects <- ThreeObjects
  Pcs <- SomePcs
  FirstLen = 2
  PathLengths = {1, 4}
  Junk = {7}
  MaxCalls <- Calls
CHECK_DEADLOCK FALSE
INVARIANTS
  TypeOK
  LibraryExclusive
  ExecutableKnown
  AnswersOwn
PROPERTY
  CallsReturn
