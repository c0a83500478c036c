SPECIFICATION FairSpec
CONSTANTS
  PoolSize = 2
  StackMax = 3
  BufMax = 3
  cLong = cLong
  cShort = cShort
  goMid = goMid
  goDeep = goDeep
  Sites = {cLong, cShort, goMid, goDeep}
  NoSite = NoSite
  BaseSites = {goDeep, cLong}
  NestedSites = {goMid}
  HandlerSites = {}
  DirectSites = {cShort, cLong, goDeep, goMid}
  Walk <- MCWalk
  Asmcgocall = {99}
  MaxDepth = 4
  Observer = TRUE
  Interrupts <- EveryLabel
  Toggles = TRUE
ACTION_CONSTRAINT Programs
INVARIANTS SlotExclusive ReportExact DirectExact
PROPERTIES ContextReturns TracebackReturns
