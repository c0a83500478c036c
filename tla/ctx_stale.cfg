SPECIFICATION Spec
CONSTANTS
  PoolSize = 2
  StackMax = 3
  BufMax = 3
  cLong = cLong
  cShort = cShort
  goMid = goMid
  goDeep = goDeep
  Sites = {cLong, cShort, goMid, goDeep}
  NoSite = NoSite
  BaseSites = {cLong, cShort}
  NestedSites = {goMid}
  HandlerSites = {}
  DirectSites = {}
  Walk <- MCWalk
  Asmcgocall = {99}
  MaxDepth = 5
  Observer = FALSE
  Interrupts = {}
  Toggles = FALSE
INVARIANTS ReportExact
