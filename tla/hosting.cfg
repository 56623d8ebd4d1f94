SPECIFICATION FairSpec
CONSTANTS
  g1 = g1
  g2 = g2
  d1 = d1
  s1 = s1
  s2 = s2
  Gloms <- MCGloms
  Documents <- OneDocument
  Servers <- TwoServers
  Ports = {1, 2}
  MaxRetries = 1
  SlowServers = FALSE
  NoGlom = NoGlom
  NoDocument = NoDocument
  NoServer = NoServer
INVARIANTS
  TypeOK
  KnowsItsServer
PROPERTIES
  EveryWaitEnds
