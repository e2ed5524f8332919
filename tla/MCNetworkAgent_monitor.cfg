SPECIFICATION FairSpec
CONSTANTS
  x1 = x1
  x2 = x2
  n1 = n1
  g1 = g1
  e1 = e1
  e2 = e2
  h1 = h1
  m1 = m1
  v1 = v1
  None = None
  Sessions = {x1}
  Manual = {}
  Gateways = {}
  Endpoints = {e1}
  InitEndpoint <- MCInitEndpoint
  NATNamed = TRUE
  Handlers = {h1}
  Monitors = {m1}
  Windows = {v1}
  MaxFaults = 1
INVARIANTS ResourcesAreRecorded
PROPERTIES RevokedSessionIsCleanedUp
