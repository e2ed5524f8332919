\* Two consumer devices of one receiver compete for the addresses of a /29,
\* and one of them may be registered again as a provider.
SPECIFICATION Spec
CONSTANTS
  owner = owner
  guest = guest
  p1 = p1
  p2 = p2
  c1 = c1
  c2 = c2
  None = None
  Users = {owner, guest}
  Devices = {p1, c1, c2}
  Shares = {s1}
  Sessions = {x1, x2}
  UserOf <- MCUserOf
  RolesOf <- MCChangingRoles
  Size = 8
  ProviderHost = 1
  PreferredHost = 2
  TTL = 1
  MaxLife = 2
  MaxQuota = 2
  Quotas = {2}
  MaxTotal = 1
  MaxFaults = 0
SYMMETRY MCSymmetry
INVARIANTS
  TypeOK
  OneLiveSessionPerConsumer
  UniqueLiveAddress
  SessionJoinsParties
  ExhaustedIffUsedUp
  ChargeCoversReports
PROPERTIES
  ChargeIsFinal
  ProvidersLeaseAddresses
