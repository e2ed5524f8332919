SPECIFICATION FairSpec
CONSTANTS
  owner = owner
  guest = guest
  p1 = p1
  p2 = p2
  c1 = c1
  c2 = c2
  None = None
  Users = {owner, guest}
  Devices = {p1, p2, c1}
  Shares = {s1}
  Sessions = {x1}
  UserOf <- MCUserOf
  RolesOf <- MCFixedRoles
  Size = 4
  ProviderHost = 1
  PreferredHost = 2
  TTL = 1
  MaxLife = 2
  MaxQuota = 1
  Quotas = {1}
  MaxTotal = 1
  MaxFaults = 1
PROPERTIES SilentDeviceEndsSession DeadShareEndsSessions
