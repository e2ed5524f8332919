SPECIFICATION EFairSpec
CONSTANTS
  owner = owner
  guest = guest
  p1 = p1
  c1 = c1
  None = None
  Users = {owner, guest}
  Devices = {p1, c1}
  Shares = {s1}
  Sessions = {x1}
  UserOf <- MCUserOf
  RolesOf <- MCRoles
  Size = 4
  ProviderHost = 1
  PreferredHost = 2
  TTL = 1
  MaxLife = 1
  MaxQuota = 1
  Quotas = {1}
  MaxTotal = 1
  MaxFaults = 1
PROPERTIES EndedSessionLosesItsTunnel EndedSessionLosesItsAccess FollowsLifecycle
