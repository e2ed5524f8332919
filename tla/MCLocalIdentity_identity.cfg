SPECIFICATION Spec
CONSTANTS
  s1 = s1
  s2 = s2
  u1 = u1
  u2 = u2
  n1 = n1
  n2 = n2
  d1 = d1
  d2 = d2
  None = None
  Broken = Broken
  Servers = {s1, s2}
  DefaultServer = s1
  Users = {u1, u2}
  Names = {n1, n2}
  Hostname = n1
  DeviceIds = {d1, d2}
  Overrides = {}
  RoleLocked = "consumer"
SYMMETRY MCSymmetry
CHECK_DEADLOCK FALSE
INVARIANTS TypeOK CredentialsBelongTogether
PROPERTIES RegistrationIsRepeatable
