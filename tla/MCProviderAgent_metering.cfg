SPECIFICATION Spec
CONSTANTS
  c1 = c1
  c2 = c2
  k1 = k1
  k2 = k2
  k3 = k3
  Consumers = {c1, c2}
  Keys = {k1, k2, k3}
  Sessions <- MCSessions
  DeviceOf <- MCDeviceOf
  StartedAt <- MCSameSecond
  FirstKey <- MCFirstKey
  Addresses <- MCAddresses
  Quota = 2
  MaxTraffic = 2
  Failures = {"request", "response", "add", "added", "read", "remove", "tunnel", "agent", "key"}
  MaxFaults = 1
INVARIANTS TypeOK ChargeNeverExceedsTraffic
PROPERTIES PeersStaySeparate
