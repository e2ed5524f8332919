SPECIFICATION FairSpec
CONSTANTS
  c1 = c1
  c2 = c2
  k1 = k1
  k2 = k2
  k3 = k3
  Consumers = {c1, c2}
  Keys = {k1, k2, k3}
  Sessions <- MCSessions
  DeviceOf <- MCDeviceOf
  StartedAt <- MCInOrder
  FirstKey <- MCFirstKey
  Addresses <- MCAddresses
  Quota = 1
  MaxTraffic = 1
  Failures <- MCRecoverable
  MaxFaults = 1
PROPERTIES EndedSessionLosesItsPeer
