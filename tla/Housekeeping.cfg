CONSTANTS
  m1 = m1  m2 = m2  u1 = u1  u2 = u2
  x = x  y = y  z = z  eth0 = eth0  eth1 = eth1
  Managed = {m1, m2}
  Unmanaged = {u1, u2}
  Addrs <- MCAddrs
  Gateway <- MCGateway
  Nics = {eth0, eth1}
  NicFiles <- MCNicFiles
  MaxAttempts = 2
  FlagSets <- MCFlagSets
  MaxFaults = 1
  MaxRuns = 3
SPECIFICATION Spec
CHECK_DEADLOCK FALSE
INVARIANTS UsedNotListed ReplacedOnly NicRowsHold
