\* Rescans and reconnects end.
SPECIFICATION FairSpec
CONSTANTS
  Users = {u1, u2}
  Networks = {0, 1}
  DhcpNetworks = {0}
  UapNetworks = {}
  RescanLimit = 2
  ReconnectLimit = 1
  MaxEvents = 4
  MaxCalls = 2
  MaxLosses = 1
  Failures = {"mic"}
PROPERTY AttemptSettles
CHECK_DEADLOCK FALSE
