\* A DHCP success handled after its link has gone.
SPECIFICATION Spec
CONSTANTS
  Users = {u1, u2}
  Networks = {0, 1}
  DhcpNetworks = {0}
  UapNetworks = {}
  RescanLimit = 2
  ReconnectLimit = 1
  MaxEvents = 6
  MaxCalls = 2
  MaxLosses = 1
  Failures = {}
INVARIANT ConnectedHasLink
SYMMETRY UserSymmetry
CHECK_DEADLOCK FALSE
