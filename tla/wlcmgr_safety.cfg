\* Two threads, two calls, every failure: indices, stimuli and reports.
SPECIFICATION Spec
CONSTANTS
  Users = {u1, u2}
  Networks = {0, 1, 2}
  DhcpNetworks = {0}
  UapNetworks = {2}
  RescanLimit = 2
  ReconnectLimit = 1
  MaxEvents = 4
  MaxCalls = 2
  MaxLosses = 1
  Failures = {"scan", "mem", "mic"}
INVARIANTS TypeOK OnlyTypeReadEarly AttemptHasStimulus
PROPERTY AttemptReported
SYMMETRY UserSymmetry
CHECK_DEADLOCK FALSE
