\* Four ports and five packets: both rotations wrap, and reads are aggregated.
SPECIFICATION Spec
CONSTANTS
  MAX_PORT = 4
  PktLimitMax = 2
  retry_attempts = 1
  MaxRx = 5
  May = {"write", "read", "regs"}
INVARIANTS TypeOK PortsOffered InCardOrder NothingForgotten
