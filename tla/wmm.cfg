\* Two buffers, two categories, one client and a broadcast after its packets: buffers run out and
\* are stolen.
SPECIFICATION Spec
CONSTANTS
  MAX_WMM_BUF_NUM = 2
  MAX_AC_QUEUES = 2
  Clients = {c1}
  Bcast = Bcast
  BcastPkts = {3}
  retry_attempts = 2
  MaxPkts = 3
INVARIANTS TypeOK BuffersConserved PacketsCounted QueuesInOrder NotForgotten
CHECK_DEADLOCK FALSE
