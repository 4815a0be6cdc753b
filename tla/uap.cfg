\* Two slots and a queue of three: a request overtakes the events of the one before.
SPECIFICATION FairSpec
CONSTANTS
  WLAN_MAX_KNOWN_NETWORKS = 2
  MAX_EVENTS = 3
  Kinds = {"static", "dhcp"}
INVARIANTS TypeOK ApRuns StartAnswered
PROPERTIES WlanStopReturns
