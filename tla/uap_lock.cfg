\* One slot: a start under way when the service is stopped.
SPECIFICATION Spec
CONSTANTS
  WLAN_MAX_KNOWN_NETWORKS = 1
  MAX_EVENTS = 2
  Kinds = {"static"}
INVARIANT CommandLockOwned
