\* Three clients and a table of two: the third is served from a full table.
SPECIFICATION Spec
CONSTANTS
  Clients = {m1, m2, m3}
  Size = 8
  MyIp = 1
  MAC_IP_CACHE_SIZE = 2
  Requested = {1, 2, 8}
  OptionLists <- MCOptionLists
INVARIANTS TypeOK TableRespected SocketKept
PROPERTIES MessageHandled ImplementsPool
