\* Every behaviour of the handshake.  The circular wait of powersave_addba.cfg stops it.
SPECIFICATION Spec
CONSTANTS
  TxThreads = {x1}
  CmdThreads = {c1}
  Wlcmgr = wlcmgr
  NoThread = NoThread
  MaxIoEvents = 3
  MaxMsgs = 2
  May = {"addba", "giveup", "data"}
INVARIANTS TypeOK ReadersCounted LockOwned SleepExclusive
CHECK_DEADLOCK FALSE
