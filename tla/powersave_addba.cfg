\* A block-ack set up under the read lock: the sleep confirm is never answered.
SPECIFICATION FairSpec
CONSTANTS
  TxThreads = {x1}
  CmdThreads = {c1}
  Wlcmgr = wlcmgr
  NoThread = NoThread
  MaxIoEvents = 3
  MaxMsgs = 2
  May = {"addba"}
PROPERTY CommandAnswered
CHECK_DEADLOCK FALSE
