\* The handshake without its disturbances: everyone is served.
SPECIFICATION FairSpec
CONSTANTS
  TxThreads = {x1}
  CmdThreads = {c1}
  Wlcmgr = wlcmgr
  NoThread = NoThread
  MaxIoEvents = 3
  MaxMsgs = 2
  May = {}
PROPERTIES CommandAnswered ReaderWoken
