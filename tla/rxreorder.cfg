\* One stream: 8 sequence numbers, a window of 4, every packet type.
SPECIFICATION FairSpec
CONSTANTS
  SeqMod = 8
  WinSize = 4
  Ssns = {6}
  TimerFails = FALSE
INVARIANTS
  TypeOK
  TableConsistent
  BufferedArmed
PROPERTIES
  Conserved
  InOrderBetweenWraps
  BufferedLeaves

VIEW View
