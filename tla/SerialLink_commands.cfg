SPECIFICATION FairSpec
CONSTANTS
  Sender <- LoopAndPage
  Scanner <- Loop
  Request <- TwoCommands
  MaxFaults = 1
  LineMax = 30
INVARIANTS TypeOK
INVARIANTS OnlySentCommands
INVARIANTS LockMeansSending
PROPERTIES CommandsInOrder
PROPERTIES LockIsReleased
PROPERTIES PortRecovers
CHECK_DEADLOCK FALSE
