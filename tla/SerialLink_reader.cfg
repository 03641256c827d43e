SPECIFICATION Spec
CONSTANTS
  Sender <- LoopAndPage
  Scanner <- Loop
  Request <- TwoCommands
  MaxFaults = 1
  LineMax = 30
INVARIANTS ReaderAssertion
