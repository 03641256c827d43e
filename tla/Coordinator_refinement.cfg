SPECIFICATION Spec
CONSTANTS
  s1 = s1
  s2 = s2
  Shelf <- TwoShelves
  MaxKnown = 2
  RescanRepeats = 1
  MaxRestarts = 0
  AlarmFaults = FALSE
  StartFaults = FALSE
  RadioFaults = FALSE
  ShelfResets = FALSE
INVARIANTS ScanDeadline
INVARIANTS ScanIsSnapshot
INVARIANTS SingleRescanChain
PROPERTIES VerdictForEachAsked
PROPERTIES ImplementsScanService
