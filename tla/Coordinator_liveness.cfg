SPECIFICATION ProvisioningSpec
CONSTANTS
  s1 = s1
  s2 = s2
  Shelf <- OneShelf
  MaxKnown = 1
  RescanRepeats = 1
  MaxRestarts = 1
  AlarmFaults = FALSE
  StartFaults = TRUE
  RadioFaults = FALSE
  ShelfResets = FALSE
INVARIANTS RegisteredIsProvisioned
PROPERTIES NetworkComesUp
PROPERTIES RescansEnd
PROPERTIES ImplementsFairScanService
PROPERTIES AnnouncedShelfIsGrouped
CHECK_DEADLOCK FALSE
