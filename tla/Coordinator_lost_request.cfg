SPECIFICATION ProvisioningSpec
CONSTANTS
  s1 = s1
  s2 = s2
  Shelf <- OneShelf
  MaxKnown = 1
  RescanRepeats = 1
  MaxRestarts = 0
  AlarmFaults = FALSE
  StartFaults = FALSE
  RadioFaults = TRUE
  ShelfResets = FALSE
PROPERTIES AnnouncedShelfIsGrouped
