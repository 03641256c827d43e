SPECIFICATION Spec
CONSTANTS
  s1 = s1
  s2 = s2
  Shelf <- TwoShelves
  MaxKnown = 1
  RescanRepeats = 1
  MaxRestarts = 1
  AlarmFaults = TRUE
  StartFaults = TRUE
  RadioFaults = TRUE
  ShelfResets = TRUE
SYMMETRY Symmetry
INVARIANTS TypeOK
INVARIANTS OneCommissioner
INVARIANTS CommissioningGoesOn
INVARIANTS GroupIsWatched
PROPERTIES FreshGoneOnlyWithoutRoom
CHECK_DEADLOCK FALSE
