SPECIFICATION FairSpec
CONSTANTS
  QueueLength = 2
  InitFaults = TRUE
  AlarmFaults = TRUE
  StartFaults = TRUE
  RadioFaults = TRUE
  Removals = TRUE
  MaxRestarts = 1
INVARIANTS TypeOK
INVARIANTS AttributeFollowsState
INVARIANTS LedShowsState
INVARIANTS ButtonHandOver
INVARIANTS OneCommissioner
PROPERTIES ReportIsState
PROPERTIES JoiningGoesOn
PROPERTIES ButtonComesBack
PROPERTIES ShelfJoins
