SPECIFICATION Spec
CONSTANTS
  QueueLength = 2
  InitFaults = FALSE
  AlarmFaults = FALSE
  StartFaults = FALSE
  RadioFaults = FALSE
  Removals = FALSE
  MaxRestarts = 0
PROPERTIES PressTogglesOnce
