SPECIFICATION Spec
CONSTANTS
  Publisher <- ReaderAndHandler
  MaxChanges = 2
  MaxRefreshes = 0
  MaxBreaks = 1
INVARIANTS PageIsCurrent
CHECK_DEADLOCK FALSE
