SPECIFICATION FairWatchedSpec
CONSTANTS
  Shelf <- OneShelf
  Near <- OneShelf
  MaxKnown = 1
  Scanner <- LoopAndPage
  Punctual = TRUE
  Rescans = 1
  Incidents = {"press", "command", "scan", "fault"}
  MaxIncidents = 2
  MaxLines = 1
INVARIANTS TypeOK
INVARIANTS SweepSparesHeard
INVARIANTS QuietScanTellsTruth
PROPERTIES LiveShelfIsShown
PROPERTIES DeadShelfIsOffline
CHECK_DEADLOCK FALSE
