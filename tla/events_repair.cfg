SPECIFICATION LedgerSpec
CONSTANTS
  MaxLedgerRuns = 2
  OldRuns = 2
  EvidenceLists = {"e1", "e2"}
  AnalysisContents = {"a1"}
  MaxUpdates = 1
PROPERTIES
  TerminalEventsRepaired
CHECK_DEADLOCK FALSE
