\* The instance of ScanRun.cfg, and what the troubleshooting page says of Ctrl+C.
SPECIFICATION Spec
CONSTANTS
  history = history  http = http  sweep = sweep
  Listed <- MCListed
  DepChoices <- MCDepChoices
  OnCancel <- MCOnCancel
  Bounded = {history}
  Refusing = {}
  RetriesTimeout = {history, http}
  MaxRetries = 2
  MaxFound = 1
  MaxRecovered = 1
INVARIANT InterruptedStageIsMarked
CHECK_DEADLOCK FALSE
