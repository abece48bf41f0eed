\* The instance of ScanRun.cfg, and what the command line assumes of a failed scan.
SPECIFICATION Spec
CONSTANTS
  history = history  http = http  sweep = sweep
  Listed <- MCListed
  DepChoices <- MCDepChoices
  OnCancel <- MCOnCancel
  Bounded = {history}
  Refusing = {}
  RetriesTimeout = {history, http}
  MaxRetries = 2
  MaxFound = 1
  MaxRecovered = 1
INVARIANT FailedRunIsMarked
CHECK_DEADLOCK FALSE
