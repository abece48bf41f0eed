\* Three attempts per stage (the default), one discovery per attempt, one inherited event.
SPECIFICATION FairSpec
CONSTANTS
  history = history  http = http  sweep = sweep
  Listed <- MCListed
  DepChoices <- MCDepChoices
  OnCancel <- MCOnCancel
  Bounded = {history}
  Refusing = {sweep}
  RetriesTimeout = {history, http}
  MaxRetries = 2
  MaxFound = 1
  MaxRecovered = 1
INVARIANTS
  CompletedIsSettled ClosedIsReported StagesInOrder RetriesJustified
PROPERTIES
  ScanEnds
CHECK_DEADLOCK FALSE
